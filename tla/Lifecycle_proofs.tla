--------------------------- MODULE Lifecycle_proofs ---------------------------
(***************************************************************************)
(* What holds of the server from its start to its end: first in every       *)
(* behaviour of Lifecycle, fair or not, then what fairness adds when the    *)
(* steps it speaks of can be taken (LoopKeepsTurning, which TLC checks).    *)
(***************************************************************************)
EXTENDS Lifecycle, TLAPS

\* libspotify has called logged_in with success.
HasLoggedIn == LoggedInNow \/ login = "out"

(***************************************************************************)
(* What the properties need to be inductive: main starts in order,         *)
(* logged_in set all that is used later, the events are freed only after   *)
(* the loop, the loop is broken only by the end of the login, and a        *)
(* refused login ends the process.                                         *)
(***************************************************************************)
Early ==
    /\ main = "start" => login = "none"
    /\ main = "login" => login = "created"
SetUp == HasLoggedIn => session /\ http # "unset"
FreedLate == async = "freed" => main \notin {"start", "login", "loop", "process"}
BrokenLate == broken => login \in {"out", "failed"}
RefusedEnds == login = "failed" => main = "exited"

IInv == TypeOK /\ LogoutBeforeExit /\ CrashOnlyEarly /\ Early /\ SetUp
        /\ FreedLate /\ BrokenLate /\ RefusedEnds

LEMMA IInvInit == Init => IInv
  BY DEF Init, IInv, TypeOK, LogoutBeforeExit, CrashOnlyEarly, Early, SetUp,
         FreedLate, BrokenLate, RefusedEnds, HasLoggedIn, LoggedInNow, Freeing

\* The steps of main that set up and run the loop.
LEMMA LoopSteps ==
    ASSUME IInv,
           \/ NoSession \/ CreateSession \/ Login \/ LoopBreaks \/ LoopRunsDry
           \/ ProcessEvents \/ ProcessEventsReturns \/ SigintHandler \/ Killed
    PROVE  IInv'
<1>. USE DEF IInv, TypeOK, LogoutBeforeExit, CrashOnlyEarly, Early, SetUp,
             FreedLate, BrokenLate, RefusedEnds, HasLoggedIn, LoggedInNow, Freeing,
             Ended, events, UseInvalid
<1>1. CASE NoSession             BY <1>1 DEF NoSession
<1>2. CASE CreateSession         BY <1>2 DEF CreateSession
<1>3. CASE Login                 BY <1>3 DEF Login
<1>4. CASE LoopBreaks            BY <1>4 DEF LoopBreaks
<1>5. CASE LoopRunsDry           BY <1>5 DEF LoopRunsDry
<1>6. CASE ProcessEvents         BY <1>6 DEF ProcessEvents
<1>7. CASE ProcessEventsReturns  BY <1>7 DEF ProcessEventsReturns
<1>8. CASE SigintHandler         BY <1>8 DEF SigintHandler
<1>9. CASE Killed                BY <1>9 DEF Killed
<1>. QED  BY <1>1, <1>2, <1>3, <1>4, <1>5, <1>6, <1>7, <1>8, <1>9

\* The steps of main after the loop.
LEMMA FreeSteps ==
    ASSUME IInv, FreeAsync \/ FreeTimer \/ FreeSigint \/ FreeHttp \/ FreeState
    PROVE  IInv'
<1>. USE DEF IInv, TypeOK, LogoutBeforeExit, CrashOnlyEarly, Early, SetUp,
             FreedLate, BrokenLate, RefusedEnds, HasLoggedIn, LoggedInNow, Freeing,
             events, UseInvalid
<1>1. CASE FreeAsync   BY <1>1 DEF FreeAsync
<1>2. CASE FreeTimer   BY <1>2 DEF FreeTimer
<1>3. CASE FreeSigint  BY <1>3 DEF FreeSigint
<1>4. CASE FreeHttp    BY <1>4 DEF FreeHttp
<1>5. CASE FreeState   BY <1>5 DEF FreeState
<1>. QED  BY <1>1, <1>2, <1>3, <1>4, <1>5

\* The callbacks of libspotify, and what its own thread does.
LEMMA SpotifySteps ==
    ASSUME IInv,
           \/ LoggedIn \/ LoginRefused \/ LoggedOut
           \/ NotifyMainThread \/ AnswerLogin \/ AnswerLogout
    PROVE  IInv'
<1>. USE DEF IInv, TypeOK, LogoutBeforeExit, CrashOnlyEarly, Early, SetUp,
             FreedLate, BrokenLate, RefusedEnds, HasLoggedIn, LoggedInNow, Freeing,
             Ended, events, UseInvalid
<1>1. CASE LoggedIn      BY <1>1 DEF LoggedIn
<1>2. CASE LoginRefused  BY <1>2 DEF LoginRefused, LogOut
<1>3. CASE LoggedOut     BY <1>3 DEF LoggedOut, LogOut
<1>4. CASE NotifyMainThread
  <2>1. CASE async = "freed"
    BY <1>4, <2>1 DEF NotifyMainThread
  <2>2. CASE async # "freed"
    BY <1>4, <2>2 DEF NotifyMainThread
  <2>. QED  BY <2>1, <2>2
<1>5. CASE AnswerLogin   BY <1>5 DEF AnswerLogin
<1>6. CASE AnswerLogout  BY <1>6 DEF AnswerLogout
<1>. QED  BY <1>1, <1>2, <1>3, <1>4, <1>5, <1>6

LEMMA IInvStep == IInv /\ [Next]_vars => IInv'
<1>. SUFFICES ASSUME IInv, [Next]_vars PROVE IInv'
  OBVIOUS
<1>1. CASE UNCHANGED vars
  BY <1>1 DEF vars, events, IInv, TypeOK, LogoutBeforeExit, CrashOnlyEarly, Early, SetUp,
              FreedLate, BrokenLate, RefusedEnds, HasLoggedIn, LoggedInNow, Freeing
<1>2. CASE Next
  BY <1>2, LoopSteps, FreeSteps, SpotifySteps DEF Next, MainStep
<1>. QED  BY <1>1, <1>2

LEMMA SafeIInv == SafeSpec => []IInv
  BY IInvInit, IInvStep, PTL DEF SafeSpec

\* The server does not end, by itself or by SIGINT, before libspotify has logged
\* out: the loop is not broken and the handler of SIGINT stays in place.
THEOREM LogsOutFirst == SafeSpec => []LogoutBeforeExit
<1>1. IInv => LogoutBeforeExit
  BY DEF IInv
<1>. QED  BY <1>1, SafeIInv, PTL

\* Whatever crashes a server that has logged in is an event freed too early.
THEOREM CrashesOnlyEarly == SafeSpec => []CrashOnlyEarly
<1>1. IInv => CrashOnlyEarly
  BY DEF IInv
<1>. QED  BY <1>1, SafeIInv, PTL

\* The variables of the server's life keep their types.
THEOREM LifeTyped == SafeSpec => []TypeOK
<1>1. IInv => TypeOK
  BY DEF IInv
<1>. QED  BY <1>1, SafeIInv, PTL
-----------------------------------------------------------------------------
(* What keeps the loop turning. *)

\* Only a successful login adds the handler of SIGINT; from then on process_events
\* adds its timer before it goes back to the loop.
TimerSet ==
    /\ sigint = "added" => LoggedInNow
    /\ main = "loop" /\ LoggedInNow => timer = "pending"

\* main loops only after sp_session_login, and when libspotify has logged out the
\* loop is broken.
LoopLate ==
    /\ main \in {"loop", "process"} => login \notin {"none", "created"}
    /\ login = "out" => broken /\ main \in {"loop", "process"} \cup Freeing
                                           \cup {"exited", "crashed", "killed"}

\* The socket is bound at the login, and whoever cannot bind it logs out.
SocketLate ==
    /\ http = "bound" => HasLoggedIn
    /\ http = "unbound" => login \in {"leaving", "left", "out"}

TInv == TimerSet /\ LoopLate /\ SocketLate

LEMMA TInvInit == Init => TInv
  BY DEF Init, TInv, TimerSet, LoopLate, SocketLate, HasLoggedIn, LoggedInNow

LEMMA TInvLoopSteps ==
    ASSUME IInv, TInv,
           \/ NoSession \/ CreateSession \/ Login \/ LoopBreaks \/ LoopRunsDry
           \/ ProcessEvents \/ ProcessEventsReturns \/ SigintHandler \/ Killed
    PROVE  TInv'
<1>. USE DEF IInv, LogoutBeforeExit, Early, TInv, TimerSet, LoopLate, SocketLate,
             HasLoggedIn, LoggedInNow, Freeing, events, UseInvalid
<1>1. CASE NoSession             BY <1>1 DEF NoSession
<1>2. CASE CreateSession         BY <1>2 DEF CreateSession
<1>3. CASE Login                 BY <1>3 DEF Login
<1>4. CASE LoopBreaks            BY <1>4 DEF LoopBreaks
<1>5. CASE LoopRunsDry           BY <1>5 DEF LoopRunsDry
<1>6. CASE ProcessEvents         BY <1>6 DEF ProcessEvents
<1>7. CASE ProcessEventsReturns  BY <1>7 DEF ProcessEventsReturns
<1>8. CASE SigintHandler         BY <1>8 DEF SigintHandler
<1>9. CASE Killed                BY <1>9 DEF Killed
<1>. QED  BY <1>1, <1>2, <1>3, <1>4, <1>5, <1>6, <1>7, <1>8, <1>9

LEMMA TInvFreeSteps ==
    ASSUME IInv, TInv, FreeAsync \/ FreeTimer \/ FreeSigint \/ FreeHttp \/ FreeState
    PROVE  TInv'
<1>. USE DEF IInv, TypeOK, LogoutBeforeExit, TInv, TimerSet, LoopLate, SocketLate,
             HasLoggedIn, LoggedInNow, Freeing, events, UseInvalid
<1>1. CASE FreeAsync   BY <1>1 DEF FreeAsync
<1>2. CASE FreeTimer   BY <1>2 DEF FreeTimer
<1>3. CASE FreeSigint  BY <1>3 DEF FreeSigint
<1>4. CASE FreeHttp    BY <1>4 DEF FreeHttp
<1>5. CASE FreeState   BY <1>5 DEF FreeState
<1>. QED  BY <1>1, <1>2, <1>3, <1>4, <1>5

LEMMA TInvSpotifySteps ==
    ASSUME IInv, TInv,
           \/ LoggedIn \/ LoginRefused \/ LoggedOut
           \/ NotifyMainThread \/ AnswerLogin \/ AnswerLogout
    PROVE  TInv'
<1>. USE DEF IInv, TypeOK, LogoutBeforeExit, TInv, TimerSet, LoopLate, SocketLate,
             HasLoggedIn, LoggedInNow, Freeing, Ended, events, UseInvalid
<1>1. CASE LoggedIn      BY <1>1 DEF LoggedIn
<1>2. CASE LoginRefused  BY <1>2 DEF LoginRefused, LogOut
<1>3. CASE LoggedOut     BY <1>3 DEF LoggedOut, LogOut
<1>4. CASE NotifyMainThread
  <2>1. CASE async = "freed"
    BY <1>4, <2>1 DEF NotifyMainThread
  <2>2. CASE async # "freed"
    BY <1>4, <2>2 DEF NotifyMainThread
  <2>. QED  BY <2>1, <2>2
<1>5. CASE AnswerLogin   BY <1>5 DEF AnswerLogin
<1>6. CASE AnswerLogout  BY <1>6 DEF AnswerLogout
<1>. QED  BY <1>1, <1>2, <1>3, <1>4, <1>5, <1>6

LEMMA TInvStep == IInv /\ TInv /\ [Next]_vars => TInv'
<1>. SUFFICES ASSUME IInv, TInv, [Next]_vars PROVE TInv'
  OBVIOUS
<1>1. CASE UNCHANGED vars
  BY <1>1 DEF vars, events, TInv, TimerSet, LoopLate, SocketLate, HasLoggedIn,
              LoggedInNow, Freeing
<1>2. CASE Next
  BY <1>2, TInvLoopSteps, TInvFreeSteps, TInvSpotifySteps DEF Next, MainStep
<1>. QED  BY <1>1, <1>2

LEMMA SafeTInv == SafeSpec => [](IInv /\ TInv)
  BY IInvInit, IInvStep, TInvInit, TInvStep, PTL DEF SafeSpec

\* As long as SIGINT or a browser could be all that is left to wake the loop, the
\* timer of process_events wakes it: libspotify is never left unserved.
TimerWakes ==
    main = "loop" /\ ~broken /\ (sigint = "added" \/ http = "bound") => timer = "pending"

\* The guard of LoopKeepsTurning for the loop: process_events runs again after every
\* callback, so a logged-in server does not depend on another notify_main_thread.
THEOREM LoopIsWoken == SafeSpec => []TimerWakes
<1>1. IInv /\ TInv => TimerWakes
  BY DEF IInv, TInv, TimerSet, LoopLate, SocketLate, HasLoggedIn, TimerWakes
<1>. QED  BY <1>1, SafeTInv, PTL
-----------------------------------------------------------------------------
(* The answer to the login is acted upon: the service answers, the timer    *)
(* brings main back to process_events, which calls logged_in.               *)

Answered == LoggedInNow \/ login \in {"failed", "out"} \/ main \in {"crashed", "killed"}

Asked ==
    /\ login = "pending"
    /\ \/ main = "process"
       \/ main = "loop" /\ timer = "pending"
AnswerWaits == login \in {"accepted", "refused"} /\ main = "loop" /\ timer = "pending"
AnswerRead == login \in {"accepted", "refused"} /\ main = "process"

LEMMA AskedStep ==
    ASSUME IInv, Asked, [Next]_vars
    PROVE  /\ Asked' \/ AnswerWaits' \/ AnswerRead' \/ Answered'
           /\ AnswerLogin => AnswerWaits' \/ AnswerRead'
<1>. USE DEF IInv, BrokenLate, FreedLate, Asked, AnswerWaits, AnswerRead, Answered
<1>1. CASE AnswerLogin
  BY <1>1 DEF AnswerLogin, events
<1>2. CASE ProcessEvents \/ ProcessEventsReturns
  BY <1>2 DEF ProcessEvents, ProcessEventsReturns, UseInvalid, AnswerLogin
<1>8. CASE NotifyMainThread \/ Killed
  BY <1>8 DEF NotifyMainThread, Killed, events, AnswerLogin
<1>3. CASE UNCHANGED vars
  BY <1>3 DEF vars, events, AnswerLogin
<1>4. CASE SigintHandler \/ AnswerLogout
  BY <1>4 DEF SigintHandler, AnswerLogout, events, AnswerLogin
<1>5. CASE NoSession \/ CreateSession \/ Login \/ LoopBreaks \/ LoopRunsDry
  BY <1>5 DEF NoSession, CreateSession, Login, LoopBreaks, LoopRunsDry, AnswerLogin
<1>6. CASE FreeAsync \/ FreeTimer \/ FreeSigint \/ FreeHttp \/ FreeState
  BY <1>6 DEF FreeAsync, FreeTimer, FreeSigint, FreeHttp, FreeState
<1>7. CASE LoggedIn \/ LoginRefused \/ LoggedOut
  BY <1>7 DEF LoggedIn, LoginRefused, LoggedOut
<1>. QED BY <1>1, <1>2, <1>3, <1>4, <1>5, <1>6, <1>7, <1>8 DEF Next, MainStep

LEMMA WaitsStep ==
    ASSUME IInv, AnswerWaits, [Next]_vars
    PROVE  /\ AnswerWaits' \/ AnswerRead' \/ Answered'
           /\ MainStep => AnswerRead' \/ Answered'
<1>. USE DEF IInv, BrokenLate, FreedLate, AnswerWaits, AnswerRead, Answered
<1>1. MainStep => ProcessEvents
  BY DEF MainStep, Login, LoopBreaks, LoopRunsDry, FreeAsync, FreeTimer, FreeSigint,
         FreeHttp, FreeState, ProcessEventsReturns, LoggedIn, LoginRefused, LoggedOut
<1>2. ProcessEvents => AnswerRead' \/ Answered'
  BY DEF ProcessEvents, UseInvalid
<1>3. CASE NotifyMainThread \/ Killed \/ SigintHandler
  BY <1>1, <1>2, <1>3 DEF NotifyMainThread, Killed, SigintHandler, events, UseInvalid, Ended
<1>4. CASE UNCHANGED vars
  BY <1>1, <1>2, <1>4 DEF vars, events
<1>5. CASE AnswerLogin \/ AnswerLogout \/ NoSession \/ CreateSession
  BY <1>5 DEF AnswerLogin, AnswerLogout, NoSession, CreateSession
<1>. QED BY <1>1, <1>2, <1>3, <1>4, <1>5 DEF Next

LEMMA ReadStep ==
    ASSUME IInv, AnswerRead, [Next]_vars
    PROVE  /\ AnswerRead' \/ Answered'
           /\ MainStep => Answered'
<1>. USE DEF IInv, FreedLate, AnswerRead, Answered, LoggedInNow
<1>1. MainStep => LoggedIn \/ LoginRefused
  BY DEF MainStep, Login, LoopBreaks, LoopRunsDry, FreeAsync, FreeTimer, FreeSigint,
         FreeHttp, FreeState, ProcessEvents, ProcessEventsReturns, LoggedOut
<1>2. LoggedIn \/ LoginRefused => Answered'
  BY DEF LoggedIn, LoginRefused
<1>3. CASE NotifyMainThread \/ Killed
  BY <1>1, <1>2, <1>3 DEF NotifyMainThread, Killed, events, UseInvalid, Ended
<1>4. CASE UNCHANGED vars
  BY <1>1, <1>2, <1>4 DEF vars
<1>5. CASE SigintHandler \/ AnswerLogin \/ AnswerLogout \/ NoSession \/ CreateSession
  BY <1>5 DEF SigintHandler, AnswerLogin, AnswerLogout, NoSession, CreateSession
<1>. QED BY <1>1, <1>2, <1>3, <1>4, <1>5 DEF Next

\* Once process_events has run, a login does not hang: when every step that is due can
\* be taken (LoopKeepsTurning), the answer reaches logged_in, or the server has ended.
THEOREM LoginEnds == Spec /\ []LoopKeepsTurning => LoginIsAnswered
<1>1. IInv /\ Asked /\ [Next]_vars => Asked' \/ AnswerWaits' \/ AnswerRead' \/ Answered'
  BY AskedStep
<1>2. IInv /\ Asked /\ <<AnswerLogin>>_vars => AnswerWaits' \/ AnswerRead'
  BY AskedStep DEF Next
<1>3. IInv /\ AnswerWaits /\ [Next]_vars => AnswerWaits' \/ AnswerRead' \/ Answered'
  BY WaitsStep
<1>4. IInv /\ AnswerWaits /\ <<MainStep>>_vars => AnswerRead' \/ Answered'
  BY WaitsStep DEF Next
<1>5. IInv /\ AnswerRead /\ [Next]_vars => AnswerRead' \/ Answered'
  BY ReadStep
<1>6. IInv /\ AnswerRead /\ <<MainStep>>_vars => Answered'
  BY ReadStep DEF Next
<1>7. LoopKeepsTurning /\ Asked => ENABLED <<AnswerLogin>>_vars
  BY DEF LoopKeepsTurning, Asked, Ended
<1>8. LoopKeepsTurning /\ (AnswerWaits \/ AnswerRead) => ENABLED <<MainStep>>_vars
  BY DEF LoopKeepsTurning, AnswerWaits, AnswerRead, Ended
<1>9. IInv /\ TInv /\ main = "process" => Asked \/ AnswerRead \/ Answered
  <2>. SUFFICES ASSUME IInv, TInv, main = "process"
                PROVE  Asked \/ AnswerRead \/ Answered
    OBVIOUS
  <2>1. login \in {"pending", "accepted", "refused", "failed", "in", "leaving", "left", "out"}
    BY DEF IInv, TypeOK, TInv, LoopLate
  <2>. QED BY <2>1 DEF Asked, AnswerRead, Answered, LoggedInNow
<1>10. Answered <=> \/ LoggedInNow \/ login \in {"failed", "out"}
                    \/ main \in {"crashed", "killed"}
  BY DEF Answered
<1>11. Spec => SafeSpec /\ WF_vars(MainStep) /\ WF_vars(AnswerLogin)
  BY PTL DEF Spec
<1>. QED BY <1>1, <1>2, <1>3, <1>4, <1>5, <1>6, <1>7, <1>8, <1>9, <1>10, <1>11,
            SafeTInv, PTL DEF SafeSpec, LoginIsAnswered
-----------------------------------------------------------------------------
(* The logout brings the server down: the service answers, the timer brings *)
(* main back to process_events, logged_out breaks the loop, and main frees  *)
(* what is left, one thing after the other.                                 *)

At(m) == main = m

\* What main frees, and where it is then.
FreeOrder == {<<"free_async", "free_timer">>, <<"free_timer", "free_sigint">>,
              <<"free_sigint", "free_http">>, <<"free_http", "free_state">>,
              <<"free_state", "exited">>}

Leaving == login = "leaving" /\ ~Ended
LeftWaits == login = "left" /\ main = "loop"
LeftRead == login = "left" /\ main = "process"
OutReturns == login = "out" /\ main = "process"
OutBreaks == login = "out" /\ main = "loop"

LEMMA LeavingStep ==
    ASSUME IInv, Leaving, [Next]_vars
    PROVE  /\ Leaving' \/ LeftWaits' \/ LeftRead' \/ Ended'
           /\ AnswerLogout => LeftWaits' \/ LeftRead'
<1>. USE DEF IInv, LogoutBeforeExit, LoggedInNow, FreedLate, Leaving, LeftWaits, LeftRead,
             Ended
<1>1. CASE AnswerLogout
  BY <1>1 DEF AnswerLogout
<1>2. CASE ProcessEvents \/ ProcessEventsReturns
  BY <1>2 DEF ProcessEvents, ProcessEventsReturns, UseInvalid, AnswerLogout
<1>3. CASE NotifyMainThread \/ Killed \/ SigintHandler
  BY <1>3 DEF NotifyMainThread, Killed, SigintHandler, AnswerLogout
<1>4. CASE UNCHANGED vars
  BY <1>4 DEF vars, AnswerLogout
<1>5. CASE NoSession \/ CreateSession \/ Login \/ LoopBreaks \/ AnswerLogin
  BY <1>5 DEF NoSession, CreateSession, Login, LoopBreaks, AnswerLogin
<1>6. CASE FreeAsync \/ FreeTimer \/ FreeSigint \/ FreeHttp \/ FreeState \/ LoopRunsDry
  BY <1>6 DEF FreeAsync, FreeTimer, FreeSigint, FreeHttp, FreeState, LoopRunsDry
<1>7. CASE LoggedIn \/ LoginRefused \/ LoggedOut
  BY <1>7 DEF LoggedIn, LoginRefused, LoggedOut
<1>. QED BY <1>1, <1>2, <1>3, <1>4, <1>5, <1>6, <1>7 DEF Next, MainStep

LEMMA LeftWaitsStep ==
    ASSUME IInv, TInv, LeftWaits, [Next]_vars
    PROVE  /\ LeftWaits' \/ LeftRead' \/ Ended'
           /\ MainStep => LeftRead' \/ Ended'
<1>. USE DEF IInv, LogoutBeforeExit, LoggedInNow, FreedLate, TInv, TimerSet, LeftWaits,
             LeftRead, Ended
<1>1. MainStep => ProcessEvents
  BY DEF MainStep, Login, LoopBreaks, LoopRunsDry, FreeAsync, FreeTimer, FreeSigint,
         FreeHttp, FreeState, ProcessEventsReturns, LoggedIn, LoginRefused, LoggedOut
<1>2. ProcessEvents => LeftRead' \/ Ended'
  BY DEF ProcessEvents, UseInvalid
<1>3. CASE NotifyMainThread \/ Killed \/ SigintHandler
  BY <1>1, <1>2, <1>3 DEF NotifyMainThread, Killed, SigintHandler
<1>4. CASE UNCHANGED vars
  BY <1>1, <1>2, <1>4 DEF vars
<1>5. CASE AnswerLogin \/ AnswerLogout \/ NoSession \/ CreateSession
  BY <1>5 DEF AnswerLogin, AnswerLogout, NoSession, CreateSession
<1>. QED BY <1>1, <1>2, <1>3, <1>4, <1>5 DEF Next

LEMMA LeftReadStep ==
    ASSUME IInv, LeftRead, [Next]_vars
    PROVE  /\ LeftRead' \/ OutReturns' \/ Ended'
           /\ MainStep => OutReturns' \/ Ended'
<1>. USE DEF IInv, FreedLate, LeftRead, OutReturns, Ended
<1>1. MainStep => LoggedOut
  BY DEF MainStep, Login, LoopBreaks, LoopRunsDry, FreeAsync, FreeTimer, FreeSigint,
         FreeHttp, FreeState, ProcessEvents, ProcessEventsReturns, LoggedIn, LoginRefused
<1>2. LoggedOut => OutReturns'
  BY DEF LoggedOut
<1>3. CASE NotifyMainThread \/ Killed
  BY <1>1, <1>2, <1>3 DEF NotifyMainThread, Killed
<1>4. CASE UNCHANGED vars
  BY <1>1, <1>2, <1>4 DEF vars
<1>5. CASE SigintHandler \/ AnswerLogin \/ AnswerLogout \/ NoSession \/ CreateSession
  BY <1>5 DEF SigintHandler, AnswerLogin, AnswerLogout, NoSession, CreateSession
<1>. QED BY <1>1, <1>2, <1>3, <1>4, <1>5 DEF Next

LEMMA OutReturnsStep ==
    ASSUME IInv, OutReturns, [Next]_vars
    PROVE  /\ OutReturns' \/ OutBreaks' \/ Ended'
           /\ MainStep => OutBreaks' \/ Ended'
<1>. USE DEF IInv, FreedLate, OutReturns, OutBreaks, Ended
<1>1. MainStep => ProcessEventsReturns
  BY DEF MainStep, Login, LoopBreaks, LoopRunsDry, FreeAsync, FreeTimer, FreeSigint,
         FreeHttp, FreeState, ProcessEvents, LoggedIn, LoginRefused, LoggedOut
<1>2. ProcessEventsReturns => OutBreaks'
  BY DEF ProcessEventsReturns
<1>3. CASE NotifyMainThread \/ Killed
  BY <1>1, <1>2, <1>3 DEF NotifyMainThread, Killed
<1>4. CASE UNCHANGED vars
  BY <1>1, <1>2, <1>4 DEF vars
<1>5. CASE SigintHandler \/ AnswerLogin \/ AnswerLogout \/ NoSession \/ CreateSession
  BY <1>5 DEF SigintHandler, AnswerLogin, AnswerLogout, NoSession, CreateSession
<1>. QED BY <1>1, <1>2, <1>3, <1>4, <1>5 DEF Next

LEMMA OutBreaksStep ==
    ASSUME IInv, TInv, OutBreaks, [Next]_vars
    PROVE  /\ OutBreaks' \/ At("free_async")' \/ Ended'
           /\ MainStep => At("free_async")' \/ Ended'
<1>. USE DEF IInv, FreedLate, TInv, LoopLate, OutBreaks, At, Ended
<1>1. MainStep => LoopBreaks
  BY DEF MainStep, Login, LoopRunsDry, FreeAsync, FreeTimer, FreeSigint, FreeHttp,
         FreeState, ProcessEvents, ProcessEventsReturns, LoggedIn, LoginRefused, LoggedOut
<1>2. LoopBreaks => At("free_async")'
  BY DEF LoopBreaks
<1>3. CASE NotifyMainThread \/ Killed
  BY <1>1, <1>2, <1>3 DEF NotifyMainThread, Killed
<1>4. CASE UNCHANGED vars
  BY <1>1, <1>2, <1>4 DEF vars
<1>5. CASE SigintHandler \/ AnswerLogin \/ AnswerLogout \/ NoSession \/ CreateSession
  BY <1>5 DEF SigintHandler, AnswerLogin, AnswerLogout, NoSession, CreateSession
<1>. QED BY <1>1, <1>2, <1>3, <1>4, <1>5 DEF Next

LEMMA FreeStep ==
    ASSUME NEW m, NEW n, <<m, n>> \in FreeOrder, At(m), [Next]_vars
    PROVE  /\ At(m)' \/ At(n)' \/ Ended'
           /\ MainStep => At(n)' \/ Ended'
<1>. USE DEF FreeOrder, At, Ended
<1>1. MainStep => FreeAsync \/ FreeTimer \/ FreeSigint \/ FreeHttp \/ FreeState
  BY DEF MainStep, Login, LoopBreaks, LoopRunsDry, ProcessEvents, ProcessEventsReturns,
         LoggedIn, LoginRefused, LoggedOut
<1>2. FreeAsync \/ FreeTimer \/ FreeSigint \/ FreeHttp \/ FreeState => At(n)' \/ Ended'
  BY DEF FreeAsync, FreeTimer, FreeSigint, FreeHttp, FreeState, UseInvalid
<1>3. CASE NotifyMainThread
  BY <1>1, <1>2, <1>3 DEF NotifyMainThread, UseInvalid
<1>4. CASE Killed
  BY <1>1, <1>2, <1>4 DEF Killed
<1>5. CASE UNCHANGED vars
  BY <1>1, <1>2, <1>5 DEF vars
<1>6. CASE SigintHandler \/ AnswerLogin \/ AnswerLogout \/ NoSession \/ CreateSession
  BY <1>1, <1>2, <1>6 DEF SigintHandler, AnswerLogin, AnswerLogout, NoSession, CreateSession
<1>. QED BY <1>1, <1>2, <1>3, <1>4, <1>5, <1>6 DEF Next

FreesNext(m, n) == At(m) ~> At(n) \/ Ended

LEMMA FreesOn ==
    ASSUME NEW m, NEW n, <<m, n>> \in FreeOrder
    PROVE  Spec /\ []LoopKeepsTurning => FreesNext(m, n)
<1>1. At(m) /\ [Next]_vars => At(m)' \/ At(n)' \/ Ended'
  BY FreeStep
<1>2. At(m) /\ <<MainStep>>_vars => At(n)' \/ Ended'
  BY FreeStep DEF Next
<1>3. LoopKeepsTurning /\ At(m) => ENABLED <<MainStep>>_vars
  <2>1. At(m) => main # "start" /\ ~Ended
    BY DEF At, FreeOrder, Ended
  <2>. QED BY <2>1 DEF LoopKeepsTurning
<1>. QED BY <1>1, <1>2, <1>3, PTL DEF Spec, SafeSpec, FreesNext

\* From the end of the loop to the end of main.
LEMMA AllIsFreed ==
    Spec /\ []LoopKeepsTurning => (At("free_async") ~> Ended)
<1>1. /\ Spec /\ []LoopKeepsTurning => FreesNext("free_async", "free_timer")
      /\ Spec /\ []LoopKeepsTurning => FreesNext("free_timer", "free_sigint")
      /\ Spec /\ []LoopKeepsTurning => FreesNext("free_sigint", "free_http")
      /\ Spec /\ []LoopKeepsTurning => FreesNext("free_http", "free_state")
      /\ Spec /\ []LoopKeepsTurning => FreesNext("free_state", "exited")
  BY FreesOn DEF FreeOrder
<1>2. At("exited") => Ended
  BY DEF At, Ended
<1>. QED BY <1>1, <1>2, PTL DEF FreesNext

\* From logged_out to the end of main.
LEMMA OutEnds ==
    Spec /\ []LoopKeepsTurning => (OutReturns \/ OutBreaks ~> Ended)
<1>1. IInv /\ OutReturns /\ [Next]_vars => OutReturns' \/ OutBreaks' \/ Ended'
  BY OutReturnsStep
<1>2. IInv /\ OutReturns /\ <<MainStep>>_vars => OutBreaks' \/ Ended'
  BY OutReturnsStep DEF Next
<1>3. IInv /\ TInv /\ OutBreaks /\ [Next]_vars
        => OutBreaks' \/ At("free_async")' \/ Ended'
  BY OutBreaksStep
<1>4. IInv /\ TInv /\ OutBreaks /\ <<MainStep>>_vars => At("free_async")' \/ Ended'
  BY OutBreaksStep DEF Next
<1>5. LoopKeepsTurning /\ (OutReturns \/ OutBreaks) => ENABLED <<MainStep>>_vars
  BY DEF LoopKeepsTurning, OutReturns, OutBreaks, Ended
<1>. QED BY <1>1, <1>2, <1>3, <1>4, <1>5, SafeTInv, AllIsFreed, PTL DEF Spec, SafeSpec

\* From the answer to the logout to the end of main.
LEMMA LeftEnds ==
    Spec /\ []LoopKeepsTurning => (LeftWaits \/ LeftRead ~> Ended)
<1>1. IInv /\ TInv /\ LeftWaits /\ [Next]_vars => LeftWaits' \/ LeftRead' \/ Ended'
  BY LeftWaitsStep
<1>2. IInv /\ TInv /\ LeftWaits /\ <<MainStep>>_vars => LeftRead' \/ Ended'
  BY LeftWaitsStep DEF Next
<1>3. IInv /\ LeftRead /\ [Next]_vars => LeftRead' \/ OutReturns' \/ Ended'
  BY LeftReadStep
<1>4. IInv /\ LeftRead /\ <<MainStep>>_vars => OutReturns' \/ Ended'
  BY LeftReadStep DEF Next
<1>5. LoopKeepsTurning /\ (LeftWaits \/ LeftRead) => ENABLED <<MainStep>>_vars
  BY DEF LoopKeepsTurning, LeftWaits, LeftRead, Ended
<1>. QED BY <1>1, <1>2, <1>3, <1>4, <1>5, SafeTInv, OutEnds, PTL DEF Spec, SafeSpec

\* When every step that is due can be taken (LoopKeepsTurning), sigint_handler brings
\* the server down: no callback, no event and no order of the two threads keeps it in
\* the loop.
THEOREM SigintEnds == Spec /\ []LoopKeepsTurning => LogoutEnds
<1>1. IInv /\ Leaving /\ [Next]_vars => Leaving' \/ LeftWaits' \/ LeftRead' \/ Ended'
  BY LeavingStep
<1>2. IInv /\ Leaving /\ <<AnswerLogout>>_vars => LeftWaits' \/ LeftRead'
  BY LeavingStep DEF Next
<1>3. LoopKeepsTurning /\ Leaving => ENABLED <<AnswerLogout>>_vars
  BY DEF LoopKeepsTurning, Leaving
<1>4. login = "leaving" => Leaving \/ Ended
  BY DEF Leaving
<1>. QED BY <1>1, <1>2, <1>3, <1>4, SafeTInv, LeftEnds, PTL
         DEF Spec, SafeSpec, LogoutEnds

\* The same for a server whose socket could not be bound: bind_webserver's logout
\* ends it, wherever main is when libspotify has logged out.
THEOREM UnreachableEnds == Spec /\ []LoopKeepsTurning => UnboundEnds
<1>1. IInv /\ TInv /\ http = "unbound"
        => \/ login = "leaving" \/ LeftWaits \/ LeftRead \/ OutReturns \/ OutBreaks
           \/ Ended \/ \E m \in Freeing : At(m)
  <2>. SUFFICES ASSUME IInv, TInv, http = "unbound",
                       ~(login = "leaving"), ~Ended, ~(\E m \in Freeing : At(m))
                PROVE  LeftWaits \/ LeftRead \/ OutReturns \/ OutBreaks
    OBVIOUS
  <2>1. login \in {"left", "out"}
    BY DEF TInv, SocketLate
  <2>2. main \in {"loop", "process"}
    BY <2>1 DEF IInv, LogoutBeforeExit, LoggedInNow, TInv, LoopLate, At, Ended
  <2>. QED BY <2>1, <2>2 DEF LeftWaits, LeftRead, OutReturns, OutBreaks
<1>2. (\E m \in Freeing : At(m))
        => \/ At("free_async") \/ At("free_timer") \/ At("free_sigint")
           \/ At("free_http") \/ At("free_state")
  BY DEF Freeing
<1>3. /\ Spec /\ []LoopKeepsTurning => FreesNext("free_timer", "free_sigint")
      /\ Spec /\ []LoopKeepsTurning => FreesNext("free_sigint", "free_http")
      /\ Spec /\ []LoopKeepsTurning => FreesNext("free_http", "free_state")
      /\ Spec /\ []LoopKeepsTurning => FreesNext("free_state", "exited")
  BY FreesOn DEF FreeOrder
<1>4. At("exited") => Ended
  BY DEF At, Ended
<1>5. Spec => SafeSpec
  BY PTL DEF Spec
<1>. QED BY <1>1, <1>2, <1>3, <1>4, <1>5, SafeTInv, AllIsFreed, OutEnds, LeftEnds,
            SigintEnds, PTL DEF FreesNext, LogoutEnds, UnboundEnds
-----------------------------------------------------------------------------
(* Jukebox and Webserver let libspotify's callbacks run in process_events   *)
(* again and again; here is why they may.                                   *)

\* A logged-in server comes back to process_events, until it has logged out or ended.
ServesOn == LoggedInNow ~> main = "process" \/ ~LoggedInNow \/ Ended

InLoop == LoggedInNow /\ main = "loop"

LEMMA InLoopStep ==
    ASSUME IInv, TInv, InLoop, [Next]_vars
    PROVE  /\ InLoop' \/ (main = "process")' \/ ~LoggedInNow' \/ Ended'
           /\ MainStep => (main = "process")' \/ Ended'
<1>. USE DEF IInv, LogoutBeforeExit, FreedLate, TInv, TimerSet, InLoop, LoggedInNow, Ended
<1>1. MainStep => ProcessEvents
  BY DEF MainStep, Login, LoopBreaks, LoopRunsDry, FreeAsync, FreeTimer, FreeSigint,
         FreeHttp, FreeState, ProcessEventsReturns, LoggedIn, LoginRefused, LoggedOut
<1>2. ProcessEvents => (main = "process")' \/ Ended'
  BY DEF ProcessEvents, UseInvalid
<1>3. CASE NotifyMainThread \/ Killed \/ SigintHandler
  BY <1>1, <1>2, <1>3 DEF NotifyMainThread, Killed, SigintHandler
<1>4. CASE UNCHANGED vars
  BY <1>1, <1>2, <1>4 DEF vars
<1>5. CASE AnswerLogin \/ AnswerLogout \/ NoSession \/ CreateSession
  BY <1>1, <1>2, <1>5 DEF AnswerLogin, AnswerLogout, NoSession, CreateSession
<1>. QED BY <1>1, <1>2, <1>3, <1>4, <1>5 DEF Next

\* When main can take the step that is due (LoopKeepsTurning), the timer alone, without
\* another notify_main_thread, brings a logged-in server back to process_events.
THEOREM LoopServes == Spec /\ []LoopKeepsTurning => ServesOn
<1>1. IInv /\ TInv /\ InLoop /\ [Next]_vars
        => InLoop' \/ (main = "process")' \/ ~LoggedInNow' \/ Ended'
  BY InLoopStep
<1>2. IInv /\ TInv /\ InLoop /\ <<MainStep>>_vars => (main = "process")' \/ Ended'
  BY InLoopStep DEF Next
<1>3. LoopKeepsTurning /\ InLoop => ENABLED <<MainStep>>_vars
  BY DEF LoopKeepsTurning, InLoop, Ended
<1>4. IInv /\ LoggedInNow => InLoop \/ main = "process"
  BY DEF IInv, LogoutBeforeExit, InLoop
<1>. QED BY <1>1, <1>2, <1>3, <1>4, SafeTInv, PTL DEF Spec, SafeSpec, ServesOn
===============================================================================
