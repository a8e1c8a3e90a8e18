------------------------------ MODULE Lifecycle ------------------------------
(***************************************************************************)
(* From the start of the server to its end: main (main.c) sets up the      *)
(* events and the session and runs libevent's loop, process_events         *)
(* (ws-callbacks.c) lets libspotify call logged_in and logged_out          *)
(* (sp-callbacks.c, helper.c), SIGINT logs out, and main frees what is     *)
(* left.  Meanwhile libspotify's own thread calls notify_main_thread.      *)
(*                                                                         *)
(* Memory from malloc that nobody has written yet, and memory that has     *)
(* been freed, may look like anything: using it crashes the server or does *)
(* nothing.                                                                *)
(***************************************************************************)

VARIABLES
    main,    \* what the main thread does, or how the process has ended
    login,   \* libspotify: how far the login and the logout have come
    async,   \* state->async: runs process_events once when it is "active"
    timer,   \* state->timer: runs process_events when its time has come
    sigint,  \* state->sigint: "added" while the handler is in place
    session, \* state->session has been set
    http,    \* state->http, "unset" as malloc left it
    broken,  \* event_base_loopbreak was called
    touched  \* history: libspotify's thread has used an event that was freed

events == <<async, timer, sigint>>
vars == <<main, login, events, session, http, broken, touched>>

Init == /\ main = "start"
        /\ login = "none"
        /\ async = "idle"
        /\ timer = "idle"
        /\ sigint = "idle"
        /\ session = FALSE
        /\ http = "unset"
        /\ broken = FALSE
        /\ touched = FALSE

Ended == main \in {"exited", "crashed", "killed"}

\* Memory that is not valid is used: the next thing main does, or a crash.
UseInvalid(next) == main' = next \/ main' = "crashed"

-----------------------------------------------------------------------------
(* main. *)

\* No APR, no application key, or sp_session_create fails.
NoSession ==
    /\ main = "start"
    /\ main' = "free_async"
    /\ UNCHANGED <<login, events, session, http, broken, touched>>

\* From here on libspotify's thread may call back.
CreateSession ==
    /\ main = "start"
    /\ main' = "login"
    /\ login' = "created"
    /\ UNCHANGED <<events, session, http, broken, touched>>

\* sp_session_login or sp_session_relogin, audio_init, event_base_dispatch.
Login ==
    /\ main = "login"
    /\ main' = "loop"
    /\ login' = "pending"
    /\ UNCHANGED <<events, session, http, broken, touched>>

\* event_base_dispatch returns when the loop is broken ...
LoopBreaks ==
    /\ main = "loop" /\ broken
    /\ main' = "free_async"
    /\ UNCHANGED <<login, events, session, http, broken, touched>>

\* ... and when nothing is left that it could wait for.
LoopRunsDry ==
    /\ main = "loop" /\ ~broken
    /\ async # "active" /\ timer # "pending" /\ sigint # "added" /\ http # "bound"
    /\ main' = "free_async"
    /\ UNCHANGED <<login, events, session, http, broken, touched>>

FreeAsync ==
    /\ main = "free_async"
    /\ main' = "free_timer"
    /\ async' = "freed"
    /\ UNCHANGED <<login, timer, sigint, session, http, broken, touched>>

FreeTimer ==
    /\ main = "free_timer"
    /\ main' = "free_sigint"
    /\ timer' = "freed"
    /\ UNCHANGED <<login, async, sigint, session, http, broken, touched>>

FreeSigint ==
    /\ main = "free_sigint"
    /\ main' = "free_http"
    /\ sigint' = "freed"
    /\ UNCHANGED <<login, async, timer, session, http, broken, touched>>

FreeHttp ==
    /\ main = "free_http"
    /\ IF http = "unset" THEN UseInvalid("free_state") /\ UNCHANGED http
                         ELSE main' = "free_state" /\ http' = "freed"
    /\ UNCHANGED <<login, events, session, broken, touched>>

\* The event base and the state itself; then main returns.
FreeState ==
    /\ main = "free_state"
    /\ main' = "exited"
    /\ UNCHANGED <<login, events, session, http, broken, touched>>

-----------------------------------------------------------------------------
(* The handlers of the event loop. *)

\* The loop calls process_events for the async event or the timer.  It deletes
\* the timer and passes state->session to libspotify.
ProcessEvents ==
    /\ main = "loop" /\ ~broken
    /\ \/ async = "active" /\ async' = "idle"
       \/ timer = "pending" /\ UNCHANGED async
    /\ timer' = "idle"
    /\ IF session THEN main' = "process" ELSE UseInvalid("process")
    /\ UNCHANGED <<login, sigint, session, http, broken, touched>>

\* Bug: evtimer_add is forgotten.
Bug_NoTimer ==
    /\ main = "process"
    /\ login \notin {"accepted", "refused", "left"}
    /\ main' = "loop"
    /\ UNCHANGED <<login, events, session, http, broken, touched>>

\* process_events returns when libspotify has no callback left, and adds the timer.
ProcessEventsReturns ==
    /\ main = "process"
    /\ login \notin {"accepted", "refused", "left"}
    /\ main' = "loop"
    /\ timer' = "pending"
    /\ UNCHANGED <<login, async, sigint, session, http, broken, touched>>

\* sigint_handler: sp_session_logout, which does nothing a second time.
SigintHandler ==
    /\ main = "loop" /\ ~broken /\ sigint = "added"
    /\ login' = IF login = "in" THEN "leaving" ELSE login
    /\ UNCHANGED <<main, events, session, http, broken, touched>>

\* Without a handler SIGINT ends the process.
Killed ==
    /\ ~Ended
    /\ sigint # "added"
    /\ main' = "killed"
    /\ UNCHANGED <<login, events, session, http, broken, touched>>

-----------------------------------------------------------------------------
(* libspotify's callbacks inside process_events. *)

\* Bug: state->session is not set.
Bug_SessionForgotten ==
    /\ main = "process" /\ login = "accepted"
    /\ sigint' = "added"
    /\ \/ http' = "bound" /\ login' = "in"
       \/ http' = "unbound" /\ login' = "leaving"
    /\ UNCHANGED <<main, async, timer, session, broken, touched>>

\* Bug: no sp_session_logout when the socket cannot be bound.
Bug_UnboundServes ==
    /\ main = "process" /\ login = "accepted"
    /\ session' = TRUE
    /\ sigint' = "added"
    /\ http' \in {"bound", "unbound"}
    /\ login' = "in"
    /\ UNCHANGED <<main, async, timer, broken, touched>>

\* Bug: when the socket cannot be bound, logged_out is called as after a
\* refused login.
Bug_UnboundBreaks ==
    /\ main = "process" /\ login = "accepted"
    /\ session' = TRUE
    /\ \/ /\ http' = "bound"
          /\ login' = "in"
          /\ sigint' = "added"
          /\ UNCHANGED <<async, timer, broken>>
       \/ /\ http' = "unbound"
          /\ login' = "leaving"
          /\ async' = "idle" /\ timer' = "idle" /\ sigint' = "idle"
          /\ broken' = TRUE
    /\ UNCHANGED <<main, touched>>

\* logged_in: bind_webserver, which logs out when the socket cannot be bound;
\* load_playlist then runs in either case (module Jukebox).
LoggedIn ==
    /\ main = "process" /\ login = "accepted"
    /\ session' = TRUE
    /\ sigint' = "added"
    /\ \/ http' = "bound" /\ login' = "in"
       \/ http' = "unbound" /\ login' = "leaving"
    /\ UNCHANGED <<main, async, timer, broken, touched>>

\* What logged_out does to the events and the loop.
LogOut == /\ async' = "idle"
          /\ timer' = "idle"
          /\ sigint' = "idle"
          /\ broken' = TRUE

\* logged_in with an error: bind_webserver calls logged_out, and load_playlist
\* ends the process.
LoginRefused ==
    /\ main = "process" /\ login = "refused"
    /\ LogOut
    /\ main' = "exited"
    /\ login' = "failed"
    /\ UNCHANGED <<session, http, touched>>

\* Bug: event_base_loopbreak is forgotten.
Bug_NoLoopbreak ==
    /\ main = "process" /\ login = "left"
    /\ async' = "idle" /\ timer' = "idle" /\ sigint' = "idle"
    /\ login' = "out"
    /\ UNCHANGED <<main, session, http, broken, touched>>

LoggedOut ==
    /\ main = "process" /\ login = "left"
    /\ LogOut
    /\ login' = "out"
    /\ UNCHANGED <<main, session, http, touched>>

-----------------------------------------------------------------------------
(* libspotify's own thread. *)

\* notify_main_thread: event_active on state->async, whether or not main has
\* freed it.
NotifyMainThread ==
    /\ login # "none" /\ ~Ended
    /\ IF async = "freed"
       THEN touched' = TRUE /\ UseInvalid(main) /\ UNCHANGED async
       ELSE async' = "active" /\ UNCHANGED <<main, touched>>
    /\ UNCHANGED <<login, timer, sigint, session, http, broken>>

\* The service answers; the callback is called when main processes events.
AnswerLogin ==
    /\ login = "pending" /\ ~Ended
    /\ login' \in {"accepted", "refused"}
    /\ UNCHANGED <<main, events, session, http, broken, touched>>

AnswerLogout ==
    /\ login = "leaving" /\ ~Ended
    /\ login' = "left"
    /\ UNCHANGED <<main, events, session, http, broken, touched>>

-----------------------------------------------------------------------------
\* What the main thread goes on with by itself.
MainStep ==
    \/ Login \/ LoopBreaks \/ LoopRunsDry
    \/ FreeAsync \/ FreeTimer \/ FreeSigint \/ FreeHttp \/ FreeState
    \/ ProcessEvents \/ ProcessEventsReturns
    \/ LoggedIn \/ LoginRefused \/ LoggedOut

Next ==
    \/ NoSession \/ CreateSession \/ MainStep
    \/ SigintHandler \/ Killed
    \/ NotifyMainThread \/ AnswerLogin \/ AnswerLogout

SafeSpec == Init /\ [][Next]_vars

\* The main thread runs and the service answers.
Spec == /\ SafeSpec
        /\ WF_vars(MainStep)
        /\ WF_vars(AnswerLogin)
        /\ WF_vars(AnswerLogout)

-----------------------------------------------------------------------------
(* Properties. *)

Freeing == {"free_async", "free_timer", "free_sigint", "free_http", "free_state"}

\* The variables keep their types.
TypeOK ==
    /\ main \in {"start", "login", "loop", "process"} \cup Freeing
                \cup {"exited", "crashed", "killed"}
    /\ login \in {"none", "created", "pending", "accepted", "refused", "failed",
                  "in", "leaving", "left", "out"}
    /\ async \in {"idle", "active", "freed"}
    /\ timer \in {"idle", "pending", "freed"}
    /\ sigint \in {"idle", "added", "freed"}
    /\ session \in BOOLEAN
    /\ http \in {"unset", "bound", "unbound", "freed"}
    /\ broken \in BOOLEAN /\ touched \in BOOLEAN

LoggedInNow == login \in {"in", "leaving", "left"}

\* sp_session_logout: "Always call this before terminating the application and
\* libspotify is currently logged in".  Neither the end of the loop nor SIGINT
\* nor a failed bind takes the server down before libspotify has said good-bye.
LogoutBeforeExit ==
    LoggedInNow => main \in {"loop", "process"} /\ ~broken /\ sigint = "added"

\* A server that has logged in uses nothing that was not set: whatever crashes
\* it later is libspotify's thread meeting an event that was freed.
CrashOnlyEarly ==
    main = "crashed" =>
        touched \/ login \in {"none", "created", "pending", "accepted", "refused"}

\* Nothing that goes on by itself comes to a stop: from the login to the end of main
\* there is a step main can take, so the loop never waits with only the socket and the
\* handler of SIGINT left to wake it, and a login or logout that was asked for can be
\* answered.
LoopKeepsTurning ==
    /\ main # "start" /\ ~Ended => ENABLED <<MainStep>>_vars
    /\ login = "pending" /\ ~Ended => ENABLED <<AnswerLogin>>_vars
    /\ login = "leaving" /\ ~Ended => ENABLED <<AnswerLogout>>_vars

\* Once the loop has run process_events, the answer to the login is acted upon:
\* the timer keeps the loop alive although no other event has been added yet.
LoginIsAnswered ==
    main = "process" ~> \/ LoggedInNow \/ login \in {"failed", "out"}
                        \/ main \in {"crashed", "killed"}

\* SIGINT, once logged in, brings the server down.
LogoutEnds == login = "leaving" ~> Ended

\* A server that cannot be reached, for its socket could not be bound, goes
\* away, although the jukebox has gone on to load its playlist.
UnboundEnds == http = "unbound" ~> Ended
=============================================================================
