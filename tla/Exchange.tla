------------------------------ MODULE Exchange -------------------------------
(***************************************************************************)
(* What the web server promises its browsers.  A browser asks once on each *)
(* request; the server replies at once or later, to one request or to all  *)
(* that wait for the same thing, never twice, and only with what was asked *)
(* for.  The reply reaches the browser unless its connection is gone by    *)
(* then.  There are no mutexes, callbacks or globals here, and no promise  *)
(* that a reply comes.                                                     *)
(***************************************************************************)
EXTENDS Integers

CONSTANTS Request,  \* requests
          Query,    \* what a browser searches for
          Source,   \* the playlists and containers that can be asked for
          NULL      \* no kind, no query, no answer

VARIABLES kind,     \* what each request asks for, NULL before it arrives
          query,    \* the query of each search request
          replies,  \* how often each request was replied to
          answer,   \* what its browser has received
          lost      \* requests whose connection is gone

evars == <<kind, query, replies, answer, lost>>

EInit == /\ kind = [r \in Request |-> NULL]
         /\ query = [r \in Request |-> NULL]
         /\ replies = [r \in Request |-> 0]
         /\ answer = [r \in Request |-> NULL]
         /\ lost = {}

\* The answers to a request of kind k with the query s; an unknown one and one that
\* stops the server have none.
Right(k, s) ==
    CASE k = "search"                   -> {s}
      [] k \in Source                   -> {k}
      [] k \in {"edit", "inbox", "bad"} -> {"done", "error"}
      [] OTHER                          -> {}

Reply(rs, a) ==
    /\ \A r \in rs : kind'[r] # NULL /\ replies[r] = 0 /\ a \in Right(kind'[r], query'[r])
    /\ replies' = [r \in Request |-> IF r \in rs THEN 1 ELSE replies[r]]
    /\ answer' = [r \in Request |-> IF r \in rs \ lost THEN a ELSE answer[r]]

\* A request arrives, and may be answered at once.
Ask(r) ==
    /\ kind[r] = NULL
    /\ \E k \in {"search", "edit", "fatal", "inbox", "bad", "unknown"} \cup Source :
         /\ kind' = [kind EXCEPT ![r] = k]
         /\ IF k = "search" THEN \E s \in Query : query' = [query EXCEPT ![r] = s]
                            ELSE UNCHANGED query
    /\ \/ UNCHANGED <<replies, answer>>
       \/ \E a \in Right(kind'[r], query'[r]) : Reply({r}, a)
    /\ UNCHANGED lost

\* Requests that wait for the same thing are answered.
Answer(rs) ==
    /\ UNCHANGED <<kind, query, lost>>
    /\ \E r \in rs : \E a \in Right(kind[r], query[r]) : Reply(rs, a)

Close(r) ==
    /\ kind[r] # NULL
    /\ lost' = lost \cup {r}
    /\ UNCHANGED <<kind, query, replies, answer>>

ENext == \/ \E r \in Request : Ask(r) \/ Close(r)
         \/ \E rs \in SUBSET Request : Answer(rs)

ESpec == EInit /\ [][ENext]_evars
=============================================================================
