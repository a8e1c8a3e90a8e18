\* Three requests of any kind, in any order with the callbacks, and answered in
\* the end under the fairness of libspotify and the loop.
CONSTANTS
    Request = {r1, r2, r3}
    Query = {abba, Empty}
    Empty = Empty
    NULL = NULL
SPECIFICATION Spec
INVARIANTS
    MutexMatchesPending
    NothingForgotten
    AnswersAreDue
PROPERTIES
    ImplementsExchange
    AnswersCome
CHECK_DEADLOCK FALSE
