\* The whole life of one server; the module has no constants to bound.
SPECIFICATION Spec
INVARIANTS
    LogoutBeforeExit
    CrashOnlyEarly
    LoopKeepsTurning
PROPERTIES
    LoginIsAnswered
    LogoutEnds
    UnboundEnds
CHECK_DEADLOCK FALSE
