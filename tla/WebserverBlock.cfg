\* A second search while one is under way.
CONSTANTS
    Request = {r1, r2}
    Query = {abba, blur, Empty}
    Empty = Empty
    NULL = NULL
SPECIFICATION SafeSpec
INVARIANT MainNeverBlocks
CHECK_DEADLOCK FALSE
