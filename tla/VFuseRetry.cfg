SPECIFICATION FuseSpec
CONSTANTS
    Handles = {h1}
    Threads = {w1}
    FileSize = 3
    Sizes = {1, 2}
    Faults = {"between"}
    Nil = Nil
INVARIANT ReadsAtOffset
CHECK_DEADLOCK FALSE
