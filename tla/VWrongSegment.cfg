SPECIFICATION Spec
CONSTANTS
    Requests = {r1}
    Segments = 3
    Catchup = 2
    Starts = {0, 2}
    Faults = {}
INVARIANT AskedIsServed
CHECK_DEADLOCK FALSE
