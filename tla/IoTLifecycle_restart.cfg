\* The node is started while a stop waits for its loops.
SPECIFICATION Spec
CONSTANTS
    s1 = s1
    s2 = s2
    s3 = s3
    p1 = p1
    p2 = p2
    Starts = {s1, s2}
    Stops = {p1, p2}
    None = None
CHECK_DEADLOCK FALSE
INVARIANT
    RunningIsUp
