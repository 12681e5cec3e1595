\* The node is started and stopped, by callers that may overlap and may be
\* cancelled.
SPECIFICATION FairSpec
CONSTANTS
    s1 = s1
    s2 = s2
    s3 = s3
    p1 = p1
    p2 = p2
    Starts = {s1, s2, s3}
    Stops = {p1, p2}
    None = None
CHECK_DEADLOCK FALSE
INVARIANTS
    TypeOK
    RunningIsUpUndisturbed
PROPERTIES
    StopStopsAll
    LoopsEnd
