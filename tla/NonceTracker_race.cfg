\* Two threads: a clock reading that is stale when the lock is taken.
SPECIFICATION Spec
CONSTANTS
    n1 = n1
    n2 = n2
    n3 = n3
    Idle = Idle
    Unparseable = Unparseable
    Threads = {t1, t2}
    t2 = t2
    t1 = t1
    Packets <- TwoPackets
    Window = 2
    Skew = 1
    Adjustments <- NoAdjustment
    MaxTime = 5
    MaxOffset = 1
INVARIANTS
    NoReplayWithinWindow
