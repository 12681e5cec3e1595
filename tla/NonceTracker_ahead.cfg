\* A sender whose clock is ahead by less than the skew.
SPECIFICATION Spec
CONSTANTS
    n1 = n1
    n2 = n2
    n3 = n3
    Idle = Idle
    Unparseable = Unparseable
    Threads = {t1}
    t1 = t1
    Packets <- AheadPacket
    Window = 2
    Skew = 1
    Adjustments <- NoAdjustment
    MaxTime = 8
    MaxOffset = 1
INVARIANTS
    SamePacketOnce
