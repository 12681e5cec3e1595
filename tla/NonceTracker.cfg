\* Two threads, which may overlap or not, a reused nonce and a real clock that
\* is set forward.
SPECIFICATION Spec
CONSTANTS
    n1 = n1
    n2 = n2
    n3 = n3
    Idle = Idle
    Unparseable = Unparseable
    Threads = {t1, t2}
    t1 = t1
    t2 = t2
    Packets <- ReusedNonce
    Window = 1
    Skew = 1
    Adjustments <- Forward
    MaxTime = 4
    MaxOffset = 1
SYMMETRY ThreadSymmetry
INVARIANTS
    TypeOK
    NoReplayUnlessOverlapped
    AtMostOnce
    SeenSpan
    ForgottenOnlyAfterWindow
