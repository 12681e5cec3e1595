\* The pipeline, with a callback that calls handle again, decides on packets,
\* changes rules, trusts and vouches, or raises.
SPECIFICATION Spec
CONSTANTS
    NoTrust = NoTrust
    Never = Never
    read = read
    unlock = unlock
    sensor = sensor
    lamp = lamp
    v1 = v1
    v2 = v2
    p1 = p1
    p2 = p2
    Packets <- MCPackets
    PacketIds = {p1, p2}
    Kinds = {read, unlock}
    Rules <- MCRules
    Trusts = {0, 1, 2, 3, 4, 5, 6, 7, 8, 9, 10}
    Groen = 7
    Rood = 3
    MaxRules = 2
    Ids = {v1, v2}
    Dids = {sensor, lamp}
    Vouches <- MCVouches
    ReuseIds = FALSE
    MaxListed = 1
    MaxNow = 2
    Window = 1
    Skew = 1
    Unparseable = Unparseable
    Settings <- MCSettings
    HasCallback = TRUE
    CallbackMay = {"handle", "decide", "configure"}
    MaxResponses = 2
    MaxTrust = 10
INVARIANTS
    TypeOK
    HighestPriorityWins
    IndexExact
    TrustIsBest
    ZoneMatchesDecision
    DecidedOnce
    DecidedByHumanOnce
PROPERTIES
    TrustRisesByVouchOnly
    AcceptDeserved
