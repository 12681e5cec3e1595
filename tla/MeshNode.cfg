\* A relay between two devices, with a cache for two packets.
SPECIFICATION Spec
CONSTANTS
    a = a
    b = b
    m1 = m1
    m2 = m2
    m3 = m3
    u1 = u1
    u2 = u2
    near = near
    far = far
    PacketIds = {m1, m2, m3, u1, u2}
    MaxHops = 1
    CacheSize = 2
    Self = Self
    Dids <- TwoPeers
    Addresses = {near, far}
    NoAddress = NoAddress
    Timeout = 1
    Window = 1
    Skew = 1
    Unparseable = Unparseable
    Broadcast = Broadcast
    Packets <- ThreeRelayed
    Datagrams <- TwoPaths
    Rejected = {u2}
    Unsendable = {m3}
    MaxHandlers = 2
    MaxDatagrams = 4
    MaxClock = 2
INVARIANTS
    TypeOK
    CacheBounded
    NoLoopWithinCache
    LookupsAgree
    AnsweredOnce
PROPERTIES
    RelayedWhereHeard
CHECK_DEADLOCK FALSE
