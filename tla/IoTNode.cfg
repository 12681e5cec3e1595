\* Three nodes, one of them a relay: the send of i1 may fail and its caller give
\* up, the sensor stops and starts; every call ends.
SPECIFICATION FairSpec
CONSTANTS
    hub = hub
    sensor = sensor
    relay = relay
    i1 = i1
    i2 = i2
    Nodes = {hub, sensor, relay}
    Pings = {i1, i2}
    Source <- TheSource
    Target <- TheTarget
    FirstHop <- TheHop
    Mesh = {i1}
    Broadcast = Broadcast
    Neighbours <- TheNeighbours
    Heartbeats <- TheHeartbeats
    Admits <- TheAdmits
    Ahead = {i1}
    MaxHops = 1
    MayFail = {i1}
    MayStop = {sensor}
    NoAddress = NoAddress
INVARIANTS
    TypeOK
    WaitingIsRegistered
    EntriesBelongToCalls
PROPERTIES
    ImplementsService
    CallsEnd
