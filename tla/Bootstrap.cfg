SPECIFICATION FairSpec
CONSTANTS
    Error = Error
    MaxPayload = 2
    hub = hub
    dev = dev
    Hub = hub
    Devices = {dev}
    Capabilities = {"temp"}
    NotASet = NotASet
    DeviceTypes = {"generic", "sensor"}
    RuleLists <- MCRuleLists
    Foreign <- MCForeign
    HubCodec <- MCHubCodec
    Callbacks = 1
    MaxAge = 1
    Offsets <- MCOffsets
    MaxNow = 1
    MaxSent = 1
    MaxBeacons = 2
    MaxAnswers = 2
INVARIANTS
    TypeOK
    ReadAsSent
    VouchedOrEscalated
    RejectedForGood
    VouchedAsAnnounced
PROPERTIES
    CallbacksCalled
CHECK_DEADLOCK FALSE
