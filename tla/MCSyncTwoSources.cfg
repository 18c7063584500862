SPECIFICATION FairSpec
CONSTANTS
    Flags = {flagged}
    Unknown = Unknown
    NoBase = NoBase
    NoItem = NoItem
    NoBinding = NoBinding
    Policy = "PreferLocal"
    HubConflict = "PreferIncoming"
    Rights = {"flags", "content", "add", "remove"}
    BesideOthers = TRUE
    Sources = {srcA, srcB}
    Mutable = TRUE
    Links = {1}
    Keys <- MCKeys
    MaxHandle = 2
    MaxOps = 3
    MaxFaults = 1
    WriteChunk = 4
    PushChunk = 2
    ReportsRevision = TRUE
    ReadsFlags = TRUE
    ReadsBodies = TRUE
INVARIANTS
    NoLostEdit
PROPERTIES
    Converges
