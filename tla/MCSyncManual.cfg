SPECIFICATION Spec
CONSTANTS
    Flags = {flagged}
    Unknown = Unknown
    NoBase = NoBase
    NoItem = NoItem
    NoBinding = NoBinding
    Policy = "Manual"
    HubConflict = "Manual"
    Rights = {"flags", "content", "add", "remove"}
    BesideOthers = FALSE
    Sources = {srcA}
    Mutable = TRUE
    Links = {1}
    Keys <- MCKeys
    MaxHandle = 2
    MaxOps = 4
    MaxFaults = 2
    WriteChunk = 1
    PushChunk = 2
    ReportsRevision = TRUE
    ReadsFlags = TRUE
    ReadsBodies = FALSE
INVARIANTS
    NoLostEdit
    EditsOwePush
    CleanAgrees
    NeverRefused
PROPERTIES
    UpdatesOnlyRead
    AddsOnce
