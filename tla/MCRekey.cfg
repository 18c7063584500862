SPECIFICATION RekeySpec
CONSTANTS
    Flags = {}
    Unknown = Unknown
    NoBase = NoBase
    NoItem = NoItem
    NoBinding = NoBinding
    Policy = "Manual"
    HubConflict = "Manual"
    Rights = {"flags", "content", "add", "remove"}
    BesideOthers = FALSE
    Sources = {srcA}
    Mutable = TRUE
    Links = {1}
    Keys <- MCKeys
    MaxHandle = 2
    MaxOps = 2
    MaxFaults = 1
    WriteChunk = 4
    PushChunk = 2
    ReportsRevision = TRUE
    ReadsFlags = TRUE
    ReadsBodies = FALSE
    MassAbsence = 20
    PageSize = 1
    Revisions <- MCRevisions
    Renumbers = 2
INVARIANTS
    RebuildTaken
PROPERTIES
    EditsKept
    PendingCarried
CHECK_DEADLOCK FALSE
