SPECIFICATION Spec
CONSTANTS
    inbox = inbox
    archive = archive
    msg = msg
    b1 = b1
    b2 = b2
    plain = plain
    starred = starred
    Collections = {inbox}
    Declared = {inbox}
    Messages = {inbox}
    Checkpointed = {inbox}
    Links = {msg}
    MaxMint = 2
    Bodies = {b1, b2}
    NoBody = NoBody
    Flags = {plain}
    NoItem = NoItem
    NoPlace = NoPlace
    NoAction = NoAction
    Drains = {h1, h2}
    MaxRows = 2
    MaxAttempts = 2
    MaxStops = 1
    MaxSyncs = 0
    Requests <- RacingRequests
    Malformed <- RacingMalformed
    Changes <- RacingChanges
    Deniable = {}
    InitItems <- RacingItems
    SyncPlaces = {}
SYMMETRY DrainSymmetry
INVARIANTS
    OneFate
    PinsCount
PROPERTIES
    OvertakesOnlyTried
    StatusPromise
