SPECIFICATION Spec
CONSTANTS
    inbox = inbox
    archive = archive
    msg = msg
    b1 = b1
    b2 = b2
    plain = plain
    starred = starred
    Collections = {inbox, archive}
    Declared = {inbox, archive}
    Messages = {inbox, archive}
    Checkpointed = {inbox}
    Links = {msg}
    MaxMint = 2
    Bodies = {b1, b2}
    NoBody = NoBody
    Flags = {plain, starred}
    NoItem = NoItem
    NoPlace = NoPlace
    NoAction = NoAction
    Drains = {h1}
    MaxRows = 2
    MaxAttempts = 2
    MaxStops = 0
    MaxSyncs = 1
    Requests <- SteadyRequests
    Malformed <- SteadyMalformed
    Changes = {}
    Deniable = {"intent"}
    InitItems <- SteadyItems
    SyncPlaces <- SteadyPlaces
PROPERTIES
    ServerDeletesKept
    Settles
