SPECIFICATION Spec
CONSTANTS
    inbox = inbox
    work = work
    agenda = agenda
    m1 = m1
    m2 = m2
    ev = ev
    imap = imap
    dav = dav
    b1 = b1
    b2 = b2
    Collections = {inbox, work, agenda}
    Declared = {inbox, work, agenda}
    Messages = {inbox, work}
    Calendars = {agenda}
    Checkpointed = {inbox, work, agenda}
    Links = {m1, m2, ev}
    MaxMint = 2
    Bodies = {b1, b2}
    NoBody = NoBody
    Flags <- FlagSets
    NoItem = NoItem
    NoPlace = NoPlace
    Sources = {imap, dav}
    SourceOf <- SourceOfEach
    Tasks = {b2}
    Scheduled = {}
    Online = {}
    Occurrences <- OccurrencesOf
    Wide = Wide
    NoSource = NoSource
    Requests <- Asked
    Declarations <- Later
    InitItems <- Held
    InitRows <- Both
    InitPerformer <- Recorded
    SyncPlaces <- Synchronised
    Scanned = {inbox, work}
    Rank <- LinkRank
    Limit = 1
    MaxAppends = 2
    MaxChanges = 1
    NoScan = NoScan
INVARIANTS
    ReadsAsDrained
    ScanComplete
PROPERTIES
    PushesSupported
    ChoiceHolds
CHECK_DEADLOCK FALSE
