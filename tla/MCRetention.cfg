SPECIFICATION MCSpec
CONSTANTS
    inbox = inbox
    archive = archive
    cal = cal
    att = att
    attB = attB
    m = m
    m2 = m2
    e = e
    e2 = e2
    f = f
    s1 = s1
    s2 = s2
    b = b
    t1 = t1
    t2 = t2
    t3 = t3
    NoBody = NoBody
    NoClash = NoClash
    NoBase = NoBase
    NoBinding = NoBinding
    NoRow = NoRow
    NoColl = NoColl
    NoTarget = NoTarget
    NoVerb = NoVerb
    Collections <- MCCollections
    KindOf <- MCKindOf
    Links <- MCLinks
    LinkKind <- MCLinkKind
    Bare <- MCBare
    Sources <- MCSources
    Bodies <- MCBodies
    ServerBody <- MCServerBody
    TaskBodies <- MCTaskBodies
    Carrying <- MCCarrying
    Mid <- MCMid
    Old <- MCOld
    Ids <- MCIds
    HomeId <- MCHomeId
    Accounts <- MCAccounts
    HomeAccount <- MCHomeAccount
    AttachmentsId <- MCAttachmentsId
    InitColls <- MCInitColls
    InitSources <- MCInitSources
    MaxWrites = 3
    MaxCare = 1
    MaxFiling = 1
    MaxRows = 1
INVARIANTS
    RefcountsExact
    OwedKept
    TargetsFollow
    AttachmentsNamed
SYMMETRY MCSymmetry
CHECK_DEADLOCK FALSE
