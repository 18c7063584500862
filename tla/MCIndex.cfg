SPECIFICATION Spec
CONSTANTS
  Links <- MCLinks
  SortOf <- MCSort
  Worlds <- MCWorlds
  Colls <- MCColls
  Renames <- MCRenames
  Mails <- MCMails
  Bodies <- MCBodies
  NamedBy <- MCNamedBy
  ReplyOf <- MCReplyOf
  ListedReply <- MCListed
  StartOf <- MCStart
  Recurring <- MCRecurring
  Floating <- MCFloating
  UntilOf <- MCUntil
  Losable <- MCLosable
  Batch = 2
  Back = 1
  Ahead = 1
  MaxFaults = 1
INVARIANTS FoldedAgrees ThreadsAsRebuilt OccurrencesServed
PROPERTY PassCatchesUp
CHECK_DEADLOCK FALSE
