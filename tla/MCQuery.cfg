SPECIFICATION Spec
CONSTANTS
  Families <- QueryFamilies
  LengthMax = 16
  GroupsMax = 2
  TermsMax = 3
  Heads <- QueryHeads
  Letters = {"a", "-", "*"}
  Mails = {"@d", "a@d"}
  Folded <- QueryFolds
  Dated <- QueryDates
  Amounts <- QueryAmounts
  Numbers <- QueryNumbers
  AppRoles = {"x-r:"}
  World <- WorldHeld
  Collections <- CollectionsHeld
  Scopes <- ScopesClosed
  References <- Replies
  Now <- Clock
  Zone <- ZoneHere
  Horizon <- HorizonHere
  Lacks <- MayLack
  MaxLacks = 1
INVARIANTS RefusedWhereFaulty ReadsAsStated DatesAsNamed CompleteIsWhole
CHECK_DEADLOCK FALSE
