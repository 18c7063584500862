SPECIFICATION FairSpec
CONSTANTS
  Forever <- MCForever
  N = 4
  Date <- MCDateCreate
  Ahead = {}
  Arrivals = {3, 4}
  Connectors <- MCPlain
  Wanted <- MCOpenScopes
  Accepts = {TRUE}
  Fulls = {TRUE, FALSE}
  MassAbsence = 20
  MaxChanges = 3
  MaxFaults = 1
INVARIANTS CreatedOnce
PROPERTIES Converges
CHECK_DEADLOCK FALSE
