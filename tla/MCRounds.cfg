SPECIFICATION Spec
CONSTANTS
  Forever <- MCForever
  N = 3
  Date <- MCDateUndated
  Ahead = {}
  Arrivals = {}
  Connectors <- MCVaried
  Wanted <- MCOpenScopes
  Accepts = {TRUE, FALSE}
  Fulls = {FALSE}
  MassAbsence = 2
  MaxChanges = 3
  MaxFaults = 1
INVARIANTS CoverageServed AbsenceProven
CHECK_DEADLOCK FALSE
