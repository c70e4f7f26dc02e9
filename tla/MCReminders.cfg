CONSTANTS
  Members = {a}
  Due <- TwoCycles
  LastDay = 1
  DaysBefore = {0}
  Runs = {r1, r2}
  Nudges = {n1}
  MaxStops = 1
  None = None
SPECIFICATION FairSpec
INVARIANTS
  RemindedOnce
  StopsLoseOneEach
PROPERTIES
  OverdueIsTold
