CONSTANTS
  o = o
  a = a
  b = b
  c = c
  s1 = s1
  s2 = s2
  None = None
  Users = {o, a, b, c}
  Organizer = o
  Seats = 3
  EntryIds = {e1, e2, e3}
  Leaving = {}
  Consenting = {}
  TurnRule = "fixed"
  Seeds = {}
  Rank <- NoRank
SPECIFICATION Spec
SYMMETRY FixedOrderSymmetry
INVARIANTS
  PayoutBacked
  EveryoneAccounted
  OneRecordEach
  RemovalAccounted
  InboxComplete
CHECK_DEADLOCK FALSE
