CONSTANTS
  o = o
  a = a
  b = b
  c = c
  s1 = s1
  s2 = s2
  None = None
  Users = {o, a, b, c}
  Organizer = o
  Seats = 4
  EntryIds = {e1}
  Leaving = {a}
  Consenting = {o, a}
  TurnRule = "lottery"
  Seeds = {s1, s2}
  Rank <- MCRank
SPECIFICATION Spec
SYMMETRY IdSymmetry
INVARIANTS
  TurnsWellFormed
  ClosedInOrder
  PotOnce
  CommunityConsentHonest
  LotteryHonoured
PROPERTIES
  ImplementsRotation
  PaymentsKeepRecipient
CHECK_DEADLOCK FALSE
