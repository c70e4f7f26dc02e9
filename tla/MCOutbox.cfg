CONSTANTS
  Accounts = {alice, bob}
  Payments = {p1, p2}
  None = None
SPECIFICATION FairSpec
INVARIANTS
  KeptIsNotLost
PROPERTIES
  TakenUpIsAnswered
  ImplementsDelivery
