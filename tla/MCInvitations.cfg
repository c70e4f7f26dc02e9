CONSTANTS
  Pals = {a, b, c}
  Changing = {a}
  Seats = 3
  Invitations = {i1, i2, i3}
  Accepting = {r1, r2}
  MaxJoins = 2
  None = None
SPECIFICATION FairSpec
INVARIANTS
  InvitationUsedOnce
  NoStrayInvitation
PROPERTIES
  RequestsEnd
  ImplementsGathering
