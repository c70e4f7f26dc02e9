CONSTANTS
  a = a
  b = b
  m1 = m1
  m2 = m2
  People = {a, b}
  Messages = {m1, m2}
  SenderOf <- MCSenderOf
  Tries <- MCTries
  PageSize = 2
  Watching = {a}
  NoPage = NoPage
SPECIFICATION FairSpec
INVARIANTS
  TypeOK
PROPERTIES
  ScreensCatchUp
  TakenBackGoes
