CONSTANTS
  People = {a, b}
  None = None
SPECIFICATION FairSpec
PROPERTIES
  PalsByConsent
  BlockEndsPals
  RequestsEnd
CHECK_DEADLOCK FALSE
