CONSTANTS
  d1 = d1
  d2 = d2
  r1 = r1
  r2 = r2
  secret = secret
  Phones = {d1, d2}
  Requests = {r1, r2}
  Passwords = {secret}
  Nobody = Nobody
  NoPhone = NoPhone
  MaxFailures = 2
  MaxAttempts = 1
  MaxCodes = 2
  MaxTokens = 3
SYMMETRY Alike
SPECIFICATION Spec
INVARIANTS
  TypeOK
  CodesWorkOnce
  ExchangedOnce
PROPERTIES
  ImplementsSession
