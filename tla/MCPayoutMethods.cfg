CONSTANTS
  Methods = {m1, m2, m3}
  Circles = {c1}
  Requests = {r1, r2}
  MaxMethods = 2
  None = None
SPECIFICATION Spec
SYMMETRY MemberSymmetry
INVARIANTS
  OneDefault
