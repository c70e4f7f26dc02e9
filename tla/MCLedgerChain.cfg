CONSTANTS
  Writers = {w1, w2}
  Issuers = {i1}
  MaxSeq = 7
  None = None
SPECIFICATION Spec
SYMMETRY WriterSymmetry
INVARIANTS
  ChainIntact
  StatementsVerify
PROPERTIES
  AppendsAtTheHead
  LedgerStandsStill
