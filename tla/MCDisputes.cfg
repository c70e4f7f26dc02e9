CONSTANTS
  People <- MCPeople
  Organizer = org
  org = org
  amaya = amaya
  bimal = bimal
  e0 = e0
  e1 = e1
  e2 = e2
  EntryLists <- MCEntryLists
  SubjectOf <- MCSubjectOf
  Disputes = {d1, d2}
  Officers = {o1}
  MaxViews = 2
  None = None
SPECIFICATION Spec
INVARIANTS
  SomebodyLeftToAsk
  EvidenceByConsent
PROPERTIES
  ImplementsConsent
SYMMETRY DisputeSymmetry
