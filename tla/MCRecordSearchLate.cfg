CONSTANTS
  Query = {"q1", "q2", "q3"}
  Identity <- MCIdentity
  MaxListLen = 2
  RecordMax = 2
  SlipMax = 1
  Late = TRUE
SPECIFICATION Spec
INVARIANT OwnRecords
