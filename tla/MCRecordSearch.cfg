CONSTANTS
  Query = {"q1", "q2", "q3"}
  Identity <- MCIdentity
  MaxListLen = 2
  RecordMax = 3
  SlipMax = 2
  Late = FALSE
SPECIFICATION FairSpec
INVARIANTS TypeOK OwnRecords NoFault AnswerComplete
PROPERTY ServiceSpec
PROPERTY Answered
