\* Sessions opened, begun and deleted while queries run, and failing statements.
SPECIFICATION ChatSpec
CONSTANTS
  MaxSessions = 2
  MaxQuestions = 2
  MaxRetries = 1
  MaxSwitches = 2
  MaxFaults = 1
  Patient = FALSE
INVARIANTS
  ChatTypeOK
  LiveRowIsLast
  RowsStayInTheirSession
PROPERTIES
  OnlyTheNewestAnswerChanges
