\* Sessions are opened, begun and deleted between queries; the model refuses and fails as it likes.
SPECIFICATION ChatSpec
CONSTANTS
  MaxSessions = 2
  MaxQuestions = 2
  MaxRetries = 2
  MaxSwitches = 2
  MaxFaults = 0
  Patient = TRUE
INVARIANTS
  ViewMatchesStore
  AnswersFollowQuestions
  LastExchangeIsOnScreen
PROPERTIES
  FailedQueryKeepsTheRecord
  EveryQueryEnds
