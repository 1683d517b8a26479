\* One session is opened while a query runs, then a retry.
SPECIFICATION ChatSpec
CONSTANTS
  MaxSessions = 1
  MaxQuestions = 2
  MaxRetries = 1
  MaxSwitches = 1
  MaxFaults = 0
  Patient = FALSE
INVARIANT AnswersFollowQuestions
