\* Two questions in one session.
SPECIFICATION ChatSpec
CONSTANTS
  MaxSessions = 1
  MaxQuestions = 2
  MaxRetries = 0
  MaxSwitches = 0
  MaxFaults = 0
  Patient = FALSE
PROPERTY RouterKnowsThePreviousAnswer
