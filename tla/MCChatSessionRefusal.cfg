\* A retry that is refused.
SPECIFICATION ChatSpec
CONSTANTS
  MaxSessions = 1
  MaxQuestions = 1
  MaxRetries = 1
  MaxSwitches = 0
  MaxFaults = 0
  Patient = FALSE
PROPERTY NoAnswerIsLostToARefusal
