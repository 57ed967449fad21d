SPECIFICATION FairSpec
CONSTANTS
  MaxForeground = 2
  MaxBackground = 2
  MaxRequests = 5
INVARIANTS
  AnswersMatchRequests
  AssertionFollowsTokens
PROPERTIES
  AnswerSuspendsCleaned
  PreparesBeforeSuspending
