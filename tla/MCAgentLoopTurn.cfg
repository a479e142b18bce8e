CONSTANTS
  Roles = {"lead", "explore"}
  Calls <- TurnCalls
  MaxBatch = 2
  MaxRounds = 2
  MaxRepeatedToolCalls = 2
  MaxExploreDelegations = 1
  MaxReadsAfterExplore = 1
  JudgeMaxRetryInjects = 2
  LessonThreshold = 1
  LessonRoundsLimit = 1
  TokenCheckInterval = 2
  PromptBudget = 3
  MaxEstimate = 2
SPECIFICATION FairSpec
INVARIANTS RequestsArePaired BudgetsHold
PROPERTIES SideEffectsArePlanned TurnsEnd
