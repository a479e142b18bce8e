SPECIFICATION Spec
CONSTANTS
  KeepRecent = 2
  MaxCalls = 2
  MaxSaid = 4
  MaxCheckpoints = 2
  Extras = {"nudge", "recall"}
  IOFaults = TRUE
INVARIANTS LogInOrder ContextPaired
