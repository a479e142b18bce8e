SPECIFICATION AliveSpec
CONSTANTS
  KeepRecent = 2
  MaxCalls = 1
  MaxSaid = 6
  MaxCheckpoints = 2
  Extras = {}
  IOFaults = FALSE
CHECK_DEADLOCK FALSE
INVARIANT TailRecoverable
