SPECIFICATION SharedSpec
CONSTANTS
  lead = lead
  t1 = t1
  b1 = b1
  b2 = b2
  Agents = {lead, t1}
  Lead = lead
  MaxTasks = 2
  Batches = {b1}
  NoAgent = NoAgent
  NoBatch = NoBatch
  NoTask = NoTask
  IOFaults = TRUE
CHECK_DEADLOCK FALSE
INVARIANT CacheBacked
PROPERTIES CreateNeverOverwrites ClaimExclusive ImplementsRegistry
