SPECIFICATION PlanSpec
CONSTANTS
  lead = lead
  t1 = t1
  b1 = b1
  b2 = b2
  Agents = {lead}
  Lead = lead
  MaxTasks = 3
  Batches = {b1, b2}
  NoAgent = NoAgent
  NoBatch = NoBatch
  NoTask = NoTask
  IOFaults = FALSE
SYMMETRY BatchSymmetry
CHECK_DEADLOCK FALSE
INVARIANTS TypeOK PlanIsDag PlanNeverStuck
PROPERTY SealedBatchClosed
