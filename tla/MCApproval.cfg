SPECIFICATION AskingSpec
CONSTANTS
  lead = lead
  mate = mate
  editTwo = editTwo
  overwrite = overwrite
  remove = remove
  shell = shell
  remote = remote
  e1 = e1
  e2 = e2
  e3 = e3
  Callers = {lead, mate}
  Lead = lead
  Calls = {editTwo, overwrite, remove, shell, remote}
  Tool <- MCTool
  Menu <- MCMenu
  Caps <- MCCaps
  RuleSets <- MCRuleSets
  Modes = {"safe-auto", "auto-approve", "auto-reject"}
  Edits = {e1, e2, e3}
  NoFile = NoFile
  Nobody = Nobody
  IsTTY = TRUE
  NonTTYFallback = "reject"
  MaxCalls = 1
  MaxCommands = 1
INVARIANTS ConsentHolds AnswersMatch HoldersAreAsking
PROPERTIES WritesAsReviewed CallsReturn
