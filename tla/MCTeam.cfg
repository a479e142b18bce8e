SPECIFICATION FairSpec
CONSTANTS
  l1 = l1
  l2 = l2
  h1 = h1
  a = a
  Names = {a}
  Lead = Lead
  Nobody = Nobody
  Loops = {l1, l2}
  Handlers = {h1}
  MaxRounds = 1
  MaxPolls = 2
  MaxInbox = 1
CHECK_DEADLOCK FALSE
INVARIANTS WorktreeUnderLoop NoJobLeft ListedIsLive
PROPERTY CloseCompletes
