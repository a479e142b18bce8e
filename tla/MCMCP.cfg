SPECIFICATION FairSpec
CONSTANTS
  s1 = s1
  c1 = c1
  Servers = {s1}
  NoServer = NoServer
  Callers = {c1}
  MaxClients = 2
  MaxFails = 1
  MaxUnasked = 1
  Hangs = {"initialize", "list", "call", "ping"}
INVARIANTS PublishedTogether OwnAnswer NoOrphans
PROPERTIES AllReturn
