SPECIFICATION MemorySpec
CONSTANTS
  t1 = t1
  t2 = t2
  Texts = {t1, t2}
  NoText = NoText
  fact = fact
  session = session
  Categories = {fact, session}
  Sim <- MCSim
  Threshold = 1
  Blank = Blank
  Torn = Torn
  MaxDay = 2
  TTL = 1
  MaxLines = 2
SYMMETRY MemorySymmetry
INVARIANT CacheMatchesFiles
PROPERTIES AtMostOneLost ImplementsNotebook
