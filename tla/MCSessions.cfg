SPECIFICATION TalkSpec
CONSTANTS
  s1 = s1
  s2 = s2
  s3 = s3
  w1 = w1
  w2 = w2
  Ids = {s1, s2}
  NoId = NoId
  NoState = NoState
  Main = Main
  Workers = {w1, w2}
  Window = 1
  PerTurn = 2
  MaxTalk = 2
  MaxTitle = 1
SYMMETRY SessionSymmetry
INVARIANTS RunningIsActive IndexAgrees
PROPERTIES NoLostUpdate MarkedIsKept
