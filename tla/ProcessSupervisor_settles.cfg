SPECIFICATION FairSpec
CONSTANTS
  s1 = s1
  s2 = s2
  w1 = w1
  w2 = w2
  Spawn = {s1}
  Write = {w1, w2}
  Target <- ToFirst
  Piped = {s1}
  Forking = {s1}
  MaxChunks <- OneChunk
  MaxReloads = 1
PROPERTIES
  ChildrenSettle
CHECK_DEADLOCK FALSE
