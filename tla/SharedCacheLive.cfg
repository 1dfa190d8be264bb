SPECIFICATION FairSpec
CONSTANTS
  Threads = {t1, t2}
  k1 = k1
  k2 = k2
  twin = twin
  bad = bad
  Keys = {k1, bad}
  Nodes = {n1, n2}
  Objs = {o1, o2, o3}
  None = None
  Broken = {bad}
  Hash <- MCHash
  Seen <- MCSeen
  InitSize = 1
  RehashLimit = 1
  ReuseMax = 0
  UseMod = 2
  InitUse = 1
  HitUse = 1
PROPERTIES
  LockReleased
