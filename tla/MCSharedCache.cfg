SPECIFICATION Spec
CONSTANTS
  Threads = {t1, t2}
  k1 = k1
  k2 = k2
  twin = twin
  bad = bad
  Keys = {k1, k2, twin, bad}
  Nodes = {n1, n2, n3}
  Objs = {o1, o2, o3, o4}
  None = None
  Broken = {bad}
  Hash <- MCHash
  Seen <- MCSeen
  InitSize = 1
  RehashLimit = 1
  ReuseMax = 1
  UseMod = 3
  InitUse = 1
  HitUse = 1
SYMMETRY Symmetry
INVARIANTS
    Bookkeeping
    OneOwner
    Findable
    Handed
PROPERTIES
    KeepsPromise
