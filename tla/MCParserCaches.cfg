SPECIFICATION EitherSpec
SYMMETRY Symmetry
CONSTRAINT Bounded
CONSTANTS
  k1 = k1
  k2 = k2
  k3 = k3
  long = long
  Keys = {k1, k2, k3, long}
  Long = {long}
  ClassNames = {k1, long}
  Nodes = {n1, n2, n3}
  Objs = {o1, o2, o3}
  None = None
  Hash <- MCHash
  Seen <- MCSeen
  InitSize = 1
  RehashLimit = 1
  ReuseMax = 1
  UseMod = 4
  InitUse = 1
  HitUse = 2
  MaxCalls = 3
  MaxSets = 1
  Handlers <- MCHandlers
  KeyRoom = 2
  MaxNest = 4
INVARIANTS
    Consistent
    RightValues
    AsAsked
    ClosesNamed
