SPECIFICATION Spec
CONSTANTS
  Procs = {p1, p2}
  Names = {c1, c2, c3}
  Canons = {c1, c2}
  Origs = {o1}
  OrigOf <- SameMaster
  Stored <- KeysCut
  Png = {c2}
  FSize <- UnitSizes
  Files = {f1, f2}
  NoFile = NoFile
  NoIndex = NoIndex
  MaxCachesize = 0
  MaxNfiles = 1
  HystNum = 1
  HystDen = 1
  SizeMod = 4
  CountMod = 4
  MaxClock = 2
  MaxVer = 2
  MaxCalls = 1
  c3 = c3
  o1 = o1
SYMMETRY Symmetry
INVARIANTS RecordsNameTheirFiles BlocksMatchHolders HitIsUpToDate
PROPERTIES OnlyAddUnlinksBlocked StartCleansDirectory EvictionRight
