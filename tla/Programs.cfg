SPECIFICATION Spec
CONSTANTS
  u0 = u0
  u1 = u1
  User = {u0, u1}
  Root = u0
  Common = Common
  Package = {pkg}
  Manifest = {x1, x2, x3}
  NoManifest = NoManifest
  MaxHold = 1
  CacheLimit = 2
  ResetWhileHeld = FALSE
  f1 = f1
  g1 = g1
  g2 = g2
  d1 = d1
  d2 = d2
  Path = {f1}
  Pattern = {g1, g2}
  Matches <- Globs
  DirOf <- SecondDir
  Apps <- OneOrTwo
  Shift = 8
  NoAnswer = NoAnswer
  p1 = p1
  p2 = p2
  p3 = p3
  p4 = p4
  Pkg = {p1, p2, p3, p4}
  Contents <- FourPackages
  DbFile <- FourFiles
  MaxFaults = 2
  Ids = {u0, u1}
  RootId = u0
  OwnGroups <- TheirGroups
  OtherGroups <- PrivilegeGroups
  c1 = c1
  c2 = c2
  n1 = n1
  n2 = n2
  n3 = n3
  Caller = {c1, c2}
  PathOf <- TwoPaths
SYMMETRY Symmetry
INVARIANTS
  ManifestsHeld
  
  FiletypeRight
  
  FailedUndone
  
  TermHonoured
PROPERTIES
  MkdirAllOrNothing
CHECK_DEADLOCK FALSE
