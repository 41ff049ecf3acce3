SPECIFICATION Spec
CONSTANTS
  k1 = k1
  k2 = k2
  k3 = k3
  Key = {k1, k2, k3}
  Object = {object}
  Nil = Nil
  Hash <- TwoBuckets
  PerChunk = 2
  Limit = 3
  ReplaceInLoop = FALSE
  ResetUsed = FALSE
  W = 2
  MaxBit = 5
  Chunks = {1, 2, 3}
  NPerChunk = 3
  B = 2
  LimitAsked = 7
  Prealloc = 2
  WideWords = 2
  Block = {b1, b2, b3}
  Site = {1, 2}
  MaxSize = 2
  Mod32 = 100
  o1 = o1
  o2 = o2
  o3 = o3
  Watch = {o1, o2, o3}
  Fd = {1}
  NoWatch = NoWatch
  Masks = {{"in"}, {"out"}, {"in", "rdhup"}}
  HupLimit = 1
  AddAfterHup = FALSE
  DestroyDead = FALSE
  Signal = {1, 2}
  Handler = {o1, o2, o3}
  NoHandler = NoHandler
  EvWatch = {o1, o2, o3}
  Bus = {bus}
  NullBus = NullBus
  NoEv = NoEv
  EventNames = {"n1"}
  MaxDepth = 2
  MaxQueue = 2
  DeleteNext = FALSE
  AddByMask = FALSE
  MaxDelay = 2
  Risks = {}
SYMMETRY Alike
INVARIANTS
  StoresConsistent
  VisitedOnce
  IoConsistent
  EventsServed
  SignalsHandled
  EventsDelivered
  HostPumps
PROPERTIES
  
  HostSleeps
CHECK_DEADLOCK FALSE
