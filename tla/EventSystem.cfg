SPECIFICATION Spec
CONSTANTS
  a1 = a1
  a2 = a2
  Ctx = {a1, a2}
  c1 = c1
  c2 = c2
  Conn = {c1, c2}
  NoConn = NoConn
  e1 = e1
  e2 = e2
  stopped = stopped
  Event = {stopped, e1, e2}
  StoppedEvent = stopped
  MaxEvents = 2
  ShiftedBit = 0
  Identity <- MCIdentity
  NoIdentity = NoIdentity
  Ident <- MCIdent
  Senders <- MCSenders
  Target <- MCTarget
  Sent <- MCSent
  NoLabel = NoLabel
  NoUid = NoUid
  NoPid = NoPid
  Subscribed <- MCSubscribed
  MaxSeq = 2
  MaxRestarts = 1
INVARIANTS
  PendingInOrder
  CallbacksInOrder
  OnlyAskedFor
  OwedInFlight
CHECK_DEADLOCK FALSE
