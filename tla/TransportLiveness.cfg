SPECIFICATION StrmSpec
CONSTANTS
  None = None
  p1 = p1
  p2 = p2
  p3 = p3
  p4 = p4
  p5 = p5
  Transports = {p1, p2, p3, p4}
  Fd = {1, 2, 3}
  Radix = 2
  HeaderLen = 2
  Message <- TwoLengths
  MaxConns = 1
  MaxSent <- ToClient
  SockBuf = 8
INVARIANTS
  StreamIntact
PROPERTIES
  Delivered
CHECK_DEADLOCK FALSE
