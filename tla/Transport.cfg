SPECIFICATION StrmSpec
CONSTANTS
  None = None
  p1 = p1
  p2 = p2
  p3 = p3
  p4 = p4
  p5 = p5
  Transports = {p1, p2, p3, p4, p5}
  Fd = {1, 2, 3}
  Radix = 2
  HeaderLen = 1
  Message <- ShortMessage
  MaxConns = 2
  MaxSent <- ToServer
  SockBuf = 8
SYMMETRY Alike
INVARIANTS
  NoDanglingTransport

  
CHECK_DEADLOCK FALSE
