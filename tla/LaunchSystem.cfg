SPECIFICATION Spec
CONSTANTS
  Pid = {l1, l2, s1, g1, g2, k1}
  SetupPids = {l1, l2}
  StopPids = {s1}
  ListPids = {}
  AgentPids = {g1, g2}
  ChildPids = {k1}
  Uid = {root}
  Root = root
  NoUid = NoUid
  NoPid = NoPid
  Base = {b}
  NoCgrp = NoCgrp
  SignalCap = 1
  Conn = {c1, c2, c3, c4}
  l1 = l1
  l2 = l2
  s1 = s1
  g1 = g1
  g2 = g2
  k1 = k1
  root = root
  h1 = h1
  h2 = h2
  b = b
  a = a
  c1 = c1
  c2 = c2
  c3 = c3
  c4 = c4
  NoConn = NoConn
  Identity <- MCIdentity
  NoIdentity = NoIdentity
  Handle = {h1, h2}
  NoApp = NoApp
  App = {a}
  ExecBase <- MCExecBase
  MaxRestarts = 0
SYMMETRY MCSymmetry
INVARIANTS
  KillTimers
  NoAppLost
  ReleaseNotLost
  RequestOrReply
  StoppedAfterSignalled
CHECK_DEADLOCK FALSE
