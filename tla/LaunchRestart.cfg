SPECIFICATION Spec
CONSTANTS
  Pid = {l1, s1, s2}
  SetupPids = {l1}
  StopPids = {s1, s2}
  ListPids = {s2}
  AgentPids = {s2}
  ChildPids = {}
  Uid = {root, u}
  Root = root
  NoUid = NoUid
  NoPid = NoPid
  Base = {b}
  NoCgrp = NoCgrp
  SignalCap = 1
  Conn = {c1, c2, c3}
  l1 = l1
  s1 = s1
  s2 = s2
  root = root
  u = u
  h1 = h1
  b = b
  a = a
  c1 = c1
  c2 = c2
  c3 = c3
  NoConn = NoConn
  Identity <- MCIdentity
  NoIdentity = NoIdentity
  Handle = {h1}
  NoApp = NoApp
  App = {a}
  ExecBase <- MCExecBase
  MaxRestarts = 1
INVARIANTS
  StopByOwner
CHECK_DEADLOCK FALSE
