SPECIFICATION Spec
CONSTANTS
  Pid = {l1, s1, g1, k1, k2}
  SetupPids = {l1}
  StopPids = {s1}
  ListPids = {}
  AgentPids = {g1}
  ChildPids = {k1, k2}
  Uid = {root}
  Root = root
  NoUid = NoUid
  NoPid = NoPid
  Base = {b}
  NoCgrp = NoCgrp
  SignalCap = 2
  Conn = {c1, c2, c3, c4}
  l1 = l1
  s1 = s1
  g1 = g1
  k1 = k1
  k2 = k2
  root = root
  h1 = h1
  b = b
  a = a
  c1 = c1
  c2 = c2
  c3 = c3
  c4 = c4
  NoConn = NoConn
  Identity <- MCIdentity
  NoIdentity = NoIdentity
  Handle = {h1}
  NoApp = NoApp
  App = {a}
  ExecBase <- MCExecBase
  MaxRestarts = 0
PROPERTIES
  StopCompletes
  DeadAppsForgotten
  ImplementsLifecycle
CHECK_DEADLOCK FALSE
