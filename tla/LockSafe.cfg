SPECIFICATION FairSpecAll
CONSTANTS
  Procs = {agent, manual}
  Managed = {agent}
  Files = {f1, f2}
  None = None
  Settings = {s1, s2}
  Torn = Torn
INVARIANTS
  TypeOK
  ConfigTypeOK
  SingleUnlessHandover
  SocketIsServed
  LoadedIsCurrent
PROPERTY
  KeptReachable
CHECK_DEADLOCK FALSE
