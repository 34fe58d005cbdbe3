SPECIFICATION Spec
CONSTANTS
  Procs = {agent, manual}
  Files = {f1, f2}
  None = None
INVARIANT SingleInstance
CHECK_DEADLOCK FALSE
