SPECIFICATION Spec
CONSTANTS
  Main = main
  Mon = mon
  PauseKeys = {}
  SwapKeys = {}
  Conns = {}
  SetMayFail = FALSE
  OutsideChanges = FALSE
INVARIANT Converged
