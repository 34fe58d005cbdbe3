SPECIFICATION Spec
CONSTANTS
  Main = main
  Mon = mon
  PauseKeys = {pk}
  SwapKeys = {}
  Conns = {}
  SetMayFail = FALSE
  OutsideChanges = FALSE
PROPERTY PausedMeansUntouched
