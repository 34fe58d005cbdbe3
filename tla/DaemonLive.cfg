SPECIFICATION FairSpec
CONSTANTS
  Main = main
  Mon = mon
  PauseKeys = {}
  SwapKeys = {}
  Conns = {c1}
  SetMayFail = TRUE
  OutsideChanges = FALSE
PROPERTIES
  ChangesPickedUp
  Settles
  ImplementsIntent
