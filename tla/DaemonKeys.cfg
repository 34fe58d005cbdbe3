SPECIFICATION Spec
CONSTANTS
  Main = main
  Mon = mon
  PauseKeys = {pk}
  SwapKeys = {sk}
  Conns = {}
  SetMayFail = TRUE
  OutsideChanges = TRUE
INVARIANTS
  TypeOK
  NoLostTrigger
  AgreedApplyHeals
  ResumeSeesDevice
PROPERTY
  PauseAdmitsNoWriter
