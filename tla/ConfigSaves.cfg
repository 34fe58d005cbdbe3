SPECIFICATION Spec
CONSTANTS
  Boot = boot
  Handlers = {h1, h2}
  WritesMayFail = TRUE
  MayCrash = TRUE
INVARIANTS
  TypeOK
  SoloSaveHeals
  ClientsCanLoad
PROPERTIES
  RestartKeepsTargets
  TwinsHaveCause
SYMMETRY HandlerSymmetry
CHECK_DEADLOCK FALSE
