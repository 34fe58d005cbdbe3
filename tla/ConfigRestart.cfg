SPECIFICATION Spec
CONSTANTS
  Boot = boot
  Handlers = {h1}
  WritesMayFail = FALSE
  MayCrash = FALSE
INVARIANT RestartsAfterStop
