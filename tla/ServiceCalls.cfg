SPECIFICATION FairSpec
CONSTANTS
  Clients = {c1, c2}
  Combos <- MCCombos
  ChordOf <- MCChordOf
INVARIANTS
  TypeOK
  AnsweredOnce
  ShutdownIsHeard
  LetsGoInOrder
  HotkeysBestEffort
PROPERTIES
  ImplementsCalls
  StopsWhenAsked
  ServesOrLeaves
CHECK_DEADLOCK FALSE
