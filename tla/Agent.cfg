SPECIFICATION FairSpec
CONSTANTS
  Commands = {c1, c2}
  Builds = {old, new}
  Absent = Absent
  Torn = Torn
  None = None
INVARIANTS
  TypeOK
  StoppedForGood
  SecondInstallWorks
PROPERTIES
  OrphansHaveCause
  InstallRecovers
CHECK_DEADLOCK FALSE
