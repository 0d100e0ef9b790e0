CONSTANTS
  p1 = p1
  p2 = p2
  Procs <- MCProcs
  Commands = {"connect", "disconnect", "uninstall", "status"}
  Dirs = {"private"}
  Windows = TRUE
SPECIFICATION Spec
SYMMETRY Symmetry
INVARIANTS
  TypeOK
  StagingCleaned
  InstallsOwnAgent
  RefusedTouchesNothing
PROPERTIES
  EnrolledByElevated
  ImplementsContract
