CONSTANTS
  p1 = p1
  p2 = p2
  Procs <- MCProcs
  Commands = {"connect"}
  Dirs = {"shared"}
  Windows = TRUE
SPECIFICATION Spec
SYMMETRY Symmetry
INVARIANTS
  InstallsTargetGroup
