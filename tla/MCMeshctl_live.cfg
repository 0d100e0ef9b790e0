CONSTANTS
  p1 = p1
  p2 = p2
  Procs = {p1}
  Commands = {"connect", "disconnect", "uninstall", "status"}
  Dirs = {"private", "shared"}
  Windows = TRUE
SPECIFICATION FairSpec
PROPERTIES
  CommandReturns
