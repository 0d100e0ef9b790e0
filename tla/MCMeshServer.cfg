CONSTANTS
  d1 = d1
  d2 = d2
  Downloaders <- MCDownloaders
SPECIFICATION Spec
SYMMETRY Symmetry
INVARIANTS
  TypeOK
  TargetWhole
  NothingLeftBehind
  ResourcesReleased
  RefusalReported
PROPERTIES
  ImplementsDownload
