CONSTANTS
  PathLength = 3
  Urls <- MCUrls
  Archs <- MCArchs
  Paths <- MCExecutables
  Arguments <- MCArguments
SPECIFICATION Spec
CHECK_DEADLOCK FALSE
INVARIANTS
  TypeOK
  RequestMeansConfig
  OnlyRequiredFields
  PrefixKept
  LocatesExecutable
