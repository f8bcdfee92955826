CONSTANTS
  Argument <- Arguments
  MaxArgs = 3
  TargetName = {"release", "debug"}
  MaxTargets = 2
  MaxPaths = 3
SPECIFICATION Spec
INVARIANTS
  TypeOK
  RootWasGiven
  ConfiguredAsGiven
  UnknownModeCostsNoOther
CHECK_DEADLOCK FALSE
