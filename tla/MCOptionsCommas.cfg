CONSTANTS
  Argument <- Arguments
  MaxArgs = 2
  TargetName = {"release", "debug"}
  MaxTargets = 2
  MaxPaths = 3
SPECIFICATION Spec
PROPERTY CommandLineIsRead
CHECK_DEADLOCK FALSE
