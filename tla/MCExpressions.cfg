CONSTANTS
  a = a
  b = b
  alias = alias
  Var = {a, b}
  TypeName = {alias}
  TypedefNodes <- WrittenTypes
  Nodes <- ProgramTypes
  MaxNodes = 3
  ProgramScales <- MiddleScales
SYMMETRY Variables
SPECIFICATION Spec
INVARIANTS
  TypeOK
  ScalesWithinLimits
  DataHasItsType
  StoresFit
  ArithmeticWidens
PROPERTY VariablesKeepTheirWidth
CHECK_DEADLOCK FALSE
