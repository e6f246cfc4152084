SPECIFICATION InferenceSpec
CONSTANTS
  N = 3
  Programs <- MCPrograms
  Scopes <- MCScopes
  MaxPasses = 3
  Height = 2
  Vars = {"x", "y"}
  Inputs <- MCInputs
  Literals <- MCLiterals
  Predicates = {"NULL", "character", "integer"}
  LengthBounds = {1, 2}
  MaxStatements = 4
CHECK_DEADLOCK FALSE
INVARIANTS PassesOrdered LeastReturns ResultsSettled TypesSound NoFalseAlarm
PROPERTIES FixpointEnds
