SPECIFICATION TypingSpec
CONSTANTS
  Vars = {"x", "y"}
  Inputs <- MCInputs
  Literals <- MCLists
  Predicates = {"NULL"}
  LengthBounds = {2}
  MaxStatements = 4
CHECK_DEADLOCK FALSE
INVARIANTS NoFalseAlarm
