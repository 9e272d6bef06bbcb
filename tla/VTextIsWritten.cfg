SPECIFICATION Spec
CONSTANTS
  Statement <- MCStatement
  Condition <- MCCondition
  FunctionName = {}
  MAX_SYMBOLS = 4
  MAX_ASM_OUTPUT = 4096
  MAX_TOKEN_VALUE = 50
  MAX_EXPR_CODE = 200
  MAX_ARGS = 5
  MAX_CODE = 4096
  MAX_LABELS = 256
  Arity <- MCArity
  Fuel = 120
INVARIANT TextIsWritten
CHECK_DEADLOCK FALSE
