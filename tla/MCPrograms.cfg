SPECIFICATION ProgramsFairSpec
CONSTANTS
  Touched = {"keys", "cage", "bird", "rod", "vase", "pillow", "snake", "eggs"}
  DropRooms = {18}
  Statement <- MCStatement
  Condition <- MCCondition
  FunctionName = {"f"}
  MAX_SYMBOLS = 4
  MAX_ASM_OUTPUT = 500
  MAX_TOKEN_VALUE = 50
  MAX_EXPR_CODE = 200
  MAX_ARGS = 5
  MAX_CODE = 4096
  MAX_LABELS = 256
  Arity <- MCArity
  Fuel = 120
  MAX_LINES = 3
  MAX_LINE_LENGTH = 3
  MAX_DISPLAY_LINES = 2
  PAGE_SIZE = 4
  Word = 8
  TypedLine <- MCTypedLine
  TypedNumber = {0, 2, 6}
  FileName = {"new"}
  InitialFile <- MCInitialFile
  DirectoryEntries = 3
  EditedEntries = 1
  KEYBOARD_BUFFER_SIZE = 3
  Letter = {"a"}
  MaxPosition = 4
  Rows = 3
  Width = 3
  Command <- MCCommand
  MaxRecorded = 4
  SYSTEM_INTERRUPTS_PER_SECOND = 2
  SecondsPerMinute = 2
  CounterModulus = 8
INVARIANTS ProgramsTypeOK LabelsArePositions RunsAsWritten EggsOutOfReach LineIsTyped 
PROPERTIES EditsOneLine SavedTextIsLoaded WaitsFullTime WaitsEnd
CHECK_DEADLOCK FALSE
