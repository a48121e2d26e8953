\* A claim of a comment, on JSON messages of up to three fields.
SPECIFICATION Spec
CONSTANTS
  Key <- Keys
  MaxFields = 3
  LevelWord <- Words
  EnvService = "unknown"
INVARIANT EmptyLevelAccepted
CHECK_DEADLOCK FALSE
