\* Every kind of line, JSON messages of up to four fields; a line ends, hence no
\* deadlock check.
SPECIFICATION Spec
CONSTANTS
  Key <- Keys
  MaxFields = 4
  LevelWord <- Words
  EnvService = "unknown"
INVARIANTS
  TypeOK
  ParsedAsWritten
  TraceKept
  WellFormedKept
PROPERTY ProcessKeeps
CHECK_DEADLOCK FALSE
