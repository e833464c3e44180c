\* The same program on a deeper mode file: fallback over several levels, a
\* definition naming an undefined mode, a privileged mode below another.
SPECIFICATION Spec
CONSTANTS
  Modes <- MCModes
  NoMode = "none"
  ModeNames = {"TOP", "A", "B", "C", "MISSING"}
  Parent <- MCParent
  ExitToFinish = {"TOP", "B"}
  ExitToEnd = {}
  Privileged = "B"
  Startup = "TOP"
  Lines <- MCLines
  NoLine = "noline"
  Commands <- MCCommands
  Parsed <- MCParsed
  Typed <- MCTyped
  Keywords <- MCKeywords
  Actions <- MCActions
  Names <- MCNames
  WordTokens = {}
  Values = {"1"}
  Empty = ""
  Absent = "absent"
  NullName = "NULL"
  NullKey = "1"
INVARIANT ModeDefined
PROPERTIES LineAtATime
CHECK_DEADLOCK FALSE
