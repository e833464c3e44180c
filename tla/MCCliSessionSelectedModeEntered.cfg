\* What a text of the repository says and the code does not do: SelectedModeEntered.
SPECIFICATION Spec
CONSTANTS
  Modes <- MCModes
  NoMode = "none"
  ModeNames <- MCModes
  Parent <- MCParent
  ExitToFinish = {"VIEW", "ENABLE"}
  ExitToEnd = {"CONFIG"}
  Privileged = "ENABLE"
  Startup = "VIEW"
  Lines <- MCLines
  NoLine = "noline"
  Commands <- MCCommands
  Parsed <- MCParsed
  Typed <- MCTyped
  Keywords <- MCKeywords
  Actions <- MCActions
  Names <- MCNames
  WordTokens = {"WORD:4.1"}
  Values = {"1", "2", "a", "e0"}
  Empty = ""
  Absent = "absent"
  NullName = "NULL"
  NullKey = "a"
PROPERTY SelectedModeEntered

CHECK_DEADLOCK FALSE
