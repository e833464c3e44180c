\* From the options to the first prompt, with signals and files that are broken.
SPECIFICATION Spec
CONSTANTS
  Settable <- MCSettable
  Default <- MCDefault
  CommandLines <- MCCommandLines
  ModeFiles <- MCModeFiles
  Dirs <- MCDirs
  Definitions <- MCDefinitions
  Broken = {"part", "lost"}
CHECK_DEADLOCK FALSE
INVARIANTS CommandsReady StartsAtTop CrashesEarly
