\* Definitions that share groups of the same alternatives.
SPECIFICATION Spec
CONSTANTS
  Files <- MCFiles
  Defun <- MCDefun
  Hides <- MCHides
  MaxLine = 7
CHECK_DEADLOCK FALSE
INVARIANTS NextDistinct NothingLost NothingLeaked HiddenAlone
