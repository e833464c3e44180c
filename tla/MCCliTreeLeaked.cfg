\* A node of ipv4 and ipv6 is extended for ipv4.
SPECIFICATION Spec
CONSTANTS
  Files <- MCFiles
  Defun <- MCDefun
  Hides <- MCHides
  MaxLine = 7
CHECK_DEADLOCK FALSE
INVARIANT NothingLeaked
