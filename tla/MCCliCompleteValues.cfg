\* What the comment in completion_matches says of the values of the configuration.
SPECIFICATION MCSpec
CONSTANTS
  Nodes <- MCNodes
  Next <- MCNext
  Cmd <- MCCmd
  Hidden <- MCHidden
  Flag <- MCFlag
  Lines <- MCLines
  Keyword <- MCKeyword
  Text <- MCText
  Demand <- MCDemand
  Boot <- MCBoot
  Values <- MCValues
CHECK_DEADLOCK FALSE
INVARIANT ValuesOffered
