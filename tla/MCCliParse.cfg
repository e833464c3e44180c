\* Every line of up to five words along the tree, with each key after it.
SPECIFICATION MCSpec
CONSTANTS
  Nodes <- MCNodes
  Next <- MCNext
  Cmd <- MCCmd
  Hidden <- MCHidden
  Flag <- MCFlag
  Lines <- MCLines
  Keyword <- MCKeyword
  Text <- MCText
  Demand <- MCDemand
  Boot <- MCBoot
  Values <- MCValues
CHECK_DEADLOCK FALSE
INVARIANTS CaretInLine CaretAgrees HelpAgrees CrRuns HelpFresh OffersRight NothingMissed
