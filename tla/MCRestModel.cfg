\* Access lists and OSPF on a server that may stop between two statements.
SPECIFICATION MCSpec
CONSTANTS
  Lists = {1, 2}
  MaxAclRows = 6
  Tables <- MCTables
  Heritage <- MCHeritage
  Upon = {"entry", "rule", "remark"}
  HasOne = {"rule", "remark", "nssa"}
  Sequenced = {"entry"}
  Step = 10
  Keyless = {"remark", "nssa"}
  Null = Null
  NoKey = NoKey
  Attrs <- MCAttrs
  NoAttr = "none"
  Requests <- MCRequests
  MaxNumber = 30
  MaxRows = 7
  MaxStops = 2
CHECK_DEADLOCK FALSE
INVARIANTS NoOrphan RowsDistinct NoEmptyContainer
PROPERTIES Appended RequestAtATime
