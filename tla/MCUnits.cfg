CONSTANTS
  DATA_WIDTH = 4
  BTB_DEPTH = 2
  Bytes = {7, 200}
SPECIFICATION PartsSpec
INVARIANTS
  OverflowIsExact
  BranchesAgreeWithSubtraction
  LogicIsBitwise
  AluAgreesWithScoreboard
  StoredAtBaseReadsBack
  IfStageTypeOK
PROPERTIES
  StoresStayInTheirUnit
  PredictsOnlyLastTarget
