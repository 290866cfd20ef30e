CONSTANTS
  DATA_WIDTH = 16
  BTB_DEPTH = 16
  Programs <- HazardControl
  DmemData = {7}
SPECIFICATION TraceSpec
PROPERTY BranchGoesToPcPlusOffset
