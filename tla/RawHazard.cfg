CONSTANTS
  DATA_WIDTH = 16
  BTB_DEPTH = 16
  Programs <- HazardRaw
  DmemData = {7}
SPECIFICATION TraceSpec
INVARIANT ConsumesNewX1
