CONSTANTS
  DATA_WIDTH = 16
  BTB_DEPTH = 16
  Programs <- JumpAndLink
  DmemData = {7}
SPECIFICATION TraceSpec
INVARIANT JumpWritesItsLink
