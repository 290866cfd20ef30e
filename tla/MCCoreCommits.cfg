CONSTANTS
  DATA_WIDTH = 5
  BTB_DEPTH = 2
  Programs <- CommittingPrograms
  DmemData = {0}
SPECIFICATION ClearSpec
INVARIANT HazardFreeKeepsClear
PROPERTY CommitsAsReference
