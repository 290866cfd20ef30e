CONSTANTS
  DATA_WIDTH = 16
  BTB_DEPTH = 16
  Programs <- FollowList
  DmemData = {7}
SPECIFICATION FairTraceSpec
PROPERTY LoadUseStallEnds
