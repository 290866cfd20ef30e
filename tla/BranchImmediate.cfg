SPECIFICATION ScoreboardSpec
CONSTANTS
  DATA_WIDTH = 16
  Words <- MCWords
  Pcs = {0, 65532}
  WbData = {0, 7}
  MAX_INSTRS = 4
CHECK_DEADLOCK FALSE
INVARIANT OffsetsKeepTheirSign
