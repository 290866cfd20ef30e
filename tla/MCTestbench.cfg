SPECIFICATION TestbenchSpec
CONSTANTS
  NumInstructions = {1, 2, 3, 4, 5}
  RESET_EDGES = 2
  MAX_EDGES = 30
  Windows <- MCWindows
  DATA_WIDTH = 16
  Words <- MCWords
  Pcs = {0, 65532}
  WbData = {0, 7}
  MAX_INSTRS = 4
CHECK_DEADLOCK FALSE
INVARIANTS
  BenchTypeOK HandshakeInStep OneItemPerEdge
  ScoreboardTypeOK MirrorFollowsTheCore OnlyReadersOfSpoiledAreMisjudged VerdictIsExact ImmediatesAsTheCore
PROPERTIES EveryItemFinishes EveryRunEnds
