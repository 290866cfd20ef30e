SPECIFICATION FairSpec
CONSTANTS
  CHUNK = 2
  MAX_CHUNKS = 2
  VECTOR_VAL = 5
  REDUCED_VECTOR = 4
  Widths = {1, 3, 4, 5}
  Names <- MCNames
  Samples <- MCSamples
  Handed <- MCHanded
  Tasks = {t1, t2}
  TimedPaths <- MCTimed
  DesignValues <- MCDesign
CHECK_DEADLOCK FALSE
INVARIANTS HdlTypeOK CallsStayInTheirBits WritesWhatWasAsked ReadsWhatIsThere CheckedPathsAnswer ForcesAccountedFor
PROPERTIES ForceTimeLetsGo EveryForceTimeEnds
