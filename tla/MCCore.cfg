CONSTANTS
  DATA_WIDTH = 4
  BTB_DEPTH = 2
  Programs <- MixedPrograms
  DmemData = {0, 9}
SPECIFICATION FairTraceSpec
INVARIANTS
  CoreTypeOK
  BtbPredictsOnlyControlFlow
  DecodeHoldsWhatWasFetched
  AddressesHalfwordAligned
  X0ReadsZero
  WritesBelongToTheirInstruction
  StreamBreaksOnlyAtControlFlow
PROPERTIES
  RedirectsNeverBackToBack
  StallOutlastsCycleOnlyOnOwnSource
  EveryStallEnds
