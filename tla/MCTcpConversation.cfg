SPECIFICATION Spec
CONSTANTS
  MSS = 2
  MaxSeg = 3
  SeqMod = 64
  ISNs = {0, 60}
  Scripts <- MCScripts
  ConnStates <- MCConnStates
  TextureNames <- MCTextureNames
  SegSizes = {0, 5}
  MinSegments = {1, 3}
  MaxMessages = 2
  Sizes = {0, 1, 4}
INVARIANTS TypeOK SensorClean SummaryIsTheLog ClosedInStep
PROPERTIES HalfDuplex ImplementsByteStream Termination
CHECK_DEADLOCK FALSE
