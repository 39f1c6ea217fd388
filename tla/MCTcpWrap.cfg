SPECIFICATION Spec
CONSTANTS
  MSS = 2
  MaxSeg = 3
  SeqMod = 16
  ISNs = {0, 9, 15}
  Scripts <- MCScripts
  ConnStates <- MCConnStates
  TextureNames <- MCTextureNames
  SegSizes = {0}
  MinSegments = {1}
  MaxMessages = 1
  Sizes = {1, 4}
INVARIANT AlwaysRenders
CHECK_DEADLOCK FALSE
