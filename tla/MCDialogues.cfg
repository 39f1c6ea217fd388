CONSTANTS
  None = None
  Required = Required
  Documents <- MCDocuments
  Gaps = {0, 1, 10, 106}
  Delays = {0, 30, 39, 105, 106, 196, 204, 205}
SPECIFICATION Spec
INVARIANTS
  TypeOK
  ReadsBack
  FilesArriveWhole
  PortAnnounced
