CONSTANTS
  None = None
  Required = Required
  FirstNoise = 1
  NoiseSpan = 7
  FirstStory = 3
  MaxPort = 65535
  FirstFp = 5
  FpSpan = 1
  FirstFail = 6
  FailSpan = 2
  FailPorts = {445}
  MaxScan = 45
  Exercises <- MCExercises
SPECIFICATION Spec
INVARIANTS
  TypeOK
  EveryFlowReadsBack
  AnswerKey
  NotesTrue
  TuplesApart
  DetectionIsFair
PROPERTIES
  EvasionsKeepTheStory
  Composes
