SPECIFICATION Spec
CONSTANTS
  FlowSets <- MCFlowSets
  NoDuration = NoDuration
  NoSegment = NoSegment
  Clean = "clean"
  Textures = {"clean", "realistic"}
  Links = {"ethernet", "linux_sll"}
  MaxFlows = 3
  MaxCalls = 2
INVARIANTS TypeOK ContextScoped
PROPERTY ImplementsCompiler
CHECK_DEADLOCK FALSE
