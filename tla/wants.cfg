SPECIFICATION Spec
CONSTANTS
  DATA_LENGTH = 16
  None = None
  Target <- MCTarget
  Raw <- MCRaw
  Param = {"volume", "pan", "title"}
  KeyOf <- MCKeyOf
  ValueOf <- MCValueOf
  IntParam = {"volume", "pan"}
  Failures <- MCFailures
  QueueSize = 1
  MaxStarts = 2
  MaxSets = 4
  MaxMessages = 1
INVARIANTS OneOwner ParamsWhole WantsArrive CalledOnce
CHECK_DEADLOCK FALSE
