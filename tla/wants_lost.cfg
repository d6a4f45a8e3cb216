SPECIFICATION Spec
CONSTANTS
  DATA_LENGTH = 16
  None = None
  Target <- MCTarget
  Raw <- MCRaw
  Param = {"volume", "pan", "title"}
  KeyOf <- MCKeyOf
  ValueOf <- MCValueOf
  IntParam = {"volume", "pan"}
  Failures <- MCFailures
  QueueSize = 1
  MaxStarts = 1
  MaxSets = 2
  MaxMessages = 1
INVARIANTS ParamsKept
CHECK_DEADLOCK FALSE
