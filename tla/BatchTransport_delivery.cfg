SPECIFICATION Spec
CONSTANTS
  MaxSeq = 2
  MaxRetries = 1
  FlushRecords = 2
  BatchBytes = 2
  FullBytes = 3
  MaxFrameBytes = 2
  Sizes = {1, 3}
  RingSizes = {3}
  Requiring = {FALSE}
  ConsentAnswers = {}
  ListsBrought = {FALSE}
INVARIANTS
  OneWakeUp
  Accounted
  BatchesInOrder
  NeverStranded
PROPERTIES
  KeepsFates
CHECK_DEADLOCK FALSE
