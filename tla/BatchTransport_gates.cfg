SPECIFICATION Spec
CONSTANTS
  MaxSeq = 1
  MaxRetries = 1
  FlushRecords = 2
  BatchBytes = 2
  FullBytes = 3
  MaxFrameBytes = 2
  Sizes = {1, 2}
  RingSizes = {2, 3}
  Requiring = {TRUE, FALSE}
  ConsentAnswers = {"yes", "no", "awaited"}
  ListsBrought = {TRUE, FALSE}
INVARIANTS
  TypeOK
  GatesRespected
  NothingUnscrubbed
PROPERTIES
  SilentOnceOff
  CapKept
CHECK_DEADLOCK FALSE
