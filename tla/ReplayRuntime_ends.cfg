\* sessions that end anywhere, also with a fault
SPECIFICATION FairSpec
CONSTANTS
  MaxTokens = 2
  MaxCode = 2
  MaxInputs = 0
  Endings = {"End", "Refusal"}
  Tokens <- ExternalTokens
  OnEvents <- BaseEvents
  Pages <- MCPages
PROPERTIES
  ReplayEnds
\* a page, and a replay, ends
CHECK_DEADLOCK FALSE
