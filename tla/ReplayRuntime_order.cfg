\* pages of three tokens, two of which run code
SPECIFICATION Spec
CONSTANTS
  MaxTokens = 3
  MaxCode = 2
  MaxInputs = 1
  Endings = {"End"}
  Tokens <- BaseTokens
  OnEvents <- BaseEvents
  Pages <- MCPages
INVARIANTS
  TypeOK
  ReplaysTheSession
  Completes
\* a page, and a replay, ends
CHECK_DEADLOCK FALSE
