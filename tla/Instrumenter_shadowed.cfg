\* an inner `let` takes a name over further down its block
SPECIFICATION InstrumentSpec
CONSTANTS
  Forms = {"ext", "let", "block"}
  Calls = {"function"}
  Places = {"argument"}
  Patterns = {"name"}
  Locals = {"x"}
  MaxNodes = 3
  MaxChoices = 1
  MaxStepLocals = 2
  Edges = {"shadowed later"}
INVARIANTS
  SameBehaviour
\* a program that was run ends
CHECK_DEADLOCK FALSE
