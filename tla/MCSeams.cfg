SPECIFICATION MCSpec
CONSTANTS
  Uses = {{"clock", "timeout", "refused"}, {"media", "frame", "state"}, {"interval", "idle"}, {"outcome", "bitmap"}, {"storage", "ready", "random"}, {"cookie", "plain", "import"}, {"observer"}, {"timeline", "file"}, {"counts", "shape", "timestamp"}}
  Values = {u, v}
  Ways = {"input", "drop", "array", "slice", "body"}
  MaxFonts = 2
  Apart = FALSE
  MaxChannels = 2
  MaxForeign = 1
  MovesBusy = FALSE
  MaxTurns = 4
  MaxOps = 4
SYMMETRY Alike
INVARIANTS ReplaysAsRecorded FollowsWhole NeverPastRefusal
