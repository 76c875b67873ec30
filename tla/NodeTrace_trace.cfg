SPECIFICATION Spec
CONSTANTS
  q1 = q1
  q2 = q2
  Capacity = 2
  Contexts = {1, 2}
  Requests = {q1, q2}
  MaxCalls = 2
  MaxNest = 2
  MaxBatches = 2
  MaxFailures = 1
INVARIANTS
  TypeOK
  EventsKept
  SpansMeasured
SYMMETRY Symmetry
CHECK_DEADLOCK FALSE
