SPECIFICATION MCSpec
\* FlushTimer, scaled down: the first deadline is longer than the lead and a precise timer
\* together, and the longest is no doubling of it
CONSTANTS
  flushRecords = 2
  ringRecords = 3
  flushDeadlineFirst = 4
  flushDeadlineMaxMs = 9
  FLUSH_FAST_BATCHES = 2
  FLUSH_TIMER_LEAD_MS = 1
  PRECISE_TIMER_MAX_MS = 2
  PreciseLate = 1
  CoarseLate = 2
  Rounding = 1
\* ErrorReports: one error's text holds what a visitor typed
  Errors = {"thrown", "rejected", "typed"}
  Sensitive = {"typed"}
  Answers = {"yes", "no", "promise", "thenable"}
  maxReports = 2
  MaxRaised = 4
\* BrowserTrace
  flushIntervalMs = 50
  MaxCalls = 6
  Threshold = 3
  Edges = {}
INVARIANTS
  SameBehaviour
  TracesTheRun
  StreamWhole
  PagesKept
  RequestsFollowTheLog
  TraceIsTheRange
  Timely
  LeavesOnce
PROPERTIES
  SendsByConsent
\* a program, a page, a replay and a session end
CHECK_DEADLOCK FALSE
