\* a report is asked about with a promise, the reporter is stopped, and the promise says yes
SPECIFICATION ReporterSpec
CONSTANTS
  Errors = {"thrown", "typed"}
  Sensitive = {"typed"}
  Answers = {"yes", "no", "promise", "thenable"}
  maxReports = 2
  MaxRaised = 4
INVARIANTS
  StopSparesAsked
\* the page may do nothing more
CHECK_DEADLOCK FALSE
