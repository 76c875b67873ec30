---------------------------- MODULE ErrorReports ----------------------------
(***************************************************************************)
(* The browser error reporter (runtime-browser/src/error-report.ts): an    *)
(* uncaught error of the page becomes one scrubbed report, shown to the    *)
(* page's consent callback, and uploaded only when it answers yes, the     *)
(* browser sends no privacy signal and the reporter still runs, all of it  *)
(* at the time of the upload.  The callback answers at once, or with a     *)
(* promise the page settles when it likes; it may itself throw, replace    *)
(* the callback, or raise another error while it runs.                     *)
(***************************************************************************)
EXTENDS Naturals, FiniteSets

CONSTANTS Errors,       \* what the page throws (kind, class, message, frame)
          Sensitive,    \* those whose text holds a sensitive field's value
          Answers,      \* what a consent callback may answer
          maxReports,
          MaxRaised     \* bound: errors raised

VARIABLES status,       \* ErrorReporterStatus
          signal,       \* Do Not Track or Global Privacy Control is on
          callback,     \* the consent callback of the page, if any
          seen,         \* keys of the reports captured
          reports,      \* each report captured, by its number
          raised

reporterVars == <<status, signal, callback, seen, reports, raised>>

none == "none"
off(s, reason) == [s EXCEPT !.state = "off", !.reason = IF @ = none THEN reason ELSE @]
Counters == {"captured", "sent", "accepted", "declined", "failed"}
NewStatus == [state |-> "off", reason |-> none, captured |-> 0, sent |-> 0,
              accepted |-> 0, declined |-> 0, failed |-> 0]

-----------------------------------------------------------------------------
(* installErrorReporter: inert unless enabled, allowed and usable.         *)
ReporterInit ==
  /\ signal \in BOOLEAN /\ callback \in {none} \cup Answers
  /\ seen = {} /\ reports = <<>> /\ raised = 0
  /\ \E enabled, endpoint, fetch \in BOOLEAN :
       status = CASE ~enabled -> off(NewStatus, "disabled")
                  [] enabled /\ signal -> off(NewStatus, "dnt")
                  [] enabled /\ ~signal /\ ~endpoint -> off(NewStatus, "no-endpoint")
                  [] enabled /\ ~signal /\ endpoint /\ ~fetch -> off(NewStatus, "no-fetch")
                  [] OTHER -> [NewStatus EXCEPT !.state = "on"]

(* scrubErrorReport: what is shown is what is sent; no sensitive value.    *)
scrubErrorReport(error) == [error |-> error, holed |-> error \in Sensitive]
Key(report) == report.error

(* What is done with a report once it is answered: sent, or dropped.       *)
Entry(report) ==
  [report |-> report, shown |-> FALSE, answer |-> none, sent |-> FALSE,
   answered |-> FALSE, mayGo |-> FALSE]
(* Mutated: a signal that came on since is not looked at.                  *)
UploadsAnyway(s, entry) ==
  IF s.state # "on"
  THEN [status |-> [s EXCEPT !.declined = @ + 1], entry |-> [entry EXCEPT !.answered = TRUE]]
  ELSE [status |-> [s EXCEPT !.sent = @ + 1],
        entry |-> [entry EXCEPT !.answered = TRUE, !.sent = TRUE, !.mayGo = TRUE]]
(* Mutated: an upload that may not go is not counted as declined.          *)
Uncounted(s, entry) ==
  IF signal \/ s.state # "on"
  THEN [status |-> s, entry |-> [entry EXCEPT !.answered = TRUE]]
  ELSE [status |-> [s EXCEPT !.sent = @ + 1],
        entry |-> [entry EXCEPT !.answered = TRUE, !.sent = TRUE, !.mayGo = TRUE]]
upload(s, entry) ==
  IF signal \/ s.state # "on"
  THEN [status |-> [s EXCEPT !.declined = @ + 1], entry |-> [entry EXCEPT !.answered = TRUE]]
  ELSE [status |-> [s EXCEPT !.sent = @ + 1],
        entry |-> [entry EXCEPT !.answered = TRUE, !.sent = TRUE, !.mayGo = TRUE]]
decide(s, entry, yes) ==
  IF yes THEN upload(s, entry)
  ELSE [status |-> [s EXCEPT !.declined = @ + 1], entry |-> [entry EXCEPT !.answered = TRUE]]

(* ask: a promise is answered later; a thenable, a throw and anything else *)
(* but a boolean is a no.                                                  *)
ask(s, entry) ==
  LET shown == [entry EXCEPT !.shown = callback # none, !.answer = callback]
  IN CASE callback = "promise" -> [status |-> s, entry |-> shown]
       [] OTHER -> decide(s, shown, callback = "yes")

Room == status.captured < maxReports
capture(error) ==
  LET report == scrubErrorReport(error)
      s == [status EXCEPT !.captured = @ + 1]
      asked == ask(s, Entry(report))
  IN IF status.state # "on" \/ ~Room \/ Key(report) \in seen
     THEN UNCHANGED <<status, seen, reports>>
     ELSE /\ seen' = seen \cup {Key(report)}
          /\ status' = asked.status
          /\ reports' = [n \in 1..s.captured |->
                           IF n \in DOMAIN reports THEN reports[n] ELSE asked.entry]

Raises ==
  /\ raised < MaxRaised /\ raised' = raised + 1
  /\ \E error \in Errors : capture(error)
  /\ UNCHANGED <<signal, callback>>
(* A reporter that throws while it builds a report turns itself off.       *)
GuardFails ==
  /\ status.state = "on" /\ raised < MaxRaised /\ raised' = raised + 1
  /\ status' = off([status EXCEPT !.failed = @ + 1], "failed")
  /\ UNCHANGED <<signal, callback, seen, reports>>

(* The page settles a promise it answered with.                            *)
Settles ==
  /\ \E n \in DOMAIN reports, yes \in BOOLEAN :
       /\ reports[n].answer = "promise" /\ ~reports[n].answered
       /\ LET decided == decide(status, reports[n], yes)
          IN status' = decided.status /\ reports' = [reports EXCEPT ![n] = decided.entry]
  /\ UNCHANGED <<signal, callback, seen, raised>>
(* The endpoint answers, or the request fails: fetch may throw, and a      *)
(* keepalive body over the budget in flight is refused.                    *)
InFlight(n) == reports[n].sent
Uploaded ==
  /\ \E n \in DOMAIN reports, ok \in BOOLEAN :
       /\ InFlight(n)
       /\ status' = IF ok THEN [status EXCEPT !.accepted = @ + 1]
                    ELSE [status EXCEPT !.failed = @ + 1]
       /\ reports' = [reports EXCEPT ![n].sent = FALSE]
  /\ UNCHANGED <<signal, callback, seen, raised>>

consent ==
  /\ \E answers \in Answers : callback' = answers /\ callback # answers
  /\ UNCHANGED <<status, signal, seen, reports, raised>>
stopReporter ==
  /\ status.state = "on" /\ status' = off(status, "stopped")
  /\ UNCHANGED <<signal, callback, seen, reports, raised>>
SignalChanges ==
  /\ raised < MaxRaised /\ raised' = raised + 1 /\ signal' = ~signal
  /\ UNCHANGED <<status, callback, seen, reports>>

ReporterNext == \/ Raises \/ GuardFails \/ Settles \/ Uploaded
                \/ consent \/ stopReporter \/ SignalChanges
ReporterSpec == ReporterInit /\ [][ReporterNext]_reporterVars

-----------------------------------------------------------------------------
ReporterTypeOK ==
  /\ \A counter \in Counters : status[counter] \in Nat
  /\ signal \in BOOLEAN /\ callback \in {none} \cup Answers /\ seen \subseteq Errors
  /\ DOMAIN reports = 1..status.captured

Count(Test(_)) == Cardinality({n \in DOMAIN reports : Test(reports[n])})
(* Every report captured is waiting for its answer, was dropped, or was    *)
(* sent; every upload is in flight, accepted or failed: the status adds up *)
(* whatever raced the answers (ask, decide, upload).                       *)
ReportsAccounted ==
  LET Waits(entry) == ~entry.answered
      Flies(entry) == entry.sent
      guarded == IF status.reason = "failed" THEN 1 ELSE 0
  IN /\ status.captured = Count(Waits) + status.declined + status.sent
     /\ status.sent + guarded = Count(Flies) + status.accepted + status.failed
     /\ status.captured <= maxReports

(* A report leaves the page only after its own consent callback said yes,  *)
(* and never while a privacy signal is on; what leaves is holed, and one   *)
(* error is one report.                                                    *)
Consented ==
  \A n \in DOMAIN reports' :
    LET before == n \in DOMAIN reports /\ reports[n].mayGo
    IN reports'[n].mayGo /\ ~before =>
         /\ reports'[n].answer \in {"yes", "promise"}
         /\ ~signal
         /\ reports'[n].report.error \in Sensitive => reports'[n].report.holed
         /\ \A m \in DOMAIN reports' :
              m # n => reports'[m].report.error # reports'[n].report.error

(* What stop() says (error-report.ts: "reports already handed to the       *)
(* consent callback may still be sent"): a report whose promise is still   *)
(* to be settled is sent when the page settles it with a yes, though the   *)
(* reporter was stopped in between.                                        *)
StopSparesAsked ==
  \A n \in DOMAIN reports :
    /\ reports[n].answer = "promise" /\ ~reports[n].answered
    /\ status.reason = "stopped" /\ ~signal
    => decide(status, reports[n], TRUE).entry.mayGo

(* A report is sent by the page's consent, and every report is accounted   *)
(* for.                                                                    *)
SendsByConsent == [](ReporterTypeOK /\ ReportsAccounted) /\ [][Consented]_reporterVars
=============================================================================
