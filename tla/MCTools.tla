------------------------------- MODULE MCTools -------------------------------
(***************************************************************************)
(* What works around the page, in one run: a program is instrumented, its  *)
(* trace leaves the browser, a page is deployed and served again with its  *)
(* gates, its requests are answered, a range of it is replayed, its errors *)
(* are reported, or its batches are timed and fitted to what may outlive   *)
(* it.  Each has its bounds; all but one stay as they begin.               *)
(***************************************************************************)
EXTENDS FlushTimer, ErrorReports, BrowserTrace

VARIABLES part,
  open, count, phase, source, output, ran,                      \* Instrumenter
  page, deployed, level, asked, served,                         \* PageMarkup
  protocol, elements, log, scripts, resources, keys, requests, parser,
  inserted, gone, awaiting, early, settled,                     \* RequestGates
  session, range, step, attempt, planned, at, openFrames, outcome, held, out, report,  \* RangeReplay
  keepaliveBytes, size, waiting, unanswered, retrying, bodies, beacons, pageBytes,
  available, life, done, outlives, had, left                    \* KeepaliveBudget

(* Instrumenter: blocks and scopes; the kinds of function; what they       *)
(* return; exceptions; constructors; jumps.                                *)
Scopes == INSTANCE Instrumenter WITH
  Forms <- {"ext", "let", "set", "var", "block", "for", "switch", "break"},
  Calls <- {"function"}, Places <- {"argument"}, Patterns <- {"name"}, Locals <- {"x"},
  MaxNodes <- 4, MaxChoices <- 2, MaxStepLocals <- 2, Edges <- {}
Callables == INSTANCE Instrumenter WITH
  Forms <- {"ext", "let", "var", "directive", "export"},
  Calls <- {"function", "arrow", "concise", "method", "class method", "getter", "setter", "static"},
  Places <- {"argument", "callee"}, Patterns <- {"name", "default", "after a hole"},
  Locals <- {"x", "y"},
  MaxNodes <- 2, MaxChoices <- 1, MaxStepLocals <- 2, Edges <- {}
Returns == INSTANCE Instrumenter WITH
  Forms <- {"ext", "return", "if", "try", "throw"},
  Calls <- {"arrow"}, Places <- {"argument"}, Patterns <- {"name"}, Locals <- {"x"},
  MaxNodes <- 3, MaxChoices <- 2, MaxStepLocals <- 2, Edges <- {}
Constructors == INSTANCE Instrumenter WITH
  Forms <- {"ext", "return", "if"},
  Calls <- {"derived", "constructor"}, Places <- {"argument"}, Patterns <- {"name"}, Locals <- {"x"},
  MaxNodes <- 4, MaxChoices <- 2, MaxStepLocals <- 2, Edges <- {}
Jumps == INSTANCE Instrumenter WITH
  Forms <- {"ext", "return", "label", "break", "while", "if"},
  Calls <- {"arrow"}, Places <- {"argument"}, Patterns <- {"name"}, Locals <- {"x"},
  MaxNodes <- 4, MaxChoices <- 2, MaxStepLocals <- 2, Edges <- {}
program == <<open, count, phase, source, output, ran>>

(* PageMarkup: the modes of the parser; those of a table, and a pre's      *)
(* newline; what may stand before a head.                                  *)
Trees == INSTANCE PageMarkup WITH
  Tokens <- {"ws", "text", "comment", "html", "head", "/head", "body", "/body", "/html"},
  MaxTokens <- 4, Edges <- {}
Tables == INSTANCE PageMarkup WITH
  Tokens <- {"ws", "text", "comment", "table", "/table", "colgroup", "col", "pre", "nl"},
  MaxTokens <- 4, Edges <- {}
Leads == INSTANCE PageMarkup WITH
  Tokens <- {"text", "comment", "html", "head", "charset", "title", "script", "csp", "/head"},
  MaxTokens <- 4, Edges <- {}
markup == <<page, deployed, level, asked, served>>

Requests == INSTANCE RequestGates WITH
  level <- protocol, page <- elements, at <- gone, ran <- settled,
  Kinds <- {"parser", "inserted", "image", "style", "module"},
  Urls <- {"a", "s1"}, MaxElements <- 2, Levels <- {0, 1}, Edges <- {}
network == <<protocol, elements, log, scripts, resources, keys, requests, parser,
             inserted, gone, awaiting, early, settled>>

Replays == INSTANCE RangeReplay WITH
  asked <- range, status <- outcome, MaxItems <- 4, MaxDepth <- 2,
  Faults <- {"divergence", "build", "launch", "binary", "host", "instrument", "refuser",
             "context", "goto", "timeout", "stop", "trace", "copy", "crash"}
replay == <<session, range, step, attempt, planned, at, openFrames, outcome, held, out, report>>

errors == <<status, signal, callback, seen, reports, raised>>

Budget == INSTANCE KeepaliveBudget WITH
  requests <- bodies, inFlight <- unanswered, KEEPALIVE_BODY_LIMIT <- 3, Sizes <- {1, 2, 4}, PageSizes <- {0, 1},
  MaxBatches <- 3
budget == <<keepaliveBytes, size, waiting, unanswered, retrying, bodies, beacons, pageBytes,
            available, life, done, outlives, had, left>>

Programs == {"scopes", "kinds", "returns", "constructors", "jumps"}
Pages == {"trees", "tables", "leads"}

MCInit ==
  /\ part \in Programs \cup Pages \cup {"trace", "requests", "range", "errors", "timing", "budget"}
  /\ Scopes!InstrumentInit /\ RuntimeInit /\ Trees!MarkupInit
  /\ Requests!RequestInit /\ Replays!RangeInit /\ ReporterInit
  /\ FlushInit /\ Budget!BudgetInit
  /\ part # "trace" => Len(unsent) = 1
  /\ part # "requests" => protocol = 0 /\ elements = <<[kind |-> "image", url |-> "a"]>>
  /\ part # "errors" => ~signal /\ status.state = "on" /\ callback = "none"
  /\ part # "budget" => available

OnProgram ==
  /\ \/ part = "scopes" /\ Scopes!InstrumentNext
     \/ part = "kinds" /\ Callables!InstrumentNext
     \/ part = "returns" /\ Returns!InstrumentNext
     \/ part = "constructors" /\ Constructors!InstrumentNext
     \/ part = "jumps" /\ Jumps!InstrumentNext
  /\ UNCHANGED <<part, traced, markup, network, replay, errors, flushing, budget>>
OnTrace ==
  /\ part = "trace" /\ RuntimeNext
  /\ UNCHANGED <<part, program, markup, network, replay, errors, flushing, budget>>
OnPage ==
  /\ \/ part = "trees" /\ Trees!MarkupNext
     \/ part = "tables" /\ Tables!MarkupNext
     \/ part = "leads" /\ Leads!MarkupNext
  /\ UNCHANGED <<part, program, traced, network, replay, errors, flushing, budget>>
OnRequests ==
  /\ part = "requests" /\ Requests!RequestNext
  /\ UNCHANGED <<part, program, traced, markup, replay, errors, flushing, budget>>
OnRange ==
  /\ part = "range" /\ Replays!RangeNext
  /\ UNCHANGED <<part, program, traced, markup, network, errors, flushing, budget>>
OnErrors ==
  /\ part = "errors" /\ ReporterNext
  /\ UNCHANGED <<part, program, traced, markup, network, replay, flushing, budget>>
OnTiming ==
  /\ part = "timing" /\ FlushNext
  /\ UNCHANGED <<part, program, traced, markup, network, replay, errors, budget>>
OnBudget ==
  /\ part = "budget" /\ Budget!BudgetNext
  /\ UNCHANGED <<part, program, traced, markup, network, replay, errors, flushing>>

MCNext == OnProgram \/ OnTrace \/ OnPage \/ OnRequests \/ OnRange \/ OnErrors \/ OnTiming \/ OnBudget
MCSpec ==
  MCInit /\ [][MCNext]_<<part, program, traced, markup, network, replay, errors, flushing, budget>>

InProgram == part \in Programs
InPage == part \in Pages
-----------------------------------------------------------------------------
(* Each property holds the type invariant of what it is about.             *)

(* Recording never changes what the program does: the instrumented module  *)
(* makes the same calls, stores the same values and ends the same way      *)
(* (visitor.ts, scopes.ts).                                                *)
SameBehaviour == InProgram => Scopes!SameBehaviour

(* The trace is the run's: every statement that runs is stepped just       *)
(* before it does, in the frame of the call that runs it, and nothing else *)
(* is; a call that returns closes the frame it opened and no other; a step *)
(* tells the value of every name of the call that the statement can read,  *)
(* until there are too many; and what is stored is written, name by name,  *)
(* as soon as it is (transformBlockBody, rewriteReturns,                   *)
(* instrumentFunctionBody, computeStepLocals,                              *)
(* collectAssignmentSitesFromStatement).                                   *)
TracesTheRun == InProgram =>
  Scopes!InstrumentTypeOK /\ Scopes!StepsInFrame /\ Scopes!FramesBalanced /\ Scopes!CapturesTheScope /\ Scopes!WritesFollow

(* A deployed page is its author's but for the bootstrap: the same tree    *)
(* and encoding, no script or policy before it, and the author's page      *)
(* again once it is taken out (placement.ts); and the tree of the replayed *)
(* page is the recorded one's, whatever gates the log asks for             *)
(* (insertGates).                                                          *)
PagesKept == InPage =>
  /\ part = "trees" => Trees!MarkupTypeOK
  /\ part = "tables" => Tables!MarkupTypeOK
  /\ part = "leads" => Leads!MarkupTypeOK
  /\ Trees!DeploysThePage /\ Trees!GatesKeepTheTree

(* The scripts of the log run, and its resources' events are dispatched,   *)
(* in the order of the log, however the requests and answers interleave;   *)
(* at level 0 no other script runs; and nothing waits for what waits for   *)
(* it: the replay stops only once all the log has run (serve,              *)
(* HeldResources, letDocTaskGo, moveDocumentOn).                           *)
RequestsFollowTheLog == part = "requests" =>
  Requests!RequestTypeOK /\ Requests!RunsInLogOrder /\ Requests!RunsOnlyWhatRan /\ Requests!NeverStalls

(* The trace of a range is what a full trace holds between its bounds, the *)
(* nearest checkpoints around it with no frame open, and a second replay   *)
(* finds the same (replaySession, quiescentBounds); however a replay ends, *)
(* what the runner ran is gone, and the file at the path is a whole trace  *)
(* or is left as it was (replayOnce, its finally).                         *)
TraceIsTheRange == part = "range" =>
  Replays!RangeTypeOK /\ Replays!TraceIsTheRange /\ Replays!BoundsFoundAgain /\ Replays!EndsClean

(* The browser takes a batch at most once as the page leaves, and a batch  *)
(* is lost with the page only if the document's budget had no room for it  *)
(* (send, sendLeaving, holdKeepalive).                                     *)
LeavesOnce == part = "budget" =>
  Budget!BudgetTypeOK /\ Budget!LeavesOnce /\ Budget!SurvivesLeaving
=============================================================================
