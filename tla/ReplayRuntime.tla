---------------------------- MODULE ReplayRuntime -----------------------------
(***************************************************************************)
(* The replay's half in the page                                           *)
(* (packages/boundary-replay/src/browser/runtime.ts): a page is recorded   *)
(* (PageRecording), then loaded again with its boundary reads matched      *)
(* against the log at one cursor, and its tasks released by a scheduler.   *)
(* The page's code is the same, and so are the values it is given; what    *)
(* the browser chooses again is when the parser goes on and when a script  *)
(* that was let go arrives.  The runner's part (gates.ts and runner.ts) is *)
(* what it inserts and holds: a gate at every boundary of the document     *)
(* when the log has a position to hold the parser at, the scripts, and the *)
(* two events the log has.                                                 *)
(***************************************************************************)
EXTENDS PageRecording

VARIABLE rp  \* the replay

vars == <<page, live, rp>>

log == live.log
NoTask == [kind |-> "none", of |-> 0, take |-> "none"]

(* `awaiting` is the document's task let go and waited for; of a script    *)
(* `take` says where its DocTask is still to be taken: "settle", "first"   *)
(* (its first record), or "none".  `left` is heldScripts, the scripts the  *)
(* log runs that are not let go; `flying` the ones let go that have not    *)
(* settled; `gate` gateHeld; `gated` how far the parser was at the last    *)
(* gate that ran; `row`, the scheduler takes the next record at once.      *)
NewReplay ==
  [state |-> "waiting", at |-> 1, failed |-> "none", awaiting |-> NoTask,
   gate |-> FALSE, gated |-> -1, left |-> {}, flying |-> {},
   dclHeld |-> FALSE, loadHeld |-> FALSE, registered |-> {}, row |-> FALSE,
   doc |-> NewDocument, ran |-> <<>>, script |-> 0, timers |-> 0, listening |-> FALSE]

DocTasks == {"Script", "Settled", "DCL", "Load"}
Kinds == {log[i].kind : i \in DOMAIN log}
HasGates == \E i \in DOMAIN log : log[i].kind = "Loading" /\ log[i].at.phase = 1
RecordsLoading == Kinds \cap (DocTasks \cup {"Loading"}) # {}
RunnerHolds == HasGates \/ Kinds \cap DocTasks # {}  \* documentPlan's holds

Kind(i) == IF i \in DOMAIN log THEN log[i].kind ELSE "none"
Now == Kind(rp.at)
Here == log[rp.at]

-----------------------------------------------------------------------------
(* The cursor. *)

Fail(s, kind) == [s EXCEPT !.failed = IF @ = "none" THEN kind ELSE @]

Terminal == [Gap |-> "Gap", Refusal |-> "NonReplayable"]

AtPosition(s, i) == log[i].at = Position(page, s.doc)  \* progress.at

(* Its callers diverge where the log's next document task is another. *)
TakeDocTask(s, kind, k) ==
  LET located == Kind(s.at) = "Loading"
      i == IF located THEN s.at + 1 ELSE s.at
  IN IF Kind(i) = kind /\ log[i].of = k /\ (located => AtPosition(s, s.at))
     THEN [s EXCEPT !.at = i + 1]
     ELSE Fail(s, "TaskOrderMismatch")

(* Mutated: the script's first record does not take its DocTask. *)
TakeScriptStartForgotten(s) == s

TakeScriptStart(s) ==
  IF s.awaiting.take = "first" /\ s.script = s.awaiting.of
  THEN TakeDocTask([s EXCEPT !.awaiting.take = "none"], "Script", s.script)
  ELSE s

(* next: kind, then the checked field; only then the cursor advances. *)
TakeNext(s, kind, of) ==
  LET t == TakeScriptStart(s)
      found == Kind(t.at)
  IN CASE t.failed # "none" -> t
       [] t.failed = "none" /\ found \in DOMAIN Terminal -> Fail(t, Terminal[found])
       [] t.failed = "none" /\ found = kind /\ log[t.at].of = of -> [t EXCEPT !.at = @ + 1]
       [] t.failed = "none" /\ found = kind /\ log[t.at].of # of -> Fail(t, "ArgumentMismatch")
       [] OTHER -> Fail(t, "ExtraRead")

(* onPageError: an error the log has not is no divergence. *)
PageError(s) == IF Kind(s.at) = "Error" THEN [s EXCEPT !.at = @ + 1] ELSE s

(* A divergence is thrown into the page's code, which ends there. *)
ReplayOperate(s, op) ==
  CASE s.failed # "none" -> s
    [] s.failed = "none" /\ op = "read" -> TakeNext(s, "Read", 0)
    [] s.failed = "none" /\ op = "throw" -> PageError(s)
    [] s.failed = "none" /\ op = "timer" ->
         LET t == TakeNext(s, "TaskReg", s.timers + 1)
         IN IF t.failed # "none" THEN t
            ELSE [t EXCEPT !.timers = @ + 1, !.registered = @ \cup {t.timers + 1}]
    [] OTHER -> Operate(s, op)

ReplayRun(s, owner) ==
  [FoldLeft(ReplayOperate, Begin(s, owner), CodeOf(page, owner)) EXCEPT !.script = 0]

-----------------------------------------------------------------------------
(* What holds the document. *)

(* As the page believes, and as the runner does.  A session is of level 0. *)
HeldByRunner(s, k) == k \notin s.flying /\ (k \in s.left \/ RecordsLoading)
Held(s, k) == k \notin s.flying /\ (k \in s.left \/ RunnerHolds)

ParserHeld(s) ==
  \/ s.gate
  \/ /\ s.doc.phase = 1
     /\ \E k \in PendingScripts(page, s.doc) :
          TypeOf(page, k) = "block" /\ HeldByRunner(s, k)

(* Mutated: the script let go stays among the held ones. *)
OpenScriptStillHeld(s, k, take) ==
  [s EXCEPT !.awaiting = [kind |-> "script", of |-> k, take |-> take],
            !.flying = @ \cup {k}]

OpenScript(s, k, take) ==
  [s EXCEPT !.awaiting = [kind |-> "script", of |-> k, take |-> take],
            !.left = @ \ {k}, !.flying = @ \cup {k}]

(* workAfter: the script whose DocTask 4 follows the records from `i` on,  *)
(* if nothing but reads is before it; 0 if there is none.                  *)
WorkAfter(i) ==
  LET past == {j \in i..Len(log) : log[j].kind \notin {"Read", "TaskReg"}}
      first == CHOOSE j \in past : \A m \in past : j <= m
      task == IF Kind(first) = "Loading" THEN first + 1 ELSE first
  IN IF past # {} /\ Kind(task) = "Settled" THEN log[task].of ELSE 0

(* Mutated: only a position, not a read, lets the parser past its gate. *)
MoveDocumentOnLocated(s, located) ==
  IF s.gate /\ located THEN [s EXCEPT !.gate = FALSE] ELSE s

(* moveDocumentOn: the record at the cursor needs the document to move on, *)
(* a read that was not made or (located) a Loading it is not yet at.       *)
MoveDocumentOn(s, located) ==
  LET d == s.doc
      work == WorkAfter(IF located THEN s.at + 1 ELSE s.at)
      start == IF located /\ Kind(s.at + 1) = "Script" THEN log[s.at + 1].of ELSE 0
      unheld == \E k \in PendingScripts(page, d) : ~HeldByRunner(s, k)
      stuck == \/ d.phase \in {1, 4}
               \/ d.phase = 2 /\ s.dclHeld /\ ~unheld
               \/ d.phase = 3 /\ s.loadHeld /\ ~unheld
  IN IF s.gate THEN [s EXCEPT !.gate = FALSE]
     ELSE IF d.phase = 1 /\ ~ParserHeld(s) THEN s
     ELSE IF work \in s.left THEN OpenScript(s, work, "settle")
     ELSE IF start \in s.left \cap PendingScripts(page, d) THEN OpenScript(s, start, "first")
     ELSE IF stuck THEN Fail(s, IF located THEN "TaskOrderMismatch" ELSE "MissingRead")
     ELSE s

-----------------------------------------------------------------------------
(* The scheduler: one step at a quiescent point.  Records that run no page *)
(* code are taken in a row.                                                *)

Running == rp.state = "running" /\ rp.failed = "none"
Due == Running /\ rp.awaiting = NoTask
Taken(s) == rp' = [s EXCEPT !.at = @ + 1, !.row = TRUE]
Waits(s) == rp' = [s EXCEPT !.row = FALSE]
Diverges(kind) == rp' = Fail(rp, kind)
Same == UNCHANGED <<page, live>>

Ends == Due /\ Now = "End" /\ rp' = [rp EXCEPT !.state = "done"] /\ Same
Stops == Due /\ Now \in DOMAIN Terminal /\ Diverges(Terminal[Now]) /\ Same

(* atLoading *)
TakesPosition ==
  /\ Due /\ Now = "Loading" /\ AtPosition(rp, rp.at)
  /\ IF Here.at.phase = 1 /\ ~ParserHeld(rp) THEN Waits(rp) ELSE Taken(rp)
  /\ Same
AwaitsPosition ==
  /\ Due /\ Now = "Loading" /\ ~AtPosition(rp, rp.at)
  /\ IF rp.doc.phase > Here.at.phase THEN Diverges("TaskOrderMismatch")
     ELSE Waits(MoveDocumentOn(rp, TRUE))
  /\ Same

(* letDocTaskGo: a script, past the gate if the parser has not reached it; *)
(* or one of the document's two events.                                    *)
LetsScriptGo ==
  /\ Due /\ Now \in {"Script", "Settled"}
  /\ LET k == Here.of
         opens == k \notin PendingScripts(page, rp.doc)
     IN Waits(OpenScript([rp EXCEPT !.at = @ + 1, !.gate = @ /\ ~opens], k, "none"))
  /\ Same
LetsDclGo ==
  /\ Due /\ Now = "DCL"
  /\ IF rp.doc.phase > 2 THEN Diverges("TaskOrderMismatch")
     ELSE Waits([rp EXCEPT !.at = @ + 1, !.dclHeld = FALSE,
                           !.awaiting = [NoTask EXCEPT !.kind = "dcl"]])
  /\ Same
(* Mutated: load is let go and not waited for. *)
LetsLoadGoAtOnce ==
  /\ Due /\ Now = "Load"
  /\ IF rp.doc.phase = 4 THEN Diverges("TaskOrderMismatch")
     ELSE Waits([rp EXCEPT !.at = @ + 1, !.loadHeld = FALSE])
  /\ Same

LetsLoadGo ==
  /\ Due /\ Now = "Load"
  /\ IF rp.doc.phase = 4 THEN Diverges("TaskOrderMismatch")
     ELSE Waits([rp EXCEPT !.at = @ + 1, !.loadHeld = FALSE,
                           !.awaiting = [NoTask EXCEPT !.kind = "load"]])
  /\ Same

(* compareCheckpoint *)
ComparesCheckpoint ==
  /\ Due /\ Now = "Checkpoint"
  /\ IF Here.at = Seen(page, rp.doc) THEN Taken(rp) ELSE Diverges("CheckpointMismatch")
  /\ Same

(* runTask: an input, with the Input after it, or what the page registered. *)
InjectsInput ==
  /\ Due /\ Now = "Task" /\ Here.of = 0
  /\ Waits(IF Kind(rp.at + 1) \in DOMAIN Terminal THEN Fail(rp, Terminal[Kind(rp.at + 1)])
           ELSE IF Kind(rp.at + 1) # "Input" THEN Fail(rp, "MissingRead")
           ELSE LET s == [rp EXCEPT !.at = @ + 2]
                IN IF rp.listening THEN ReplayRun(s, OnInput) ELSE s)
  /\ Same
ReleasesTask ==
  /\ Due /\ Now = "Task" /\ Here.of # 0
  /\ IF Here.of \in rp.registered
     THEN Waits(ReplayRun([rp EXCEPT !.at = @ + 1], OnTimer))
     ELSE Diverges("TaskOrderMismatch")
  /\ Same

MissesError == Due /\ Now = "Error" /\ Diverges("ErrorMismatch") /\ Same
MissesRead ==
  /\ Due /\ Now \in {"Read", "TaskReg"}
  /\ Waits(MoveDocumentOn(rp, FALSE))
  /\ Same

Schedule ==
  \/ Ends \/ Stops \/ TakesPosition \/ AwaitsPosition \/ LetsScriptGo \/ LetsDclGo
  \/ LetsLoadGo \/ ComparesCheckpoint \/ InjectsInput \/ ReleasesTask
  \/ MissesError \/ MissesRead

-----------------------------------------------------------------------------
(* The replayed document, while the scheduler waits. *)

Moves == Running /\ ~rp.row
GateDue == HasGates /\ AtBoundary(page, rp.doc) /\ rp.gated < rp.doc.parsed

(* The runner has the log, and what the document is served with follows    *)
(* from it.                                                                *)
ReplayBegins ==
  /\ ~live.open /\ rp.state = "waiting"
  /\ rp' = [rp EXCEPT !.state = "running",
                      !.left = {log[i].of : i \in {j \in DOMAIN log :
                                  log[j].kind \in {"Script", "Settled"}}},
                      !.dclHeld = "DCL" \in Kinds, !.loadHeld = "Load" \in Kinds]
  /\ Same

(* gate: the parser is held where the position at the cursor is this one,  *)
(* unless the script that was let go is to bring the document there.       *)
GateRuns ==
  /\ Moves /\ GateDue
  /\ LET holds == /\ ~rp.gate /\ rp.awaiting.take # "first"
                  /\ Now = "Loading" /\ Here.at.phase = 1 /\ AtPosition(rp, rp.at)
     IN rp' = [rp EXCEPT !.gated = rp.doc.parsed, !.gate = @ \/ holds]
  /\ Same

ReplayParser ==
  /\ Moves /\ ~rp.gate /\ ~GateDue
  /\ rp.doc.inText \/ AtBoundary(page, rp.doc)
  /\ rp' = [rp EXCEPT !.doc = ParserMoves(page, @)]
  /\ Same

ReplayInline ==
  /\ Moves /\ rp.doc.unrun
  /\ rp' = ReplayRun([rp EXCEPT !.doc.unrun = FALSE], rp.doc.parsed)
  /\ Same

(* The script runs; at its load event (scriptSettled) its DocTask 4 is     *)
(* taken, if it was let go for that.                                       *)
ReplayScript(k) ==
  /\ Moves /\ MayRun(page, rp.doc, k) /\ ~Held(rp, k)
  /\ LET ran == ReplayRun(rp, k)
         mine == ran.failed = "none" /\ ran.awaiting.kind = "script" /\ ran.awaiting.of = k
         told == IF mine /\ ran.awaiting.take = "settle" THEN TakeDocTask(ran, "Settled", k)
                 ELSE IF mine /\ ran.awaiting.take = "first" THEN Fail(ran, "TaskOrderMismatch")
                 ELSE ran
     IN rp' = [told EXCEPT !.awaiting = IF mine THEN NoTask ELSE @,
                           !.flying = @ \ {k}, !.doc.settled = @ \cup {k}]
  /\ Same

ReplayEvent(event, owner) ==
  rp' = ReplayRun([rp EXCEPT !.awaiting = IF @.kind = event THEN NoTask ELSE @,
                             !.doc.phase = @ + 1], owner)
ReplayDcl == Moves /\ MayFireDcl(page, rp.doc) /\ ~rp.dclHeld /\ ReplayEvent("dcl", OnDcl) /\ Same
ReplayLoad == Moves /\ MayFireLoad(page, rp.doc) /\ ~rp.loadHeld /\ ReplayEvent("load", OnLoad) /\ Same

-----------------------------------------------------------------------------
Init == InitRecording /\ rp = NewReplay

ReplayNext ==
  \/ ReplayBegins \/ Schedule \/ GateRuns \/ ReplayParser \/ ReplayInline
  \/ ReplayDcl \/ ReplayLoad
  \/ \E k \in DOMAIN page.tokens : ReplayScript(k)

Next == \/ RecordNext /\ UNCHANGED rp
        \/ ReplayNext

Spec == Init /\ [][Next]_vars

(* The scheduler looks again every few milliseconds, and what nothing      *)
(* holds goes on by itself: the replay does not stop while it has a step.  *)
FairSpec == Spec /\ WF_vars(ReplayNext)

-----------------------------------------------------------------------------
(* The replay's state has its types; a script is held, let go or settled,  *)
(* and a gate holds the parser only between two tokens (runtime.ts).       *)
TypeOK ==
  /\ page \in Pages
  /\ rp.state \in {"waiting", "running", "done"}
  /\ rp.at \in 1..(Len(log) + 1)
  /\ rp.left \cap rp.flying = {} /\ rp.flying \cap rp.doc.settled = {}
  /\ rp.gate => AtBoundary(page, rp.doc)

Done == rp.state = "done"
Both == DOMAIN rp.ran \cap DOMAIN live.ran

(* A replay that reports "done" ran everything the recorded session ran,   *)
(* in that order: no script, event, timer or input was let in early or     *)
(* late, though the parser and the network chose otherwise (atLoading,     *)
(* letDocTaskGo, gate).                                                    *)
RunsAsRecorded ==
  Done /\ RunnerHolds => /\ Len(live.ran) <= Len(rp.ran)
                         /\ \A i \in Both : rp.ran[i].who = live.ran[i].who

(* And each of them found the document as it was on record, also what no   *)
(* checkpoint compared.                                                    *)
FindsAsRecorded ==
  Done /\ RunnerHolds => \A i \in Both : rp.ran[i].saw = live.ran[i].saw

(* A replay that is "done" replayed the session: the same code, in the     *)
(* same order, over the same document.                                     *)
ReplaysTheSession == RunsAsRecorded /\ FindsAsRecorded

(* A recording that has everything, of a session that outlived the loading *)
(* and had no task where no gate can be, never diverges: whatever the      *)
(* replay holds back (the parser at a gate or a script, scripts, the two   *)
(* events) is let go when the log needs it (moveDocumentOn).               *)
Faithful == Kinds \cap DOMAIN Terminal = {} /\ live.doc.phase = 4 /\ ~live.between
Completes == Faithful => rp.failed = "none"

(* A replay ends or diverges: the scheduler and the document never wait    *)
(* for each other (moveDocumentOn).                                        *)
ReplayEnds == rp.state = "running" ~> Done \/ rp.failed # "none"
===============================================================================
