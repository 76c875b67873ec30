---------------------------- MODULE RangeReplay ----------------------------
(***************************************************************************)
(* The replay runner (boundary-replay/src/runner.ts): a session is         *)
(* replayed in a browser of the runner's, and a trace of it, or of a range *)
(* of it, is written by a record-web host.  A range is bounded at          *)
(* checkpoints of the recording's index, and only where no instrumented    *)
(* frame is open; which those are only a replay can tell, so a range whose *)
(* planned bounds have frames open is replayed a second time at the bounds *)
(* the first replay found.                                                 *)
(*                                                                         *)
(* A session is what its page does: "enter" and "ret" of an instrumented   *)
(* frame, a "read", which is a record and a step of the trace, and a       *)
(* "check", the record of a checkpoint.  Records are named by their seq.   *)
(***************************************************************************)
EXTENDS Naturals, Sequences, FiniteSets, SequencesExt

CONSTANTS MaxItems,   \* bound: what the page does before its session ends
          MaxDepth,   \* bound: the frames open at once
          Faults      \* the steps of the runner that may fail

VARIABLES session,    \* what the page did
          asked,      \* the range asked for, and whether a trace is
          step,       \* where the runner is
          attempt,    \* which replay this is
          planned,    \* the bounds it replays at
          at,         \* how much of the session the page has run again
          openFrames, status,
          held,       \* what the runner has running, or on disk
          out,        \* the file at the path the trace goes to
          report

runner == <<asked, step, attempt, planned, held, out, report>>
replayed == <<at, openFrames, status>>
vars == <<session, runner, replayed>>

none == 0              \* no row: the session's start, or End
Ranged(from, to) == [ranged |-> TRUE, from |-> from, to |-> to]
Full == [ranged |-> FALSE, from |-> none, to |-> none]

-----------------------------------------------------------------------------
(* The log and its checkpoint index.                                       *)
IsRecord(item) == item \in {"read", "check"}
seqAt(run, i) == Cardinality({j \in 1..i : IsRecord(run[j])})
lastSeq == seqAt(session, Len(session)) + 1       \* End is the last record
rows == LET checks == {i \in DOMAIN session : session[i] = "check"}
        IN SetToSortSeq({seqAt(session, i) : i \in checks}, <)

(* Mutated: the row at a bound counts as after it.                         *)
firstFrom(seq) ==
  LET from == {i \in DOMAIN rows : rows[i] >= seq}
  IN IF from = {} THEN Len(rows) + 1 ELSE CHOOSE i \in from : \A j \in from : i <= j
(* rangeBounds: the rows that bound seqFrom..seqTo, by binary search.      *)
firstAfter(seq) ==
  LET search[lo \in 1..(Len(rows) + 1), hi \in 1..(Len(rows) + 1)] ==
        LET mid == (lo + hi) \div 2
        IN IF lo >= hi THEN lo
           ELSE IF rows[mid] <= seq THEN search[mid + 1, hi] ELSE search[lo, mid]
  IN search[1, Len(rows) + 1]
RowAt(i) == IF i \in DOMAIN rows THEN rows[i] ELSE none
rangeBounds(seqFrom, seqTo) ==
  LET fromIndex == firstAfter(seqFrom) - 1
      after == firstAfter(seqTo - 1)
      toIndex == IF after <= fromIndex THEN fromIndex + 1 ELSE after
  IN Ranged(RowAt(fromIndex), RowAt(toIndex))
OutsideLog(seqFrom, seqTo) == seqFrom < 1 \/ seqTo < seqFrom \/ seqTo > lastSeq

(* Mutated: the checkpoint before, whatever frames are open there.         *)
anyBounds ==
  LET earlier == {c \in ToSet(status.checkpointTrace) : c.seq < planned.from}
      before == IF earlier = {} THEN none
                ELSE (CHOOSE c \in earlier : \A d \in earlier : d.seq <= c.seq).seq
  IN Ranged(IF planned.from # none /\ status.fromNotQuiescent
            THEN before ELSE planned.from,
            status.stoppedAt)
(* quiescentBounds: the bounds the replay found (its stop is the end).     *)
quiescentBounds ==
  LET earlier == {c \in ToSet(status.checkpointTrace) :
                    c.seq < planned.from /\ c.open = 0}
      before == IF earlier = {} THEN none
                ELSE (CHOOSE c \in earlier : \A d \in earlier : d.seq <= c.seq).seq
  IN Ranged(IF planned.from # none /\ status.fromNotQuiescent
            THEN before ELSE planned.from,
            status.stoppedAt)

-----------------------------------------------------------------------------
(* The page, and the replay runtime that emits what it does.               *)
newStatus(bounds) ==
  [state |-> "running", emitting |-> bounds.from = none,
   trace |-> <<>>, checkpointTrace |-> <<>>, fromNotQuiescent |-> FALSE,
   stoppedAt |-> none]

(* gateTrace, which only a replay with a trace host installs: its frames   *)
(* are counted whether emission is on or not.                              *)
gated ==
  [status EXCEPT !.trace = IF asked.out /\ status.emitting THEN Append(@, at + 1) ELSE @]
framesAfter(item) ==
  CASE asked.out /\ item = "enter" -> openFrames + 1
    [] asked.out /\ item = "ret" -> openFrames - 1
    [] OTHER -> openFrames

(* compareCheckpoint, and the step that stops at the range's end.          *)
compareCheckpoint ==
  LET seq == seqAt(session, at + 1)
      noted == [status EXCEPT
                  !.checkpointTrace = Append(@, [seq |-> seq, open |-> openFrames])]
      isFrom == planned.from = seq
      started == IF ~isFrom THEN noted
                 ELSE IF openFrames = 0 THEN [noted EXCEPT !.emitting = TRUE]
                 ELSE [noted EXCEPT !.fromNotQuiescent = TRUE]
      stops == planned.to # none /\ seq >= planned.to /\ openFrames = 0
  IN IF stops
     THEN [started EXCEPT !.emitting = FALSE, !.stoppedAt = seq, !.state = "done"]
     ELSE started

RunsAgain ==
  /\ step = "replaying" /\ status.state = "running" /\ at < Len(session)
  /\ LET item == session[at + 1] IN
     /\ openFrames' = framesAfter(item)
     /\ status' = IF item = "check" THEN compareCheckpoint ELSE gated
  /\ at' = at + 1
  /\ UNCHANGED <<session, runner>>
AtEnd ==
  /\ step = "replaying" /\ status.state = "running" /\ at = Len(session)
  /\ status' = [status EXCEPT !.state = "done"]
  /\ UNCHANGED <<session, runner, at, openFrames>>
Diverges ==
  /\ step = "replaying" /\ status.state = "running" /\ "divergence" \in Faults
  /\ status' = [status EXCEPT !.state = "diverged"]
  /\ UNCHANGED <<session, runner, at, openFrames>>

-----------------------------------------------------------------------------
(* Recording: what the page does.  A frame left open is one an exception   *)
(* left, or one whose await the session did not outlive.                   *)
OpenIn(run) == Cardinality({i \in DOMAIN run : run[i] = "enter"})
               - Cardinality({i \in DOMAIN run : run[i] = "ret"})
Record ==
  /\ step = "recording" /\ Len(session) < MaxItems
  /\ \E item \in {"enter", "ret", "read", "check"} :
       /\ item = "ret" => OpenIn(session) > 0
       /\ item = "enter" => OpenIn(session) < MaxDepth
       /\ session' = Append(session, item)
  /\ UNCHANGED <<runner, replayed>>

NoReport == [status |-> "error", output |-> FALSE, error |-> "none",
             widened |-> FALSE, range |-> Full, id |-> Full]

-----------------------------------------------------------------------------
(* Mutated: a second replay counts on from the frames of the first.        *)
BeginCounting(bounds) ==
  /\ planned' = bounds /\ attempt' = attempt + 1 /\ step' = "hashing"
  /\ at' = 0 /\ status' = newStatus(bounds) /\ UNCHANGED openFrames
  /\ report' = [NoReport EXCEPT !.range = bounds]
(* replaySession: the range is planned from the index, or refused.         *)
Begin(bounds) ==
  /\ planned' = bounds /\ attempt' = attempt + 1 /\ step' = "hashing"
  /\ at' = 0 /\ openFrames' = 0 /\ status' = newStatus(bounds)
  /\ report' = [NoReport EXCEPT !.range = bounds]

replaySession ==
  /\ step = "recording"
  /\ \E traced \in BOOLEAN :
       \/ /\ asked' = [range |-> FALSE, from |-> 1, to |-> lastSeq, out |-> traced]
          /\ Begin(Full)
       \/ \E seqFrom \in 0..lastSeq, seqTo \in 1..(lastSeq + 1) :
            /\ asked' = [range |-> TRUE, from |-> seqFrom, to |-> seqTo, out |-> traced]
            /\ IF OutsideLog(seqFrom, seqTo)
               THEN /\ report' = [NoReport EXCEPT !.error = "range"]
                    /\ step' = "over"
                    /\ UNCHANGED <<attempt, planned, replayed>>
               ELSE Begin(rangeBounds(seqFrom, seqTo))
  /\ UNCHANGED <<session, held, out>>

-----------------------------------------------------------------------------
(* replayOnce: its steps, each of which may fail; a failure goes to the    *)
(* cleanup of the finally block.                                           *)
Takes(what) == held' = held \cup {what}
Fails(fault, why) ==
  /\ fault \in Faults
  /\ report' = [report EXCEPT !.error = why] /\ step' = "cleaning"
  /\ UNCHANGED held
Same == UNCHANGED <<session, asked, attempt, planned, out, replayed>>

(* The build is the one the session ran, or nothing is replayed.           *)
BuildHash ==
  /\ step = "hashing"
  /\ \/ step' = "launching" /\ Takes("work") /\ UNCHANGED report
     \/ /\ "build" \in Faults
        /\ report' = [report EXCEPT !.status = "diverged", !.error = "BuildMismatch"]
        /\ step' = "over" /\ UNCHANGED held
  /\ Same
(* The browser is launched before the block that cleans up: one that does  *)
(* not start leaves the working directory, and replaySession rejects.      *)
LaunchBrowser ==
  /\ step = "launching"
  /\ \/ step' = (IF asked.out THEN "hosting" ELSE "refusing")
        /\ Takes("browser") /\ UNCHANGED report
     \/ /\ "launch" \in Faults
        /\ report' = [report EXCEPT !.error = "launch"]
        /\ step' = "over" /\ UNCHANGED held
  /\ Same
materialisedRecordingId == planned
startTraceHost ==
  /\ step = "hosting"
  /\ \/ /\ step' = "instrumenting" /\ Takes("host")
        /\ report' = [report EXCEPT !.id = materialisedRecordingId]
     \/ Fails("binary", "no session-manager")
     \/ Fails("host", "record-web exited, or did not start")
  /\ Same
instrumentTree ==
  /\ step = "instrumenting"
  /\ \/ step' = "refusing" /\ UNCHANGED <<held, report>>
     \/ Fails("instrument", "instrumenting the build failed")
  /\ Same
startRefuser ==
  /\ step = "refusing"
  /\ \/ step' = "opening" /\ Takes("refuser") /\ UNCHANGED report
     \/ Fails("refuser", "the proxy did not listen")
  /\ Same
newContext ==
  /\ step = "opening"
  /\ \/ step' = "going" /\ Takes("context") /\ UNCHANGED report
     \/ Fails("context", "no context")
  /\ Same
goto ==
  /\ step = "going"
  /\ \/ step' = "replaying" /\ UNCHANGED <<held, report>>
     \/ Fails("goto", "the page did not load")
  /\ Same

(* waitForReplay: the runner looks every 25 ms, until its deadline.        *)
waitForReplay ==
  /\ step = "replaying"
  /\ \/ /\ status.state = "done"
        /\ LET found == quiescentBounds
           IN IF planned.ranged /\ found # planned
              THEN /\ report' = [report EXCEPT !.widened = TRUE]
                   /\ step' = "cleaning"
              ELSE /\ step' = IF asked.out THEN "stopping" ELSE "replayed"
                   /\ UNCHANGED report
     \/ /\ status.state = "diverged"
        /\ report' = [report EXCEPT !.status = "diverged"] /\ step' = "cleaning"
     \/ /\ status.state = "running" /\ "timeout" \in Faults
        /\ report' = [report EXCEPT !.error = "timeout"] /\ step' = "cleaning"
  /\ UNCHANGED held /\ Same

(* The host writes the trace when the page stops it, or its connection     *)
(* closes with the context; it may write none.                             *)
writtenTrace ==
  /\ step = "stopping"
  /\ \/ step' = "copying" /\ UNCHANGED <<held, report>>
     \/ /\ "stop" \in Faults /\ step' = "copying"
        /\ held' = held \ {"context"} /\ UNCHANGED report
     \/ /\ "trace" \in Faults
        /\ report' = [report EXCEPT !.error = "record-web wrote no trace"]
        /\ held' = held \ {"context"} /\ step' = "cleaning"
  /\ Same
copyTrace ==
  /\ step = "copying"
  /\ \/ /\ out' = [out EXCEPT !.partial = TRUE]
        /\ step' = "renaming" /\ UNCHANGED <<held, report>>
     \/ Fails("copy", "copying the trace failed") /\ out' = [out EXCEPT !.partial = TRUE]
  /\ UNCHANGED <<session, asked, attempt, planned, replayed>>
renameTrace ==
  /\ step = "renaming"
  /\ out' = [partial |-> FALSE, whole |-> TRUE, trace |-> status.trace,
             bounds |-> planned]
  /\ report' = [report EXCEPT !.output = TRUE] /\ step' = "replayed"
  /\ UNCHANGED <<session, asked, attempt, planned, held, replayed>>
Replayed ==
  /\ step = "replayed"
  /\ report' = [report EXCEPT !.status = "replayed"] /\ step' = "cleaning"
  /\ UNCHANGED held /\ Same

(* Mutated: the trace host is left.                                        *)
leaveHost == held \ {"context", "browser", "refuser", "work"}
(* The finally block: context, browser, host, proxy, working directory.    *)
cleanUp == held \ {"context", "browser", "host", "refuser", "work"}

(* Back in replaySession: the second replay must find the bounds again.    *)
replayOnceReturns ==
  /\ step = "cleaning"
  /\ held' = cleanUp
  /\ IF report.widened /\ attempt = 1
     THEN Begin(quiescentBounds)
     ELSE /\ step' = "over"
          /\ report' = IF report.widened
                       THEN [report EXCEPT !.status = "error", !.error = "bounds"]
                       ELSE report
          /\ UNCHANGED <<attempt, planned, replayed>>
  /\ UNCHANGED <<session, asked, out>>

(* The runner's process is killed.                                         *)
Crash ==
  /\ step \notin {"recording", "over"} /\ "crash" \in Faults
  /\ step' = "over" /\ report' = [NoReport EXCEPT !.error = "crash"]
  /\ UNCHANGED <<session, asked, attempt, planned, held, out, replayed>>

-----------------------------------------------------------------------------
NoTrace == [partial |-> FALSE, whole |-> FALSE, trace |-> <<>>, bounds |-> Full]
RangeInit ==
  /\ session = <<>> /\ asked = [range |-> FALSE, from |-> 1, to |-> 1, out |-> FALSE]
  /\ step = "recording" /\ attempt = 0 /\ planned = Full
  /\ at = 0 /\ openFrames = 0 /\ status = newStatus(Full)
  /\ held = {} /\ out = NoTrace /\ report = NoReport
RangeNext ==
  \/ Record \/ replaySession
  \/ BuildHash \/ LaunchBrowser \/ startTraceHost \/ instrumentTree
  \/ startRefuser \/ newContext \/ goto
  \/ RunsAgain \/ AtEnd \/ Diverges \/ waitForReplay
  \/ writtenTrace \/ copyTrace \/ renameTrace \/ Replayed
  \/ replayOnceReturns \/ Crash
RangeSpec == RangeInit /\ [][RangeNext]_vars

-----------------------------------------------------------------------------
Bounds == [ranged : BOOLEAN, from : 0..(MaxItems + 1), to : 0..(MaxItems + 1)]
RangeTypeOK ==
  /\ session \in Seq({"enter", "ret", "read", "check"}) /\ at \in 0..Len(session)
  /\ asked \in [range : BOOLEAN, from : Nat, to : Nat, out : BOOLEAN]
  /\ attempt \in 0..2 /\ planned \in Bounds
  /\ openFrames \in 0..MaxDepth
  /\ held \subseteq {"work", "browser", "host", "refuser", "context"}
  /\ status.state \in {"running", "done", "diverged"}
  /\ report.status \in {"error", "diverged", "replayed"}

(* The items of the session between two bounds, and the frames open at one. *)
ItemsBetween(bounds) ==
  {i \in DOMAIN session :
     /\ session[i] # "check"
     /\ bounds.from # none => seqAt(session, i) >= bounds.from
     /\ bounds.to # none => seqAt(session, i) < bounds.to}
OpenAt(seq) ==
  LET before(what) == Cardinality({i \in DOMAIN session :
                                     session[i] = what /\ seqAt(session, i) < seq})
  IN before("enter") - before("ret")
Quiescent == {seq \in ToSet(rows) : OpenAt(seq) = 0}
Tightest(bounds) ==
  LET starts == {seq \in Quiescent : seq <= asked.from}
      ends == {seq \in Quiescent :
                 /\ seq >= asked.to
                 /\ \E row \in ToSet(rows) \cup {none} :
                      row < seq /\ \A other \in ToSet(rows) : other <= asked.from => other <= row}
  IN /\ IF starts = {} THEN bounds.from = none
        ELSE bounds.from \in starts /\ \A seq \in starts : seq <= bounds.from
     /\ IF ends = {} THEN bounds.to = none
        ELSE bounds.to \in ends /\ \A seq \in ends : bounds.to <= seq

(* The trace at the path holds what a full trace holds between its bounds, *)
(* which are the nearest checkpoints around the range asked for where no   *)
(* frame is open, and its recording id and report name those bounds        *)
(* (replaySession, gateTrace, step, materialisedRecordingId).              *)
TraceIsTheRange ==
  out.whole =>
    /\ out.trace = SetToSortSeq(ItemsBetween(out.bounds), <)
    /\ IF asked.range THEN Tightest(out.bounds) ELSE out.bounds = Full
    /\ report.error # "crash" => report.id = out.bounds /\ report.range = out.bounds

(* The second replay of a session that replays as it ran always finds the  *)
(* bounds of the first: "the replay did not stop at the same quiescent     *)
(* checkpoints twice" is for one that does not (replaySession).            *)
BoundsFoundAgain == report.error # "bounds"

(* However a replay ends, the runner's browser, host, proxy, context and   *)
(* directory are gone, and the file at the path is the whole trace of a    *)
(* replay that succeeded or is left as it was.  (A browser that does not   *)
(* start leaves the directory, a killed runner what it had.)               *)
EndsClean ==
  step = "over" =>
    /\ report.error \notin {"launch", "crash"} => held = {}
    /\ report.error # "crash" => (out.whole <=> report.output)
    /\ report.output => report.status = "replayed" /\ asked.out
    /\ report.status = "replayed" => report.output = asked.out
=============================================================================
