----------------------------- MODULE SeamSession -----------------------------
(***************************************************************************)
(* A session as the shim's seams see it, and its replay.                   *)
(*                                                                         *)
(* While it is recorded, the page runs in turns (a script, a task), and    *)
(* does in each what it likes; a seam performs the platform's operation    *)
(* and writes what the page got (packages/boundary-shim/src/browser).  On  *)
(* replay the page is the same program: it does in each turn what it did   *)
(* there as long as it is given and sees the same, and a seam asks the     *)
(* log's cursor for the record it wrote (boundary-shim's replay, `next`    *)
(* and the scheduler of boundary-replay/src/browser/runtime.ts).           *)
(*                                                                         *)
(* A record is its kind, the task it names, the query it answers and the   *)
(* value it carries; all but the value is checked.                         *)
(***************************************************************************)
EXTENDS Integers, Sequences, Functions

CONSTANTS MaxTurns, MaxOps  \* bounds: the turns recorded, and the page's steps

VARIABLES
  phase,     \* record, then replay
  log, nextTask,
  script,    \* ghost: the turns recorded, and what the page did and saw in each
  turn,      \* whether page code runs
  at, turnNo, opNo,  \* the replay's cursor, and how far its page is
  verdict    \* of the replay

session == <<phase, log, nextTask, script, turn, at, turnNo, opNo, verdict>>

Rec(kind, id, query, value) ==
  [rec |-> kind, id |-> id, query |-> query, value |-> value]
None == "none"
End == Rec("End", 0, None, None)
Refusal == Rec("Refusal", 0, None, None)
TaskReg(id, kind) == Rec("TaskReg", id, kind, None)
Task(id, kind) == Rec("Task", id, kind, None)

Turn(id, part, given) == [id |-> id, part |-> part, given |-> given, ops |-> <<>>]


OpsOf(turns) == FoldFunction(+, 0, [i \in DOMAIN turns |-> Len(turns[i].ops)])

SessionInit ==
  /\ phase = "record" /\ log = <<>> /\ nextTask = 1
  /\ script = <<Turn(0, "script", None)>> /\ turn = TRUE
  /\ at = 1 /\ turnNo = 1 /\ opNo = 0 /\ verdict = "running"

-----------------------------------------------------------------------------
(* Recording. *)
Recording == phase = "record"
PageRuns == Recording /\ turn /\ OpsOf(script) < MaxOps
PlatformActs == Recording /\ ~turn

(* A step of the page: what it did, what it saw, what the seam wrote, and  *)
(* how many task ids it minted.                                            *)
Does(op, saw, written, ids) ==
  /\ script' = [script EXCEPT ![Len(script)].ops = Append(@, [op |-> op, saw |-> saw])]
  /\ log' = log \o written /\ nextTask' = nextTask + ids
  /\ UNCHANGED <<phase, turn, at, turnNo, opNo, verdict>>

(* A turn of the page's code begins. *)
Begins(id, part, given, written, ids) ==
  /\ Len(script) < MaxTurns
  /\ script' = Append(script, Turn(id, part, given)) /\ turn' = TRUE
  /\ log' = log \o written /\ nextTask' = nextTask + ids
  /\ UNCHANGED <<phase, at, turnNo, opNo, verdict>>

TurnOver ==
  /\ Recording /\ turn /\ turn' = FALSE
  /\ UNCHANGED <<phase, log, nextTask, script, at, turnNo, opNo, verdict>>

(* The recorder stops, be it while page code runs; the replay's page is    *)
(* loaded, and its first script starts.                                    *)
Stop ==
  /\ Recording /\ phase' = "replay"
  /\ log' = Append(log, End) /\ nextTask' = 1 /\ turn' = TRUE
  /\ UNCHANGED <<script, at, turnNo, opNo, verdict>>

-----------------------------------------------------------------------------
(* Replay. *)
Replaying == phase = "replay" /\ verdict = "running"
Cursor == log[at]
ThisTurn == script[turnNo]
HasOp == opNo < Len(ThisTurn.ops)
ThisOp == ThisTurn.ops[opNo + 1]
PageReplays(op) == Replaying /\ turn /\ HasOp /\ ThisOp.op = op
PageIdle == Replaying /\ ~turn

Ends(how) ==
  /\ verdict' = how
  /\ UNCHANGED <<phase, log, nextTask, script, turn, at, turnNo, opNo>>

(* The log ends, or was refused, where the page asks for a record. *)
Terminal == IF Cursor = End THEN "done" ELSE "non-replayable"
Terminated == Cursor \in {End, Refusal}

Checked(r) == [r EXCEPT !.value = None]

(* `asked`, the records the seam asks for in turn. *)
Matches(asked) ==
  /\ at + Len(asked) <= Len(log)
  /\ \A i \in DOMAIN asked : Checked(log[at + i - 1]) = Checked(asked[i])
(* They are there and `saw` is what the page gets of them: it goes on as   *)
(* recorded, or, when it got something else, as another page.              *)
Replays(asked, saw, ids) ==
  /\ at' = at + Len(asked) /\ nextTask' = nextTask + ids /\ opNo' = opNo + 1
  /\ verdict' = IF saw = ThisOp.saw THEN verdict ELSE "astray"
  /\ UNCHANGED <<phase, log, script, turn, turnNo>>

(* The first of `asked` that the cursor does not match: the log's end, its *)
(* refusal, or a divergence.                                               *)
Diverges(asked) ==
  /\ ~Matches(asked)
  /\ LET i == CHOOSE j \in DOMAIN asked :
                /\ Checked(log[at + j - 1]) # Checked(asked[j])
                /\ \A k \in 1..(j - 1) : Checked(log[at + k - 1]) = Checked(asked[k])
     IN Ends(CASE log[at + i - 1] = End -> "done"
               [] log[at + i - 1] = Refusal -> "non-replayable"
               [] OTHER -> "diverged")

(* The page's next turn, begun by the replay: that of the recorded page?   *)
BeginsAgain(id, part, given, taken, ids) ==
  /\ at' = at + taken /\ nextTask' = nextTask + ids /\ turn' = TRUE /\ turnNo' = turnNo + 1 /\ opNo' = 0
  /\ verdict' =
       IF /\ turnNo < Len(script)
          /\ script[turnNo + 1] = [Turn(id, part, given) EXCEPT
                                     !.ops = script[turnNo + 1].ops]
       THEN verdict ELSE "astray"
  /\ UNCHANGED <<phase, log, script>>

TurnOverAgain ==
  /\ Replaying /\ turn /\ ~HasOp /\ turn' = FALSE
  /\ UNCHANGED <<phase, log, nextTask, script, at, turnNo, opNo, verdict>>

Over == phase = "replay" /\ verdict # "running"
=============================================================================
