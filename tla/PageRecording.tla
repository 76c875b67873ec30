---------------------------- MODULE PageRecording -----------------------------
(***************************************************************************)
(* The recording of a page as it loads: what the recorder writes of each   *)
(* task, one after another (Recorder.tla has what happens inside one).     *)
(* The browser chooses the order: when the parser goes on, when a script   *)
(* arrives, a timer fires, an input comes, and when the session ends.      *)
(***************************************************************************)
EXTENDS LoadingPage

CONSTANTS
  MaxInputs,  \* bound: the inputs of a session
  Endings     \* how a log may end: "End", or the "Refusal" of a fault

ASSUME RecordingAssumption ==
  MaxInputs \in Nat /\ Endings \subseteq {"End", "Refusal"}

VARIABLES
  page,  \* the page loaded
  live   \* the page's state as it is recorded, and its log

(* A record: its kind, the script, timer or input it is about, and the     *)
(* position (of Loading) or document (of Checkpoint) it holds.  DocTask is *)
(* "Script" (kind 1), "Settled" (4), "DCL" (2) or "Load" (3).              *)
Record(kind, of, at) == [kind |-> kind, of |-> of, at |-> at]

(* `script` is the external script that runs, or 0.  For the properties:   *)
(* `ran` is what ran, in order, and the document it found; `between`, that *)
(* a position was measured where no gate can hold the parser, inside a run *)
(* of text or at an inline script that follows another.                    *)
NewPage ==
  [doc |-> NewDocument, log |-> <<>>, ran |-> <<>>, script |-> 0, announced |-> {},
   timers |-> 0, armed |-> {}, listening |-> FALSE, inputs |-> 0, between |-> FALSE,
   open |-> TRUE]

-----------------------------------------------------------------------------
(* The records. *)

Write(s, kind, of) == [s EXCEPT !.log = Append(@, Record(kind, of, <<>>))]

Between(d) ==
  \/ d.inText
  \/ LET n == Len(d.elements)
     IN d.unrun /\ n > 1 /\ IsInline(page, d.elements[n]) /\ IsInline(page, d.elements[n - 1])

(* macrotask: where the document is, unless it has loaded. *)
Located(s) ==
  IF s.doc.phase = 4 THEN s
  ELSE [s EXCEPT !.log = Append(@, Record("Loading", 0, Position(page, s.doc))),
                 !.between = @ \/ Between(s.doc)]

(* announce *)
Announce(s, kind, k) ==
  [Write(Located(s), kind, k) EXCEPT !.announced = @ \cup {k}]

(* beforeRecord, and the record. *)
Emit(s, kind, of) ==
  LET first == s.script > 0 /\ s.script \notin s.announced
  IN Write(IF first THEN Announce(s, "Script", s.script) ELSE s, kind, of)

(* What one operation of the page's code does. *)
Operate(s, op) ==
  CASE op = "read" -> Emit(s, "Read", 0)
    [] op = "throw" -> Emit(s, "Error", 0)
    [] op = "timer" -> [Emit(s, "TaskReg", s.timers + 1) EXCEPT
                          !.timers = @ + 1, !.armed = @ \cup {s.timers + 1}]
    [] op = "insert" -> [s EXCEPT !.doc.elements = Append(@, 0)]
    [] op = "listen" -> [s EXCEPT !.listening = TRUE]
    [] op = "await" -> [s EXCEPT !.script = 0]

Begin(s, owner) ==
  [s EXCEPT !.ran = Append(@, [who |-> owner, saw |-> Seen(page, s.doc)]),
            !.script = IF owner > 0 /\ TypeOf(page, owner) \in External THEN owner ELSE 0]
Run(s, owner) ==
  [FoldLeft(Operate, Begin(s, owner), CodeOf(page, owner)) EXCEPT !.script = 0]

(* task: the position, a checkpoint if one is due and the document is      *)
(* parsed, and the task.                                                   *)
TaskBegins(s, due, of) ==
  LET at == Located(s)
      checked == IF due /\ s.doc.phase # 1
                 THEN [at EXCEPT !.log = Append(@, Record("Checkpoint", 0, Seen(page, s.doc)))]
                 ELSE at
  IN Write(checked, "Task", of)

-----------------------------------------------------------------------------
InitRecording == page \in Pages /\ live = NewPage

Recording(step) == live.open /\ live' = step /\ UNCHANGED page

LiveParser ==
  /\ live.doc.inText \/ AtBoundary(page, live.doc)
  /\ Recording([live EXCEPT !.doc = ParserMoves(page, @)])

LiveInline ==
  /\ live.doc.unrun
  /\ Recording(Run([live EXCEPT !.doc.unrun = FALSE], live.doc.parsed))

(* It runs, and its load event says it settled: scriptSettled. *)
LiveScript(k) ==
  /\ MayRun(page, live.doc, k)
  /\ LET ran == Run(live, k)
         told == IF k \in ran.announced THEN ran ELSE Announce(ran, "Settled", k)
     IN Recording([told EXCEPT !.doc.settled = @ \cup {k}])

LiveEvent(kind, owner) ==
  Recording(Run([Write(Located(live), kind, 0) EXCEPT !.doc.phase = @ + 1], owner))
LiveDcl == MayFireDcl(page, live.doc) /\ LiveEvent("DCL", OnDcl)
LiveLoad == MayFireLoad(page, live.doc) /\ LiveEvent("Load", OnLoad)

LiveTimer(id) ==
  /\ id \in live.armed
  /\ \E due \in BOOLEAN :
       Recording(Run(TaskBegins([live EXCEPT !.armed = @ \ {id}], due, id), OnTimer))

(* An input's Task, of kind 5, is followed by its Input. *)
LiveInput ==
  /\ live.listening /\ live.inputs < MaxInputs
  /\ \E due \in BOOLEAN :
       Recording(Run(Write(TaskBegins([live EXCEPT !.inputs = @ + 1], due, 0),
                           "Input", 0), OnInput))

(* The session ends with End, or a fault's Refusal. *)
SessionEnds ==
  \E ending \in Endings : Recording([Write(live, ending, 0) EXCEPT !.open = FALSE])

RecordNext ==
  \/ LiveParser \/ LiveInline \/ LiveDcl \/ LiveLoad \/ LiveInput \/ SessionEnds
  \/ \E k \in DOMAIN page.tokens : LiveScript(k)
  \/ \E id \in live.armed : LiveTimer(id)
===============================================================================
