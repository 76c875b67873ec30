------------------------------- MODULE Recorder -------------------------------
(***************************************************************************)
(* Recorder (packages/boundary-shim/src/browser/recorder.ts) and the       *)
(* record of the document's own loading that is attached to it             *)
(* (recordDocumentProgress, document-progress.ts).                         *)
(*                                                                         *)
(* The page is single threaded, so a public call runs alone; but it calls  *)
(* out, to the sanitizer, the checkpoint's providers, the conversion of an *)
(* error to text and the sink, and each of those may call back into the    *)
(* recorder, return or throw.  `stack` holds what is left to do of the     *)
(* calls under way, the next thing first: a step takes the first item      *)
(* and puts in its place what it does next.  An item in Outside is a call  *)
(* to the outside that has not returned; Guard is where guard catches what *)
(* `thrown` says is thrown.                                                *)
(***************************************************************************)
EXTENDS Integers, Sequences, FiniteSets

CONSTANTS
  MaxSeq,             \* bound: records are begun while nextSeq is no larger
  MaxDepth,           \* bound: the calls to the outside under way at once
  CheckpointRecords,  \* CHECKPOINT_RECORDS
  Scripts,            \* the document's external scripts
  Calls               \* what the outside calls back: see CallBack

ASSUME BoundsAssumption ==
  /\ MaxSeq \in Nat /\ MaxDepth \in Nat
  /\ CheckpointRecords \in Nat \ {0}
ASSUME ScriptsAssumption == "none" \notin Scripts
ASSUME CallsAssumption == Calls \subseteq {"emit", "fault", "halt", "end"}

VARIABLES
  state,        \* "recording", "faulted", "ended"
  inFault,      \* inFault
  nextSeq,      \* nextSeq
  ordinal,      \* checkpointOrdinal
  since,        \* recordsSinceCheckpoint
  ripe,         \* CHECKPOINT_RECORDED_MS have passed since the last checkpoint
  loading,      \* the document's phase: 1, 2, 3, or 4 once loaded
  running,      \* the external script running, or "none"
  announced,    \* the scripts with a DocTask
  settled,      \* the scripts whose load or error was dispatched
  log,          \* the frames the sink took, or the recorder kept
  halts,        \* how often the sink was halted
  stack, thrown

recorder == <<state, inFault, nextSeq, ordinal, since, ripe>>
document == <<loading, running, announced, settled>>
calls == <<stack, thrown>>
vars == <<recorder, document, log, halts, calls>>

-----------------------------------------------------------------------------
Recording == state = "recording"

Unnumbered == {"Header", "Env"}

(* What is left to do, and what the log holds.  `n` is a checkpoint's      *)
(* ordinal or End's last_seq; `script` the one a DocTask names, or the one *)
(* whose code a Read is; `where`, of the log, is the document's phase.     *)
Item(do, kind, n, script) == [do |-> do, kind |-> kind, n |-> n, script |-> script]
Step(do) == Item(do, "none", 0, "none")
Emit(kind) == Item("emit", kind, 0, "none")
Frame(kind, seq, n, script) ==
  [kind |-> kind, seq |-> seq, n |-> n, script |-> script, where |-> loading]

Outside == {"sanitize", "append", "hash", "digest", "describe", "refuse",
            "sanitizeEnd", "sinkEnd", "halting"}

Now == stack[1]
Doing(do) == stack # <<>> /\ ~thrown /\ Now.do = do
Then(items) == stack' = items \o Tail(stack) /\ thrown' = thrown
Throws == stack' = Tail(stack) /\ thrown' = TRUE

(* The public calls, each as what it has to do. *)
Guarded(items) == Append(items, Step("guard"))
Start == Guarded(<<Emit("Header"), Emit("Env")>>)
TaskCall == Guarded(<<Step("macrotask"), Step("due"), Emit("Task")>>)
EndCall == Guarded(<<Step("final"), Step("encodeEnd")>>)
(* progress.macrotask and announce: Loading unless loaded, then DocTask. *)
Loading == IF loading < 4 THEN <<Emit("Loading")>> ELSE <<>>
Announce(s) == Append(Loading, Item("emit", "DocTask", 0, s))

-----------------------------------------------------------------------------
(* emit and push.  A DocTask for a script that runs precedes its first     *)
(* record; `script` of the item tells the page's own record from one a     *)
(* callback writes.                                                        *)
EmitBegins ==
  /\ Doing("emit")
  /\ LET own == Now.kind \notin Unnumbered \cup {"Loading", "DocTask"}
         first == own /\ running # "none" /\ running \notin announced
     IN /\ announced' = IF Recording /\ first THEN announced \cup {running}
                                             ELSE announced
        /\ Then(IF ~Recording THEN <<>>
                ELSE (IF first THEN Announce(running) ELSE <<>>)
                     \o <<[Now EXCEPT !.do = "encode"]>>)
  /\ UNCHANGED <<recorder, loading, running, settled, log, halts>>

(* The record is made, and encode calls the sanitizer. *)
Encode ==
  /\ Doing("encode")
  /\ Then(IF Recording THEN <<[Now EXCEPT !.do = "sanitize"]>> ELSE <<>>)
  /\ UNCHANGED <<recorder, document, log, halts>>

(* Mutated: the state is not checked again after the sanitizer. *)
SanitizedUnchecked ==
  /\ Doing("sanitize")
  /\ \/ LET numbered == Now.kind \notin Unnumbered
        IN /\ nextSeq' = IF numbered THEN nextSeq + 1 ELSE nextSeq
           /\ log' = Append(log, Frame(Now.kind, IF numbered THEN nextSeq ELSE 0,
                                       Now.n, Now.script))
           /\ Then(<<[Now EXCEPT !.do = "append",
                                 !.n = IF numbered THEN nextSeq ELSE 0]>>)
     \/ Throws /\ UNCHANGED <<log, nextSeq>>
  /\ UNCHANGED <<state, inFault, ordinal, since, ripe, document, halts>>

(* The sanitizer returned: the record is numbered and encoded, and the     *)
(* sink takes it, with more to do in its append, or rejects it at once.    *)
Sanitized ==
  /\ Doing("sanitize")
  /\ \/ /\ ~Recording /\ Then(<<>>)
        /\ UNCHANGED <<log, nextSeq>>
     \/ /\ Recording
        /\ LET numbered == Now.kind \notin Unnumbered
           IN /\ nextSeq' = IF numbered THEN nextSeq + 1 ELSE nextSeq
              /\ log' = Append(log, Frame(Now.kind, IF numbered THEN nextSeq ELSE 0,
                                          Now.n, Now.script))
              /\ Then(<<[Now EXCEPT !.do = "append",
                                    !.n = IF numbered THEN nextSeq ELSE 0]>>)
     \/ /\ Throws  \* the encoder's, or the sink's
        /\ UNCHANGED <<log, nextSeq>>
  /\ UNCHANGED <<state, inFault, ordinal, since, ripe, document, halts>>

(* The sink returned.  A Clock may make a checkpoint due by its time.      *)
Appended ==
  /\ Doing("append")
  /\ LET counts == Recording /\ Now.kind \notin Unnumbered
     IN /\ since' = IF ~counts THEN since
                    ELSE IF Now.kind = "Checkpoint" THEN 0 ELSE since + 1
        /\ ripe' \in IF counts /\ Now.kind = "Read" THEN {ripe, TRUE} ELSE {ripe}
  /\ Then(<<>>)
  /\ UNCHANGED <<state, inFault, nextSeq, ordinal, document, log, halts>>

-----------------------------------------------------------------------------
(* Tasks and checkpoints.                                                  *)

(* Mutated: a task begins without the document's position. *)
MacrotaskUnlocated ==
  /\ Doing("macrotask")
  /\ Then(<<>>)
  /\ UNCHANGED <<recorder, document, log, halts>>

(* Where the document is, while it loads. *)
Macrotask ==
  /\ Doing("macrotask")
  /\ Then(IF Recording THEN Loading ELSE <<>>)
  /\ UNCHANGED <<recorder, document, log, halts>>

(* Mutated: a checkpoint may be taken at any time. *)
AllowedAlways == loading >= 1
Allowed == loading # 1  \* checkpointsAllowed

(* macrotask's checkpointDue, and end's: whether to call the hash provider. *)
(* An import's task, begun in a task of the platform's that ran page code   *)
(* already (taskWithoutCheckpoint), never does.                             *)
CheckpointBegins ==
  /\ Doing("due") \/ Doing("final")
  /\ LET due == /\ Recording /\ since > 0 /\ Allowed
                /\ Now.do = "due" => since >= CheckpointRecords \/ ripe
     IN \/ Then(IF due THEN <<Step("hash")>> ELSE <<>>)
        \/ Now.do = "due" /\ Then(<<>>)
  /\ UNCHANGED <<recorder, document, log, halts>>

Hashed ==
  /\ Doing("hash")
  /\ Then(IF Recording THEN <<Step("digest")>> ELSE <<>>)
  /\ UNCHANGED <<recorder, document, log, halts>>

Digested ==
  /\ Doing("digest")
  /\ Then(<<Item("emit", "Checkpoint", ordinal, "none"), Step("checkpointed")>>)
  /\ UNCHANGED <<recorder, document, log, halts>>

Checkpointed ==
  /\ Doing("checkpointed")
  /\ ordinal' = IF Recording THEN ordinal + 1 ELSE ordinal
  /\ ripe' = (ripe /\ ~Recording)
  /\ Then(<<>>)
  /\ UNCHANGED <<state, inFault, nextSeq, since, document, log, halts>>

-----------------------------------------------------------------------------
(* end.                                                                    *)

EndBegins ==
  /\ Doing("encodeEnd")
  /\ Then(IF Recording THEN <<Step("sanitizeEnd")>> ELSE <<>>)
  /\ UNCHANGED <<recorder, document, log, halts>>

(* The session is closed before End is delivered, whether or not the sink  *)
(* takes it. *)
EndSanitized ==
  /\ Doing("sanitizeEnd")
  /\ \/ ~Recording /\ Then(<<>>) /\ UNCHANGED <<state, log>>
     \/ /\ Recording /\ state' = "ended"
        /\ Then(<<Step("sinkEnd")>>)
        /\ log' \in {log, Append(log, Frame("End", 0, nextSeq - 1, "none"))}
     \/ Throws /\ UNCHANGED <<state, log>>  \* the encoder's
  /\ UNCHANGED <<inFault, nextSeq, ordinal, since, ripe, document, halts>>

EndDelivered ==
  /\ Doing("sinkEnd")
  /\ \/ Then(<<>>) /\ UNCHANGED state
     \/ state' = "faulted" /\ Then(<<Step("haltSink"), Step("rethrow")>>)
  /\ UNCHANGED <<inFault, nextSeq, ordinal, since, ripe, document, log, halts>>

Rethrow ==
  /\ Doing("rethrow") /\ Throws
  /\ UNCHANGED <<recorder, document, log, halts>>

-----------------------------------------------------------------------------
(* guard and fault.                                                        *)

Faults == <<Step("describe"), Step("haltSink")>>

(* Mutated: an exception faults a session that is closed already. *)
GuardAlwaysFaults ==
  /\ stack # <<>> /\ Now.do = "guard"
  /\ thrown' = FALSE
  /\ stack' = (IF thrown THEN Faults ELSE <<>>) \o Tail(stack)
  /\ state' = IF thrown THEN "faulted" ELSE state
  /\ inFault' = (inFault \/ thrown)
  /\ UNCHANGED <<nextSeq, ordinal, since, ripe, document, log, halts>>

Guard ==
  /\ stack # <<>> /\ Now.do = "guard"
  /\ LET faults == thrown /\ ~inFault /\ Recording
     IN /\ thrown' = FALSE
        /\ stack' = (IF faults THEN Faults ELSE <<>>) \o Tail(stack)
        /\ state' = IF faults THEN "faulted" ELSE state
        /\ inFault' = (inFault \/ faults)
  /\ UNCHANGED <<nextSeq, ordinal, since, ripe, document, log, halts>>

(* What was thrown leaves the call under way, up to guard or a callback. *)
Unwind ==
  /\ thrown /\ stack # <<>> /\ Now.do \notin Outside \cup {"guard"}
  /\ Throws
  /\ UNCHANGED <<recorder, document, log, halts>>

(* The error was described (a conversion that throws is caught): the sink  *)
(* takes the refusal, or nothing takes it.                                 *)
Described ==
  /\ Doing("describe")
  /\ \/ /\ log' = Append(log, Frame("Fault", nextSeq, 0, "none"))
        /\ Then(<<Step("refuse")>>)
     \/ log' = log /\ Then(<<>>)
  /\ UNCHANGED <<recorder, document, halts>>

RefusalTaken ==
  /\ Doing("refuse") /\ Then(<<>>)
  /\ nextSeq' \in {nextSeq, nextSeq + 1}  \* not where the sink throws
  /\ UNCHANGED <<state, inFault, ordinal, since, ripe, document, log, halts>>

HaltSink ==
  /\ Doing("haltSink")
  /\ inFault' = FALSE /\ halts' = halts + 1
  /\ Then(<<Step("halting")>>)
  /\ UNCHANGED <<state, nextSeq, ordinal, since, ripe, document, log>>

(* Mutated: what the sink's halt throws is not caught. *)
SinkHaltedUncaught ==
  /\ Doing("halting") /\ (Then(<<>>) \/ Throws)
  /\ UNCHANGED <<recorder, document, log, halts>>

SinkHalted ==
  /\ Doing("halting") /\ Then(<<>>)  \* or throws, which is caught
  /\ UNCHANGED <<recorder, document, log, halts>>

-----------------------------------------------------------------------------
(* The outside (external): what it calls back, and what it throws, or lets *)
(* a call of its own throw.                                                *)

OutsideNow == stack # <<>> /\ Now.do \in Outside
Depth == Cardinality({i \in DOMAIN stack : stack[i].do \in Outside})

Started == Len(log) >= 2  \* nothing is written before Header and Env
CallBack ==
  /\ OutsideNow /\ ~thrown /\ Recording /\ Depth <= MaxDepth
  /\ \/ /\ "emit" \in Calls /\ Started /\ nextSeq <= MaxSeq
        /\ stack' = <<Emit("Read")>> \o stack
        /\ UNCHANGED <<state, inFault>>
     \/ /\ "end" \in Calls /\ Started
        /\ \A i \in DOMAIN stack : stack[i].do # "append"  \* no sink ends it
        /\ stack' = EndCall \o stack
        /\ UNCHANGED <<state, inFault>>
     \/ /\ "fault" \in Calls
        /\ state' = "faulted" /\ inFault' = TRUE
        /\ stack' = Faults \o stack
     \/ /\ "halt" \in Calls
        /\ state' = "ended"
        /\ UNCHANGED <<inFault, stack>>
  /\ UNCHANGED <<nextSeq, ordinal, since, ripe, document, log, halts, thrown>>

(* A sink that took a frame throws only where it changed the session. *)
CallbackThrows ==
  /\ OutsideNow /\ Now.do \in {"sanitize", "append", "hash", "digest", "sanitizeEnd"}
  /\ Now.do = "append" => thrown \/ ~Recording \/ (Now.n > 0 /\ nextSeq > Now.n + 1)
  /\ Throws
  /\ UNCHANGED <<recorder, document, log, halts>>

CallbackCatches ==
  /\ OutsideNow /\ thrown /\ thrown' = FALSE
  /\ UNCHANGED <<recorder, document, log, halts, stack>>

-----------------------------------------------------------------------------
(* The page and the browser, where no call is under way.                   *)

Quiet == stack = <<>>
Calling(items) == stack' = items /\ thrown' = thrown

Init ==
  /\ state = "recording" /\ inFault = FALSE /\ nextSeq = 1 /\ ordinal = 0
  /\ since = 0 /\ ripe = FALSE
  /\ loading = 1 /\ running = "none" /\ announced = {} /\ settled = {}
  /\ log = <<>> /\ halts = 0 /\ stack = Start /\ thrown = FALSE

(* The page reads the clock, a response, a random number: one record. *)
PageReads ==
  /\ Quiet /\ Recording /\ nextSeq <= MaxSeq
  /\ Calling(Guarded(<<Item("emit", "Read", 0, running)>>))
  /\ UNCHANGED <<recorder, document, log, halts>>

(* A timer, a response, an input: a task of the page begins. *)
TaskBegins ==
  /\ Quiet /\ Recording /\ running = "none" /\ nextSeq <= MaxSeq
  /\ Calling(TaskCall)
  /\ UNCHANGED <<recorder, document, log, halts>>

ScriptRuns(s) ==
  /\ Quiet /\ running = "none" /\ s \notin settled /\ loading < 4
  /\ running' = s
  /\ UNCHANGED <<recorder, loading, announced, settled, log, halts, calls>>

(* Mutated: a script that announced itself is announced again. *)
ScriptSettlesAgain ==
  /\ Quiet /\ running # "none"
  /\ settled' = settled \cup {running} /\ running' = "none"
  /\ announced' = IF Recording THEN announced \cup {running} ELSE announced
  /\ Calling(IF Recording THEN Guarded(Announce(running)) ELSE <<>>)
  /\ UNCHANGED <<recorder, loading, log, halts>>

(* It ran to its end, and its load is dispatched: scriptSettled. *)
ScriptSettles ==
  /\ Quiet /\ running # "none"
  /\ settled' = settled \cup {running} /\ running' = "none"
  /\ LET first == Recording /\ running \notin announced
     IN /\ announced' = IF first THEN announced \cup {running} ELSE announced
        /\ Calling(IF first THEN Guarded(Announce(running)) ELSE <<>>)
  /\ UNCHANGED <<recorder, loading, log, halts>>

(* The parser is done; DOMContentLoaded; load.  The last two are recorded, *)
(* and counted as dispatched only after.                                   *)
Parsed ==
  /\ Quiet /\ running = "none" /\ loading = 1 /\ loading' = 2
  /\ UNCHANGED <<recorder, running, announced, settled, log, halts, calls>>
(* Mutated: load is recorded for readystatechange, and again for itself. *)
DispatchesAgain ==
  /\ Quiet /\ running = "none" /\ loading \in {2, 3, 4}
  /\ Calling((IF Recording THEN Guarded(Announce("none")) ELSE <<>>)
             \o <<Step("mark")>>)
  /\ UNCHANGED <<recorder, document, log, halts>>

Dispatches ==
  /\ Quiet /\ running = "none" /\ loading \in {2, 3}
  /\ Calling((IF Recording THEN Guarded(Announce("none")) ELSE <<>>)
             \o <<Step("mark")>>)
  /\ UNCHANGED <<recorder, document, log, halts>>
Mark ==
  /\ Doing("mark") /\ loading' = loading + 1 /\ Then(<<>>)
  /\ UNCHANGED <<recorder, running, announced, settled, log, halts>>

(* control.stop(), or pagehide; the transport turns off; a seam throws. *)
PageEnds ==
  /\ Quiet /\ Recording /\ Calling(EndCall)
  /\ UNCHANGED <<recorder, document, log, halts>>
Halt ==
  /\ Quiet /\ Recording /\ state' = "ended"
  /\ UNCHANGED <<inFault, nextSeq, ordinal, since, ripe, document, log, halts, calls>>
SeamThrows ==
  /\ Quiet /\ Recording /\ stack' = <<Step("guard")>> /\ thrown' = TRUE
  /\ UNCHANGED <<recorder, document, log, halts>>

-----------------------------------------------------------------------------
Returns ==
  \/ Sanitized \/ Appended \/ Hashed \/ Digested \/ EndSanitized \/ EndDelivered
  \/ Described \/ RefusalTaken \/ SinkHalted
Runs ==
  \/ EmitBegins \/ Encode \/ Macrotask \/ CheckpointBegins \/ Checkpointed
  \/ EndBegins \/ Rethrow \/ Guard \/ Unwind \/ HaltSink \/ Mark
Outsiders == CallBack \/ CallbackThrows \/ CallbackCatches
Page ==
  \/ PageReads \/ TaskBegins \/ (\E s \in Scripts : ScriptRuns(s)) \/ ScriptSettles
  \/ Parsed \/ Dispatches \/ PageEnds \/ Halt \/ SeamThrows

Next == Returns \/ Runs \/ Outsiders \/ Page
Spec == Init /\ [][Next]_vars

-----------------------------------------------------------------------------
(* The variables have their types. *)
TypeOK ==
  /\ state \in {"recording", "faulted", "ended"}
  /\ inFault \in BOOLEAN /\ ripe \in BOOLEAN /\ thrown \in BOOLEAN
  /\ nextSeq \in Nat \ {0} /\ ordinal \in Nat /\ since \in Nat /\ halts \in Nat
  /\ loading \in 1..4 /\ running \in Scripts \cup {"none"}
  /\ announced \subseteq Scripts /\ settled \subseteq Scripts

(* The recorder never throws into the page. *)
NeverThrows == Quiet => ~thrown

(* A sink whose recorder faulted is halted once the fault is done with,    *)
(* and no sink is halted twice, or for a session that did not fault.       *)
SinkHaltedOnce ==
  /\ halts <= 1
  /\ halts = 1 => state = "faulted"
  /\ Quiet /\ state = "faulted" => halts = 1

(* A script's own records come after its DocTask, which is its only one;   *)
(* and while the session records, every script that ran has one.           *)
ScriptsAnnounced ==
  LET Tasks(s) == {i \in DOMAIN log : log[i].kind = "DocTask" /\ log[i].script = s}
  IN /\ \A s \in Scripts : Cardinality(Tasks(s)) <= 1
     /\ \A i \in DOMAIN log : log[i].kind = "Read" /\ log[i].script # "none"
          => \E j \in Tasks(log[i].script) : j < i
     /\ Quiet /\ Recording => \A s \in settled : Tasks(s) # {}

(* Every task before load, the document's own included, has the document's *)
(* position measured for it alone, before it.                              *)
TasksLocated ==
  LET Begins(i) == log[i].kind \in {"Task", "DocTask"}
  IN \A i \in DOMAIN log : Begins(i) /\ log[i].where < 4 =>
       \E j \in 1..(i - 1) : /\ log[j].kind = "Loading" /\ log[j].where = log[i].where
                            /\ \A k \in j..(i - 1) : ~Begins(k)

(* No checkpoint is of a document that was being parsed. *)
CheckpointsOfParsed ==
  \A i \in DOMAIN log : log[i].kind = "Checkpoint" => log[i].where # 1

(* A fault stays in the recorder: the page sees none of it, and the sink   *)
(* hears of it once (guard, fault, haltSink).                              *)
FaultsContained == NeverThrows /\ SinkHaltedOnce

(* The state is of its types, and what the log tells of the loading of the *)
(* document is true of it: which scripts ran, where the parser was at each *)
(* task, when it was done (DocumentProgress, checkpoint).                  *)
DocumentTold == TypeOK /\ ScriptsAnnounced /\ TasksLocated /\ CheckpointsOfParsed

(* The log is one that BoundaryLog allows. *)
Log == INSTANCE BoundaryLog WITH
  log <- log,
  phase <- IF Recording THEN "open"
           ELSE IF \E i \in DOMAIN stack : stack[i].do = "describe" THEN "closing"
           ELSE "closed"
KeepsLog == Log!Spec
===============================================================================
