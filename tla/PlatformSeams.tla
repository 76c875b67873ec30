----------------------------- MODULE PlatformSeams -----------------------------
(***************************************************************************)
(* The seams of the platform's clocks, state, timers and promises, on      *)
(* record (seams-time.ts, seams-environment.ts, seams-platform.ts,         *)
(* seams-media.ts, seams-perf.ts, seams-notification.ts, seams-import.ts,  *)
(* seams-refusals.ts and seams-storage.ts of                               *)
(* packages/boundary-shim/src/browser) and on replay (the modules of its   *)
(* replay directory, and the scheduler of boundary-replay/src/browser/     *)
(* runtime.ts).                                                            *)
(*                                                                         *)
(* The platform answers a read as it likes.  It runs a timer, and settles  *)
(* a promise, whenever it likes: several of those it settles early in one  *)
(* task, whose microtasks all run before another task's.  On replay it     *)
(* settles its own promises at other times, and a promise the log carries  *)
(* the outcome of is not waited for.                                       *)
(***************************************************************************)
EXTENDS SeamSession, FiniteSets, SequencesExt

CONSTANTS
  Uses,      \* the sets of kinds of thing a page may use
  Ways,      \* the ways a page may get a file its user chose, and make more of it
  Values,    \* what a read, a clock, an outcome may be
  MaxFonts,  \* bound: how often the fonts' ready promise is replaced
  Apart      \* whether an import may settle apart from its module's evaluation

Timers == {"timeout", "interval", "frame", "idle"}
Repeats == {"interval", "observer"}
Outcomes == {"outcome", "ready"}
Plain == {"plain", "file"}
Promises == Outcomes \cup Plain \cup {"bitmap", "import"}
Reads == {"clock", "random", "state", "counts", "media", "timeline", "timestamp",
          "storage", "shape", "cookie"}
Kinds == Timers \cup Promises \cup Reads \cup {"observer", "refused"}

ASSUME UsesAssumption == Uses \subseteq SUBSET Kinds /\ None \notin Values
ASSUME FontsAssumption == MaxFonts \in Nat \ {0}

VARIABLES
  page,      \* the kinds of thing the page uses
  kinds,     \* of the tasks minted, in order
  live,      \* the tasks the platform may still run or settle
  settled,   \* the outcomes in whose own tasks the page is told, in order
  fonts, handed,  \* the ready promise the platform has, and the tasks of those handed
  refused,   \* refuseOnce: whether the session was
  userContent,  \* what the page made of its user's files, and whether each is known to be
  \* the replay's:
  handlers,  \* the tasks something waits for
  starters, started,  \* the imports not begun, and those begun
  arrived,   \* the tasks whose platform's own promise settled
  awaited,   \* the task released that waits for the platform's, or 0
  rHanded    \* the tasks whose promise the page was handed

recorder == <<page, kinds, live, settled, fonts, handed, refused, userContent>>
replayer == <<handlers, starters, started, arrived, awaited, rHanded>>
vars == <<session, recorder, replayer>>

TaskKind(kind) == IF kind \in Timers \cup {"observer"} THEN kind ELSE "platform"
PlatformValue(id, query, v) == Rec("PlatformValue", id, query, v)
Clock(src, v) == Rec("Clock", 0, src, v)
StorageRead(area, v) == Rec("StorageRead", 0, area, v)

-----------------------------------------------------------------------------
(* Recording: what the page does. *)

(* What is written of a read the platform answers v. *)
patchClocks(v) == Clock("now", v)
patchRandom(v) == Rec("Random", 0, None, v)
patchStateReads(v) == PlatformValue(0, "state", v)
patchEventCounts(v) == PlatformValue(0, "counts", v)
patchNotifications(v) == PlatformValue(0, "timestamp", v)
patchMediaSeams(v) == PlatformValue(0, "media", v)
patchPerformance(v) == PlatformValue(0, "timeline", v)
patchStorage(v) == StorageRead("key", v)
patchStorageShape(v) == StorageRead("shape", v)
patchCookie(v) == StorageRead("cookie", v)
ReadRecord(what, v) ==
  CASE what = "clock" -> patchClocks(v)
    [] what = "random" -> patchRandom(v)
    [] what = "state" -> patchStateReads(v)
    [] what = "media" -> patchMediaSeams(v)
    [] what = "timeline" -> patchPerformance(v)
    [] what = "counts" -> patchEventCounts(v)
    [] what = "timestamp" -> patchNotifications(v)
    [] what = "storage" -> patchStorage(v)
    [] what = "shape" -> patchStorageShape(v)
    [] what = "cookie" -> patchCookie(v)
Read ==
  /\ PageRuns
  /\ \E what \in page \cap Reads, v \in Values :
       Does(<<"read", what>>, v, <<ReadRecord(what, v)>>, 0)
  /\ UNCHANGED <<recorder, replayer>>

(* A read of what a task of the platform's has: a deadline the page kept   *)
(* of an idle callback that ran, and what an observer has collected.       *)
Ran(id) == \E i \in DOMAIN script : script[i].id = id
patchIdleDeadline(id, v) == PlatformValue(id, "didTimeout", v)
takeRecords(id, v) == PlatformValue(id, "takeRecords", v)
OwnRead(id, v) == IF kinds[id] = "idle" THEN patchIdleDeadline(id, v) ELSE takeRecords(id, v)
ReadOwn ==
  /\ PageRuns
  /\ \E id \in DOMAIN kinds, v \in Values :
       /\ kinds[id] = "observer" \/ (kinds[id] = "idle" /\ Ran(id))
       /\ Does(<<"own", id>>, v, <<OwnRead(id, v)>>, 0)
  /\ UNCHANGED <<recorder, replayer>>

(* A call of the platform's that ends in a task of its own: its TaskReg.   *)
Registers(kind) ==
  /\ kinds' = Append(kinds, kind) /\ live' = live \cup {nextTask}
  /\ Does(<<"call", kind>>, nextTask, <<TaskReg(nextTask, TaskKind(kind))>>, 1)
SetTimer ==
  /\ PageRuns /\ \E kind \in page \cap Timers : Registers(kind)
  /\ UNCHANGED <<page, settled, fonts, handed, refused, userContent, replayer>>
Observe ==
  /\ PageRuns /\ "observer" \in page /\ Registers("observer")
  /\ UNCHANGED <<page, settled, fonts, handed, refused, userContent, replayer>>
CallPlatform ==
  /\ PageRuns /\ \E kind \in page \cap (Promises \ {"ready", "file"}) : Registers(kind)
  /\ UNCHANGED <<page, settled, fonts, handed, refused, userContent, replayer>>

(* A timer cleared never runs; the recorder is not told. *)
ClearTimer ==
  /\ PageRuns
  /\ \E id \in live :
       /\ kinds[id] \in Timers /\ live' = live \ {id}
       /\ Does(<<"clear", id>>, None, <<>>, 0)
  /\ UNCHANGED <<page, kinds, settled, fonts, handed, refused, userContent, replayer>>

(* Which promise a read of a promise attribute handed the page.            *)
promiseIdentity(had) == had

ReadReady ==
  /\ PageRuns /\ "ready" \in page
  /\ LET had == handed[fonts]
         told == PlatformValue(0, "ready", promiseIdentity(had))
     IN IF had # 0
        THEN Does(<<"ready", 0>>, had, <<told>>, 0) /\ UNCHANGED <<kinds, live, handed>>
        ELSE /\ handed' = [handed EXCEPT ![fonts] = nextTask]
             /\ kinds' = Append(kinds, "ready") /\ live' = live \cup {nextTask}
             /\ Does(<<"ready", 0>>, nextTask, <<told, TaskReg(nextTask, "platform")>>, 1)
  /\ UNCHANGED <<page, settled, fonts, refused, userContent, replayer>>

(* The first use of what the recorder refuses is logged before it runs. *)
refuseOnce == IF refused THEN <<>> ELSE <<Refusal>>
UseRefused ==
  /\ PageRuns /\ "refused" \in page
  /\ Does(<<"refused", 0>>, None, refuseOnce, 0) /\ refused' = TRUE
  /\ UNCHANGED <<page, kinds, live, settled, fonts, handed, userContent, replayer>>

(* A file its user chose reaches the page; Blobs and Responses are made of *)
(* it; and one is read: refused before it runs if it is known to be the    *)
(* user's.                                                                 *)
Gets == {"input", "drop", "form"}
Makes == {"array", "slice", "body", "iterable", "clone"}
markList(way) == way # "form"
(* The parts of a Blob, the file sliced, the body of a Response or Request *)
(* (or the Request itself); but for parts in no array, and for a clone.    *)
fromParts(known, way) == known /\ way \notin {"iterable", "clone"}
GetFile ==
  /\ PageRuns /\ "file" \in page
  /\ \E way \in Ways \cap Gets : userContent' = Append(userContent, markList(way))
  /\ Does(<<"get", 0>>, None, <<>>, 0)
  /\ UNCHANGED <<page, kinds, live, settled, fonts, handed, refused, replayer>>
MakeOfFile ==
  /\ PageRuns
  /\ \E i \in DOMAIN userContent, way \in Ways \cap Makes :
       userContent' = Append(userContent, fromParts(userContent[i], way))
  /\ Does(<<"make", 0>>, None, <<>>, 0)
  /\ UNCHANGED <<page, kinds, live, settled, fonts, handed, refused, replayer>>
refuseUserContent(known) == known
ReadFile ==
  /\ PageRuns
  /\ \E i \in DOMAIN userContent :
       LET refuses == refuseUserContent(userContent[i])
       IN /\ Does(<<"call", "file">>, nextTask,
                  (IF refuses THEN refuseOnce ELSE <<>>) \o <<TaskReg(nextTask, "platform")>>, 1)
          /\ refused' = (refused \/ refuses)
  /\ kinds' = Append(kinds, "file") /\ live' = live \cup {nextTask}
  /\ UNCHANGED <<page, settled, fonts, handed, userContent, replayer>>

-----------------------------------------------------------------------------
(* Recording: what the platform does. *)

(* What the shim writes after a Task, for the page's code to be given.     *)
Framed(id, v) == IF kinds[id] = "frame" THEN <<Clock("frame", v)>> ELSE <<>>
patchObservers(id, v) == PlatformValue(id, "callback", v)
RunTimer ==
  /\ PlatformActs
  /\ \E id \in live, v \in Values :
       /\ kinds[id] \in Timers
       /\ live' = IF kinds[id] \in Repeats THEN live ELSE live \ {id}
       /\ Begins(id, "task", IF kinds[id] = "frame" THEN v ELSE None,
                 <<Task(id, kinds[id])>> \o Framed(id, v), 0)
  /\ UNCHANGED <<page, kinds, settled, fonts, handed, refused, userContent, replayer>>
RunObserver ==
  /\ PlatformActs
  /\ \E id \in live, v \in Values :
       /\ kinds[id] = "observer"
       /\ Begins(id, "task", v, <<Task(id, "observer"), patchObservers(id, v)>>, 0)
  /\ UNCHANGED <<recorder, replayer>>

(* An event the platform dispatches at an object of its own.               *)
PlatformEvent ==
  /\ PlatformActs /\ "refused" \in page /\ refused' = TRUE
  /\ Begins(0, "event", None, refuseOnce, 0)
  /\ UNCHANGED <<page, kinds, live, settled, fonts, handed, userContent, replayer>>

(* Mutated: a settlement is not written.                                   *)
settledTaskNone(id) == <<>>
settledTask(id) == <<Task(id, "platform")>>
(* A promise the platform settles in a task of its own: its Task.          *)
SettlePlain ==
  /\ PlatformActs
  /\ \E id \in live :
       /\ kinds[id] \in Plain /\ live' = live \ {id}
       /\ Begins(id, "task", IF kinds[id] = "file" THEN "theirs" ELSE None,
                 settledTask(id), 0)
  /\ UNCHANGED <<page, kinds, settled, fonts, handed, refused, userContent, replayer>>

(* It settles several outcomes at once; each is told in a task of the      *)
(* shim's own (ownTask).                                                   *)
SettleOutcomes ==
  /\ PlatformActs
  /\ \E S \in SUBSET {id \in live : kinds[id] \in Outcomes \cup {"bitmap"}} :
       /\ S # {} /\ live' = live \ S
       /\ \E order \in [1..Cardinality(S) -> S] :
            /\ \A i, j \in DOMAIN order : i < j => order[i] < order[j]
            /\ settled' = settled \o order
  /\ UNCHANGED <<session, page, kinds, fonts, handed, refused, userContent, replayer>>

(* Mutated: told in the platform's microtask checkpoint: all the records   *)
(* before the page's continuations.                                        *)
ownTaskNone(ids, v) ==
  FlattenSeq([i \in DOMAIN ids |->
    <<Task(ids[i], "platform"), PlatformValue(ids[i], kinds[ids[i]], v)>>])
(* What is written of the outcomes settled before the page goes on with    *)
(* the first of them.                                                      *)
ownTask(ids, v) ==
  <<Task(ids[1], "platform"), PlatformValue(ids[1], kinds[ids[1]], v)>>

TellOutcome ==
  /\ PlatformActs /\ settled # <<>> /\ settled' = Tail(settled)
  /\ \E v \in Values :
       LET bitmap == kinds[Head(settled)] = "bitmap"
           value == IF bitmap THEN "shape" ELSE v
       IN Begins(Head(settled), "task", IF bitmap THEN None ELSE value,
                 ownTask(settled, value), 0)
  /\ UNCHANGED <<page, kinds, live, fonts, handed, refused, userContent, replayer>>

ReplaceFonts ==
  /\ Recording /\ "ready" \in page /\ fonts < MaxFonts /\ fonts' = fonts + 1
  /\ UNCHANGED <<session, page, kinds, live, settled, handed, refused, userContent, replayer>>

(* An imported module is evaluated; then its import settles, in the same   *)
(* task unless the module awaits, and is recorded unless it stops that.    *)
Evaluated(id) == \E i \in DOMAIN script : script[i].id = id /\ script[i].part = "module"
Settling == {id \in live : kinds[id] = "import" /\ script[Len(script)].id = id
                            /\ script[Len(script)].part = "module"}
Evaluate ==
  /\ PlatformActs
  /\ \E id \in live :
       /\ kinds[id] = "import" /\ ~Evaluated(id) /\ Len(script) < MaxTurns - 1
       /\ Begins(id, "module", None, <<>>, 0)
  /\ UNCHANGED <<recorder, replayer>>
SettleImport ==
  /\ PlatformActs
  /\ \E id \in live :
       /\ kinds[id] = "import" /\ Evaluated(id) /\ live' = live \ {id}
       /\ Begins(id, "task", None, settledTask(id), 0)
  /\ UNCHANGED <<page, kinds, settled, fonts, handed, refused, userContent, replayer>>

(* Nothing comes between a module that does not await and its settlement.  *)
Undisturbed == Apart \/ Settling = {}
Platform ==
  \/ Undisturbed /\ (RunTimer \/ RunObserver \/ PlatformEvent \/ SettlePlain \/ SettleOutcomes \/ TellOutcome \/ Evaluate)
  \/ SettleImport

EndTurn == TurnOver /\ UNCHANGED <<recorder, replayer>>
StopRecording == Undisturbed /\ Stop /\ UNCHANGED <<recorder, replayer>>

-----------------------------------------------------------------------------
(* Replay: the page's calls are answered from the log. *)
Asks(asked, saw, ids, effects) ==
  \/ Matches(asked) /\ Replays(asked, saw, ids) /\ effects
  \/ Diverges(asked) /\ UNCHANGED replayer

(* What a read asks the log for. *)
replayClocks == Clock("now", None)
replayRandom == Rec("Random", 0, None, None)
replayStateReads == PlatformValue(0, "state", None)
replayEventCounts == PlatformValue(0, "counts", None)
replayNotifications == PlatformValue(0, "timestamp", None)
replayMediaSeams == PlatformValue(0, "media", None)
replayPerformance == PlatformValue(0, "timeline", None)
replayStorage == StorageRead("key", None)
replayStorageShape == StorageRead("shape", None)
replayCookie == StorageRead("cookie", None)
ReadAsks(what) ==
  CASE what = "clock" -> replayClocks
    [] what = "random" -> replayRandom
    [] what = "state" -> replayStateReads
    [] what = "media" -> replayMediaSeams
    [] what = "timeline" -> replayPerformance
    [] what = "counts" -> replayEventCounts
    [] what = "timestamp" -> replayNotifications
    [] what = "storage" -> replayStorage
    [] what = "shape" -> replayStorageShape
    [] what = "cookie" -> replayCookie
ReadAgain ==
  /\ \E what \in Reads :
       /\ PageReplays(<<"read", what>>)
       /\ Asks(<<ReadAsks(what)>>, Cursor.value, 0, UNCHANGED replayer)
  /\ UNCHANGED recorder
ReadOwnAgain ==
  /\ \E id \in DOMAIN kinds :
       /\ PageReplays(<<"own", id>>)
       /\ Asks(<<PlatformValue(id, IF kinds[id] = "idle" THEN "didTimeout" ELSE "takeRecords",
                               None)>>, Cursor.value, 0, UNCHANGED replayer)
  /\ UNCHANGED recorder

(* registerTask, then onTask or onTaskStart. *)
RegisterAgain ==
  /\ \E kind \in Timers \cup {"observer"} \cup (Promises \ {"ready"}) :
       /\ PageReplays(<<"call", kind>>)
       /\ Asks(<<TaskReg(nextTask, TaskKind(kind))>>, nextTask, 1,
               /\ handlers' = handlers \cup {nextTask}
               /\ starters' = IF kind = "import" THEN starters \cup {nextTask} ELSE starters
               /\ UNCHANGED <<started, arrived, awaited, rHanded>>)
  /\ UNCHANGED recorder

(* The replay's own objects are made as the page made its own; cancel.     *)
MakeAgain ==
  /\ PageReplays(<<"get", 0>>) \/ PageReplays(<<"make", 0>>)
  /\ Replays(<<>>, None, 0) /\ UNCHANGED <<recorder, replayer>>
ClearAgain ==
  /\ \E id \in DOMAIN kinds :
       /\ PageReplays(<<"clear", id>>) /\ Replays(<<>>, None, 0)
       /\ handlers' = handlers \ {id}
  /\ UNCHANGED <<recorder, starters, started, arrived, awaited, rHanded>>

ReadReadyAgain ==
  /\ PageReplays(<<"ready", 0>>)
  /\ LET asked == <<PlatformValue(0, "ready", None)>>
         logged == Cursor.value
     IN IF ~Matches(asked) THEN Diverges(asked) /\ UNCHANGED replayer
        ELSE CASE logged = 0 ->
                    Asks(asked \o <<TaskReg(nextTask, "platform")>>, nextTask, 1,
                         /\ handlers' = handlers \cup {nextTask}
                         /\ rHanded' = rHanded \cup {nextTask}
                         /\ UNCHANGED <<starters, started, arrived, awaited>>)
               [] logged \in rHanded -> Asks(asked, logged, 0, UNCHANGED replayer)
               [] OTHER -> Ends("diverged") /\ UNCHANGED replayer
  /\ UNCHANGED recorder

(* Mutated: a refused call goes on to the platform. *)
refusedOn == FALSE
(* A call the recorder refused ends the replay there. *)
refusedHere == Cursor = Refusal
UseRefusedAgain ==
  /\ PageReplays(<<"refused", 0>>)
  /\ IF refusedHere THEN Ends("non-replayable") ELSE Replays(<<>>, None, 0)
  /\ UNCHANGED <<recorder, replayer>>

-----------------------------------------------------------------------------
(* Replay: the scheduler, once the page is quiescent. *)
WaitsFor(id) == kinds[id] \in Plain \cup {"bitmap"}
Scheduling == PageIdle /\ awaited = 0

AtEnd ==
  /\ Scheduling /\ Terminated /\ Ends(Terminal)
  /\ UNCHANGED <<recorder, replayer>>

(* The value a task's handler reads before the page's code runs, if any.   *)
Given(id) ==
  CASE kinds[id] = "frame" -> <<Clock("frame", None)>>
    [] kinds[id] = "observer" -> <<PlatformValue(id, "callback", None)>>
    [] kinds[id] \in Outcomes \cup {"bitmap"} -> <<PlatformValue(id, kinds[id], None)>>
    [] OTHER -> <<>>

(* The page's code of task id runs, with what the log gives it after the   *)
(* first `from` records.                                                   *)
Lets(id, from) ==
  LET given == Given(id)
      value == CASE kinds[id] = "file" -> "a stand-in's"
                 [] given = <<>> \/ kinds[id] = "bitmap" -> None
                 [] OTHER -> log[at + from].value
  IN IF \A i \in DOMAIN given : Checked(log[at + from + i - 1]) = Checked(given[i])
     THEN BeginsAgain(id, "task", value, from + Len(given), 0)
     ELSE Ends(IF log[at + from] = End THEN "done" ELSE "diverged")

(* runTask: a task that waits for the platform's own promise is over when  *)
(* that has settled (replayPlatformTask).                                  *)
RunTask ==
  /\ Scheduling /\ Cursor.rec = "Task"
  /\ LET id == Cursor.id
     IN IF id \notin handlers \/ TaskKind(kinds[id]) # Cursor.query
        THEN Ends("diverged") /\ UNCHANGED replayer
        ELSE /\ handlers' = IF kinds[id] \in Repeats THEN handlers ELSE handlers \ {id}
             /\ IF \/ WaitsFor(id) /\ id \notin arrived
                   \/ kinds[id] = "import" /\ id \notin started
                THEN /\ awaited' = id /\ at' = at + 1
                     /\ UNCHANGED <<phase, log, nextTask, script, turn, turnNo, opNo, verdict>>
                ELSE Lets(id, 1) /\ awaited' = 0
             /\ UNCHANGED <<starters, started, arrived, rHanded>>
  /\ UNCHANGED recorder

(* workAfter: the import whose Task is the first after the reads here.     *)
WorkAfter ==
  LET later == {i \in at..Len(log) : log[i].rec \in {"Task", "End", "Refusal"}}
      first == log[CHOOSE i \in later : \A j \in later : i <= j]
  IN IF first.rec = "Task" /\ first.id \in starters \ started THEN first.id ELSE 0

(* A read the page has not made while it is quiescent is of held work, or  *)
(* of nobody (moveDocumentOn; the document has loaded).                    *)
Starts == IF Cursor.rec \in {"Task", "End", "Refusal"} THEN 0 ELSE WorkAfter
StartTask ==
  /\ Scheduling /\ Starts # 0
  /\ started' = started \cup {Starts}
  /\ BeginsAgain(Starts, "module", None, 0, 0)
  /\ UNCHANGED <<recorder, handlers, starters, arrived, awaited, rHanded>>
MissingRead ==
  /\ Scheduling /\ Starts = 0 /\ Cursor.rec \notin {"Task", "End", "Refusal"}
  /\ Ends("diverged") /\ UNCHANGED <<recorder, replayer>>

(* The replay browser's own promise settles; or an import released before  *)
(* it began has been evaluated by then.                                    *)
Arrive ==
  /\ Replaying /\ ~turn
  /\ \E id \in (1..(nextTask - 1)) \ arrived :
       /\ WaitsFor(id) /\ arrived' = arrived \cup {id}
       /\ IF awaited = id THEN Lets(id, 0) /\ awaited' = 0
          ELSE UNCHANGED <<session, awaited>>
  /\ UNCHANGED <<recorder, handlers, starters, started, rHanded>>
EvaluateAwaited ==
  /\ PageIdle /\ awaited # 0 /\ kinds[awaited] = "import"
  /\ IF awaited \notin started
     THEN /\ started' = started \cup {awaited} /\ BeginsAgain(awaited, "module", None, 0, 0)
          /\ UNCHANGED awaited
     ELSE Lets(awaited, 0) /\ awaited' = 0 /\ UNCHANGED started
  /\ UNCHANGED <<recorder, handlers, starters, arrived, rHanded>>

EndTurnAgain == TurnOverAgain /\ UNCHANGED <<recorder, replayer>>

-----------------------------------------------------------------------------
SeamInit ==
  /\ kinds = <<>> /\ live = {} /\ settled = <<>> /\ refused = FALSE /\ userContent = <<>>
  /\ fonts = 1 /\ handed = [f \in 1..MaxFonts |-> 0]
  /\ handlers = {} /\ starters = {} /\ started = {} /\ arrived = {}
  /\ awaited = 0 /\ rHanded = {}
Init == SessionInit /\ SeamInit /\ page \in Uses

Record ==
  \/ Read \/ ReadOwn \/ SetTimer \/ Observe \/ CallPlatform \/ ClearTimer \/ ReadReady
  \/ GetFile \/ MakeOfFile \/ ReadFile \/ UseRefused \/ EndTurn \/ ReplaceFonts \/ Platform \/ StopRecording
Replay ==
  \/ ReadAgain \/ ReadOwnAgain \/ RegisterAgain \/ MakeAgain \/ ClearAgain \/ ReadReadyAgain
  \/ UseRefusedAgain \/ EndTurnAgain \/ AtEnd \/ RunTask \/ StartTask \/ MissingRead
  \/ Arrive \/ EvaluateAwaited
Finished == Over /\ UNCHANGED vars
Next == Record \/ Replay \/ Finished
Spec == Init /\ [][Next]_vars

-----------------------------------------------------------------------------
(* The session is a log and its page's turns; the replay is somewhere in   *)
(* both.                                                                   *)
TypeOK ==
  /\ phase \in {"record", "replay"} /\ turn \in BOOLEAN
  /\ verdict \in {"running", "done", "diverged", "astray", "non-replayable"}
  /\ at \in 1..(Len(log) + 1) /\ turnNo \in 1..(Len(script) + 1)
  /\ live \subseteq DOMAIN kinds /\ ToSet(settled) \subseteq DOMAIN kinds
  /\ handlers \subseteq DOMAIN kinds /\ started \subseteq starters
  /\ (phase = "replay" => nextTask <= Len(kinds) + 1)

(* What a seam wrote on record is what its replay asks for, where it asks: *)
(* the page is given and sees in every turn what it was and saw, and the   *)
(* replay never reports a divergence of an unedited page.                  *)
ReplaysAsRecorded == verdict \notin {"diverged", "astray"}

(* A replay that ends with the log has run all the page did, but a module  *)
(* that left no record.                                                    *)
FollowsWhole ==
  verdict = "done" =>
    /\ ~HasOp
    /\ \A i \in (turnNo + 1)..Len(script) :
         script[i].part = "module" /\ \A o \in ToSet(script[i].ops) : o.op[1] = "clear"

(* A replay of a session that used what the recorder refuses, the contents *)
(* of its user's files too, ends there: the page never goes on past it.    *)
NeverPastRefusal ==
  phase = "replay" =>
    /\ verdict = "done" => ~refused
    /\ \A i \in DOMAIN script : \A j \in DOMAIN script[i].ops :
         i < turnNo \/ (i = turnNo /\ j <= opNo) => script[i].ops[j].op[1] # "refused"
=============================================================================
