------------------------------ MODULE FetchSeams ------------------------------
(***************************************************************************)
(* The requests a page makes with fetch, on record (seams-net.ts,          *)
(* stream-body.ts, fetch-cancellation.ts and body-failure.ts of            *)
(* packages/boundary-shim/src/browser) and on replay (replay/net.ts).      *)
(*                                                                         *)
(* The platform answers with a head, then pieces of a body, and an end.    *)
(* The page reads the body a piece at a time, or whole (and a clone of it  *)
(* whole too), cancels it, or aborts the request.  A piece that was there  *)
(* when the page asked for it is written in the page's own turn, in its    *)
(* microtasks; one that comes later, in a task of its own.  A body that    *)
(* was read whole reaches the page in one task more.                       *)
(***************************************************************************)
EXTENDS SeamSession, SequencesExt, FiniteSets

CONSTANTS
  Pages,      \* the pages: how each makes its requests, in order
  MaxPieces,  \* bound: the pieces of a body
  Edges       \* the cases outside what is replayed that may happen all the same

Ways == {"plain", "signal", "timeout", "unreadable"}
EdgeCases == {"idle failure", "unawaited read", "settled out of order"}

Body == SubSeq(<<"first", "second", "third">>, 1, MaxPieces)
Copies == <<"response", "clone">>
Failures == {"networkError", "timeout"}

VARIABLES
  page,      \* how this page makes its requests
  requests,  \* per request the page made: what became of it
  owed,      \* what the microtasks of this turn are to tell the page
  \* the replay's:
  held,      \* the task released that waits for the platform's
  went       \* the whole-body reads the replay's platform has settled

net == <<page, requests, owed>>
replayer == <<held, went>>
vars == <<session, net, replayer>>

Nothing == [req |-> 0, what |-> None, item |-> None]

(* The state of one request, of the shim's and (queue, come) the           *)
(* platform's.                                                             *)
Request(way, task) ==
  [way |-> way, task |-> task, phase |-> "head", queue |-> <<>>, come |-> 0,
   reading |-> FALSE, used |-> FALSE, reads |-> <<>>, made |-> 0, end |-> None,
   aborted |-> FALSE]

Made == DOMAIN requests
Sets(r, field, value) == requests' = [requests EXCEPT ![r][field] = value]

NetRequest(r) == Rec("NetRequest", r, "fetch", None)
NetResponse(r, outcome) == Rec("NetResponse", r, None, outcome)
Piece(r, item) == Rec("WsMessage", r, "in", item)
BodyEnd(r, outcome) == Rec("WsMessage", r, "end", outcome)
NetTask(r) == Task(requests[r].task, "network")

Written(r, item) == IF item \in ToSet(Body) THEN Piece(r, item) ELSE BodyEnd(r, item)
AllWritten(r, items) == [i \in DOMAIN items |-> Written(r, items[i])]

-----------------------------------------------------------------------------
(* Recording: what the page does. *)

(* The page waits for what it has begun before it does more. *)
Awaited == owed.what # "read" \/ "unawaited read" \in Edges

ReadClock ==
  /\ PageRuns /\ Awaited
  /\ Does(<<"clock", 0>>, None, <<Rec("Clock", 0, "now", None)>>, 0)
  /\ UNCHANGED <<net, replayer>>

(* A body whose bytes cannot be read at once is refused before the request. *)
fetchRequestMetadata(way) == IF way = "unreadable" THEN <<Refusal>> ELSE <<>>
Fetch ==
  /\ PageRuns /\ owed = Nothing /\ Len(requests) < Len(page)
  /\ LET r == Len(requests) + 1
         way == page[r]
     IN /\ requests' = Append(requests, Request(way, nextTask))
        /\ Does(<<"fetch", way>>, None,
                fetchRequestMetadata(way) \o
                <<NetRequest(r), TaskReg(nextTask, "network")>>, 1)
  /\ UNCHANGED <<page, owed, replayer>>

(* One read of the body: what is there comes in the page's microtasks. *)
Streams(r) == requests[r].phase = "body" /\ requests[r].end = None
PullsWaiting(r) == requests[r].queue # <<>>
ReadPiece ==
  /\ PageRuns /\ owed = Nothing
  /\ \E r \in Made :
       /\ Streams(r) /\ ~requests[r].reading /\ requests[r].made = 0
       /\ IF PullsWaiting(r)
          THEN /\ owed' = [Nothing EXCEPT !.req = r, !.what = "read"]
               /\ Sets(r, "used", TRUE)
          ELSE /\ owed' = owed
               /\ requests' = [requests EXCEPT ![r].reading = TRUE, ![r].used = TRUE]
       /\ Does(<<"read", r>>, None, <<>>, 0)
  /\ UNCHANGED <<page, replayer>>

(* A read of the whole body, of the response or of its clone, by pieces:   *)
(* those that are there in the microtasks of the turn.                     *)
ReadWhole ==
  /\ PageRuns /\ owed = Nothing
  /\ \E r \in Made :
       /\ Streams(r) /\ ~requests[r].used /\ requests[r].made < 2
       /\ requests' = [requests EXCEPT ![r].made = @ + 1,
            ![r].reads = Append(@, Copies[requests[r].made + 1]),
            ![r].reading = @ \/ ~PullsWaiting(r)]
       /\ owed' = IF PullsWaiting(r) THEN [Nothing EXCEPT !.req = r, !.what = "read"] ELSE owed
       /\ Does(<<"whole", r>>, None, <<>>, 0)
  /\ UNCHANGED <<page, replayer>>

Cancel ==
  /\ PageRuns /\ owed = Nothing
  /\ \E r \in Made :
       /\ Streams(r) /\ ~requests[r].reading /\ requests[r].made = 0
       /\ Sets(r, "phase", "done")
       /\ Does(<<"cancel", r>>, None, <<>>, 0)
  /\ UNCHANGED <<page, owed, replayer>>

(* The page's own abort: its request fails in the page's microtasks, and   *)
(* the platform throws away what the page has not read of its body.        *)
Abort ==
  /\ PageRuns /\ owed = Nothing
  /\ \E r \in Made :
       /\ requests[r].way = "signal" /\ ~requests[r].aborted
       /\ requests' = [requests EXCEPT ![r].aborted = TRUE, ![r].queue = <<>>]
       /\ owed' = IF requests[r].phase = "head" \/ Streams(r)
                  THEN [Nothing EXCEPT !.req = r, !.what = "abort"] ELSE owed
       /\ Does(<<"abort", r>>, None, <<>>, 0)
  /\ UNCHANGED <<page, replayer>>

(* Mutated: the page's own abort is written as a task.                     *)
rejectionTask(r, failure) == <<NetTask(r), NetResponse(r, failure)>>
(* A request that failed before its head.  The private reason tells the    *)
(* page's abort from a failure: its rejection has no task.                 *)
rejection(r, failure) ==
  (IF failure = "abort" THEN <<>> ELSE <<NetTask(r)>>) \o <<NetResponse(r, failure)>>

(* Mutated: the pending read's rejection tells the end once more.          *)
bodyFailsTwice(r, failure) ==
  (IF failure = "abort" THEN <<>> ELSE <<NetTask(r)>>)
    \o <<BodyEnd(r, failure), BodyEnd(r, failure)>>
(* A body that failed: told once, by the platform reader's closed promise, *)
(* whether or not the page reads; an abort is the page's own call.         *)
bodyFails(r, failure) ==
  (IF failure = "abort" THEN <<>> ELSE <<NetTask(r)>>) \o <<BodyEnd(r, failure)>>

(* The microtasks of a read: one item, or all there is of a whole read.    *)
Drained(r) == IF requests[r].made = 0 THEN <<Head(requests[r].queue)>> ELSE requests[r].queue
AfterDrain(r) ==
  LET item == Last(Drained(r))
      over == item \notin ToSet(Body)
  IN [requests EXCEPT
       ![r].queue = IF requests[r].made = 0 THEN Tail(@) ELSE <<>>,
       ![r].end = IF over THEN item ELSE None,
       ![r].reading = requests[r].made > 0 /\ ~over]

Await ==
  /\ PageRuns
  /\ \/ /\ owed.what = "read"
        /\ LET r == owed.req
               got == IF requests[r].made = 0 THEN Head(requests[r].queue) ELSE None
           IN /\ Does(<<"await", r>>, got, AllWritten(r, Drained(r)), 0)
              /\ requests' = AfterDrain(r)
     \/ /\ owed.what = "abort"
        /\ LET r == owed.req
           IN IF requests[r].phase = "head"
              THEN /\ Does(<<"await", r>>, "abort", rejection(r, "abort"), 0)
                   /\ Sets(r, "phase", "done")
              ELSE /\ Does(<<"await", r>>, IF requests[r].used /\ requests[r].reading
                                          THEN "abort" ELSE None,
                           bodyFails(r, "abort"), 0)
                   /\ requests' = [requests EXCEPT ![r].end = "abort", ![r].reading = FALSE]
  /\ owed' = Nothing
  /\ UNCHANGED <<page, replayer>>

(* The turn's microtasks have run. *)
EndTurn == owed = Nothing /\ TurnOver /\ UNCHANGED <<net, replayer>>

-----------------------------------------------------------------------------
(* Recording: what the platform does. *)

(* The head: with a body the page is given rebuilt, without one, or with   *)
(* one that cannot be rebuilt.                                             *)
HeadArrives ==
  /\ PlatformActs
  /\ \E r \in Made, how \in {"head", "response", "opaque"} :
       /\ requests[r].phase = "head" /\ ~requests[r].aborted
       /\ Begins(requests[r].task, "head", <<r, how>>,
                 <<NetTask(r)>> \o (IF how = "opaque" THEN <<Refusal>> ELSE <<>>)
                   \o <<NetResponse(r, IF how = "head" THEN "head" ELSE "response")>>, 0)
       /\ Sets(r, "phase", IF how = "head" THEN "body" ELSE "done")
  /\ UNCHANGED <<page, owed, replayer>>

Fails(r, failure) == failure = "networkError" \/ requests[r].way = "timeout"
HeadFails ==
  /\ PlatformActs
  /\ \E r \in Made, failure \in Failures :
       /\ requests[r].phase = "head" /\ Fails(r, failure)
       /\ Begins(requests[r].task, "head", <<r, failure>>, rejection(r, failure), 0)
       /\ Sets(r, "phase", "done")
  /\ UNCHANGED <<page, owed, replayer>>

(* What comes next of a body.                                              *)
Item(r) == {IF requests[r].come < Len(Body) THEN Body[requests[r].come + 1] ELSE "response",
            "response"}
Arriving(r) == Streams(r) /\ "response" \notin ToSet(requests[r].queue)
PieceWaits ==
  /\ PlatformActs
  /\ \E r \in Made :
       /\ Arriving(r) /\ ~requests[r].reading
       /\ \E item \in Item(r) :
            requests' = [requests EXCEPT ![r].queue = Append(@, item), ![r].come = @ + 1]
  /\ UNCHANGED <<session, page, owed, replayer>>

(* Mutated: a piece is written as if it had been there.                    *)
lateUntold(r, items) == AllWritten(r, items)
(* The page waits for it: a task of the request's.                         *)
late(r, items) == <<NetTask(r)>> \o AllWritten(r, items)

(* The platform's piece reaches a read of the page's, which goes on.       *)
PieceArrives ==
  /\ PlatformActs
  /\ \E r \in Made :
       /\ Arriving(r) /\ requests[r].reading /\ requests[r].made = 0
       /\ \E item \in Item(r) :
            /\ Begins(requests[r].task, "piece", <<r, item>>, late(r, <<item>>), 0)
            /\ requests' = [requests EXCEPT ![r].come = @ + 1, ![r].reading = FALSE,
                 ![r].end = IF item = "response" THEN item ELSE None]
  /\ UNCHANGED <<page, owed, replayer>>

(* What is written with no page code run: a whole-body read goes on.       *)
Writes(written) ==
  /\ log' = log \o written /\ Len(log) < 6 * MaxTurns
  /\ UNCHANGED <<phase, nextTask, script, turn, at, turnNo, opNo, verdict>>
PiecePulled ==
  /\ PlatformActs
  /\ \E r \in Made :
       /\ Arriving(r) /\ requests[r].reading /\ requests[r].made > 0
       /\ \E item \in Item(r) :
            /\ Writes(late(r, <<item>>))
            /\ requests' = [requests EXCEPT ![r].come = @ + 1,
                 ![r].reading = item # "response",
                 ![r].end = IF item = "response" THEN item ELSE None]
  /\ UNCHANGED <<page, owed, replayer>>

(* The body fails: with a read waiting, or with nobody reading.            *)
BodyFails ==
  /\ PlatformActs
  /\ \E r \in Made, failure \in Failures :
       /\ Streams(r) /\ ~requests[r].aborted /\ Fails(r, failure)
       /\ requests[r].reading \/ "idle failure" \in Edges
       /\ requests' = [requests EXCEPT ![r].queue = <<>>, ![r].end = failure,
                                       ![r].reading = FALSE]
       /\ IF requests[r].reading /\ requests[r].made = 0
          THEN Begins(requests[r].task, "piece", <<r, failure>>, bodyFails(r, failure), 0)
          ELSE Writes(bodyFails(r, failure))
  /\ UNCHANGED <<page, owed, replayer>>

(* Mutated: the page goes on without a task.                               *)
consumedUntold(r) == <<>>
consumed(r) == <<NetTask(r)>>
(* The body was read whole: the page is told in a task of its own.         *)
SettleWhole ==
  /\ PlatformActs
  /\ \E r \in Made :
       /\ requests[r].end # None
       /\ \E i \in ToSet(requests[r].reads) :
            /\ i = Head(requests[r].reads) \/ "settled out of order" \in Edges
            /\ Begins(requests[r].task, "whole", <<r, i, requests[r].end>>, consumed(r), 0)
            /\ Sets(r, "reads", SelectSeq(requests[r].reads, LAMBDA j : j # i))
  /\ UNCHANGED <<page, owed, replayer>>

StopRecording ==
  /\ Stop /\ requests' = <<>> /\ owed' = Nothing
  /\ UNCHANGED <<page, replayer>>

-----------------------------------------------------------------------------
(* Replay: what the page does. *)

BodyNext(r, k) == k <= Len(log) /\ log[k].rec = "WsMessage" /\ log[k].id = r
(* The body records of r from the k-th record on. *)
BodyRun(r, k) ==
  LET n == CHOOSE m \in 0..(Len(log) - k + 1) :
             ~BodyNext(r, k + m) /\ \A j \in 0..(m - 1) : BodyNext(r, k + j)
  IN SubSeq(log, k, k + n - 1)
Ended(records) ==
  IF records # <<>> /\ Last(records).query = "end" THEN Last(records).value ELSE None

ReadClockAgain ==
  /\ PageReplays(<<"clock", 0>>)
  /\ LET asked == <<Rec("Clock", 0, "now", None)>>
     IN IF Matches(asked) THEN Replays(asked, None, 0) ELSE Diverges(asked)
  /\ UNCHANGED <<net, replayer>>

FetchAgain ==
  /\ Replaying /\ turn /\ HasOp /\ ThisOp.op[1] = "fetch"
  /\ LET r == Len(requests) + 1
         asked == <<NetRequest(r), TaskReg(nextTask, "network")>>
     IN IF Matches(asked)
        THEN /\ Replays(asked, None, 1)
             /\ requests' = Append(requests, Request(ThisOp.op[2], nextTask))
        ELSE Diverges(asked) /\ UNCHANGED requests
  /\ UNCHANGED <<page, owed, replayer>>

(* The stream's pull: a body record at the cursor is delivered at once. *)
Pull(r, what) ==
  IF BodyNext(r, at)
  THEN /\ Replays(<<Cursor>>, None, 0)
       /\ owed' = [req |-> r, what |-> "read", item |-> Cursor.value]
       /\ requests' = [requests EXCEPT ![r].used = what = "read",
            ![r].reads = IF what = "whole" THEN Append(@, Copies[requests[r].made + 1]) ELSE @,
            ![r].made = IF what = "whole" THEN @ + 1 ELSE @, ![r].end = Ended(<<Cursor>>)]
  ELSE /\ Replays(<<>>, None, 0) /\ UNCHANGED owed
       /\ requests' = [requests EXCEPT ![r].used = what = "read",
            ![r].reads = IF what = "whole" THEN Append(@, Copies[requests[r].made + 1]) ELSE @,
            ![r].made = IF what = "whole" THEN @ + 1 ELSE @, ![r].reading = TRUE]

ReadPieceAgain ==
  /\ Replaying /\ turn /\ HasOp /\ ThisOp.op[1] = "read"
  /\ LET r == ThisOp.op[2]
     IN IF requests[r].queue # <<>> \/ ~Streams(r)
        THEN /\ Replays(<<>>, None, 0)
             /\ owed' = [req |-> r, what |-> "read",
                         item |-> IF requests[r].queue # <<>> THEN Head(requests[r].queue)
                                  ELSE requests[r].end]
             /\ Sets(r, "queue", IF requests[r].queue # <<>> THEN Tail(requests[r].queue) ELSE <<>>)
        ELSE Pull(r, "read")
  /\ UNCHANGED <<page, replayer>>
ReadWholeAgain ==
  /\ Replaying /\ turn /\ HasOp /\ ThisOp.op[1] = "whole"
  /\ LET r == ThisOp.op[2]
     IN IF requests[r].reading \/ requests[r].queue # <<>> \/ ~Streams(r)
        THEN /\ Replays(<<>>, None, 0)
             /\ owed' = IF requests[r].queue = <<>> THEN owed
                        ELSE [Nothing EXCEPT !.req = r, !.what = "read"]
             /\ requests' = [requests EXCEPT ![r].made = @ + 1, ![r].queue = <<>>,
                              ![r].reads = Append(@, Copies[requests[r].made + 1])]
        ELSE Pull(r, "whole")
  /\ UNCHANGED <<page, replayer>>

CancelAgain ==
  /\ Replaying /\ turn /\ HasOp /\ ThisOp.op[1] = "cancel"
  /\ Replays(<<>>, None, 0) /\ Sets(ThisOp.op[2], "phase", "done")
  /\ UNCHANGED <<page, owed, replayer>>
AbortAgain ==
  /\ Replaying /\ turn /\ HasOp /\ ThisOp.op[1] = "abort"
  /\ LET r == ThisOp.op[2]
     IN /\ Replays(<<>>, None, 0) /\ Sets(r, "aborted", TRUE)
        /\ owed' = IF requests[r].phase = "head" \/ Streams(r)
                   THEN [Nothing EXCEPT !.req = r, !.what = "abort"] ELSE owed
  /\ UNCHANGED <<page, replayer>>

(* Mutated: an abort waits for a task of the request's.                    *)
onAbortLater(r) == FALSE
(* What an abort finds at the cursor, in its microtask: the request's      *)
(* failure, or its body's end.                                             *)
onAbort(r) ==
  \/ requests[r].phase = "head" /\ Cursor.rec = "NetResponse" /\ Cursor.id = r
  \/ Streams(r) /\ BodyNext(r, at)

AwaitAgain ==
  /\ Replaying /\ turn /\ HasOp /\ ThisOp.op[1] = "await"
  /\ LET r == owed.req
     IN CASE owed = Nothing -> Ends("astray") /\ UNCHANGED requests
          [] owed.what = "read" /\ requests[r].made = 0 ->
               Replays(<<>>, owed.item, 0) /\ UNCHANGED requests
          [] owed.what = "read" /\ requests[r].made > 0 ->
               LET more == IF Streams(r) THEN BodyRun(r, at) ELSE <<>>
               IN /\ Replays(more, None, 0)
                  /\ requests' = [requests EXCEPT
                       ![r].end = IF Streams(r) THEN Ended(more) ELSE @,
                       ![r].reading = Streams(r) /\ Ended(more) = None]
          [] owed.what = "abort" /\ ~onAbort(r) ->
               Replays(<<>>, None, 0) /\ UNCHANGED requests
          [] owed.what = "abort" /\ onAbort(r) ->
               /\ Replays(<<Cursor>>,
                     IF requests[r].phase = "head" \/ (requests[r].used /\ requests[r].reading)
                     THEN Cursor.value ELSE None, 0)
               /\ requests' = [requests EXCEPT ![r].reading = FALSE,
                    ![r].phase = IF @ = "head" THEN "done" ELSE @, ![r].end = Cursor.value]
  /\ owed' = Nothing
  /\ UNCHANGED <<page, replayer>>
EndTurnAgain ==
  /\ \/ owed = Nothing \/ (owed.what = "abort" /\ ~onAbort(owed.req))
  /\ TurnOverAgain /\ owed' = Nothing
  /\ UNCHANGED <<page, requests, replayer>>
GivenEarly ==
  /\ Replaying /\ turn /\ ~HasOp /\ owed # Nothing
  /\ owed.what = "read" \/ onAbort(owed.req)
  /\ Ends("astray") /\ UNCHANGED <<net, replayer>>

-----------------------------------------------------------------------------
(* Replay: the scheduler, and the platform. *)
Scheduling == PageIdle /\ held = Nothing
AtEnd ==
  /\ Scheduling /\ Terminated /\ Ends(Terminal)
  /\ UNCHANGED <<net, replayer>>
MissingRead ==
  /\ Scheduling /\ ~Terminated /\ Cursor.rec # "Task" /\ Ends("diverged")
  /\ UNCHANGED <<net, replayer>>

Released(r) == Scheduling /\ Cursor.rec = "Task" /\ requests[r].task = Cursor.id
Takes(n) ==
  /\ at' = at + n
  /\ UNCHANGED <<phase, log, nextTask, script, turn, turnNo, opNo, verdict>>

(* A failure of a request the platform timed out waits for its own signal. *)
RunHead ==
  /\ \E r \in Made :
       /\ Released(r) /\ requests[r].phase = "head"
       /\ LET got == log[at + 1]
              shown == IF got.value = "response" THEN "response" ELSE got.value
          IN CASE got = Refusal -> Ends("non-replayable") /\ UNCHANGED <<requests, held>>
               [] got.rec = "NetResponse" /\ got.id = r ->
                    /\ Sets(r, "phase", IF got.value = "head" THEN "body" ELSE "done")
                    /\ IF got.value = "timeout" /\ ~requests[r].aborted
                       THEN /\ held' = [req |-> r, what |-> "signal", item |-> shown]
                            /\ Takes(2)
                       ELSE /\ held' = held
                            /\ BeginsAgain(requests[r].task, "head", <<r, shown>>, 2, 0)
               [] OTHER -> Ends("diverged") /\ UNCHANGED <<requests, held>>
  /\ UNCHANGED <<page, owed, went>>

(* A piece for a read that waits; a whole-body read pulls on.              *)
RunPiece ==
  /\ \E r \in Made :
       /\ Released(r) /\ requests[r].phase = "body" /\ requests[r].reading
       /\ IF ~BodyNext(r, at + 1) THEN Ends("diverged") /\ UNCHANGED requests
          ELSE LET records == IF requests[r].made = 0 THEN <<log[at + 1]>>
                              ELSE BodyRun(r, at + 1)
               IN /\ requests' = [requests EXCEPT ![r].end = Ended(records),
                       ![r].reading = requests[r].made > 0 /\ Ended(records) = None]
                  /\ IF requests[r].made = 0
                     THEN BeginsAgain(requests[r].task, "piece", <<r, log[at + 1].value>>, 2, 0)
                     ELSE Takes(1 + Len(records))
  /\ UNCHANGED <<page, owed, replayer>>

(* A whole-body read that was settled: released in the order made, and     *)
(* when the replay's platform has settled it too.                          *)
RunWhole ==
  /\ \E r \in Made :
       /\ Released(r) /\ requests[r].phase # "head" /\ ~requests[r].reading
       /\ IF requests[r].reads = <<>>
          THEN Ends("diverged") /\ UNCHANGED <<requests, held>>
          ELSE LET i == Head(requests[r].reads)
               IN /\ Sets(r, "reads", Tail(requests[r].reads))
                  /\ IF <<r, i>> \in went
                     THEN /\ held' = held
                          /\ BeginsAgain(requests[r].task, "whole", <<r, i, requests[r].end>>, 1, 0)
                     ELSE held' = [req |-> r, what |-> "whole", item |-> i] /\ Takes(1)
  /\ UNCHANGED <<page, owed, went>>

PlatformSettles ==
  /\ Replaying /\ ~turn
  /\ \E r \in Made : \E i \in ToSet(SubSeq(Copies, 1, requests[r].made)) :
       /\ requests[r].end # None /\ <<r, i>> \notin went /\ went' = went \cup {<<r, i>>}
       /\ IF held.what = "whole" /\ held.req = r /\ held.item = i
          THEN /\ held' = Nothing
               /\ BeginsAgain(requests[r].task, "whole", <<r, i, requests[r].end>>, 0, 0)
          ELSE held' = held /\ UNCHANGED session
  /\ UNCHANGED net

(* The signal of a request with a timeout aborts, whenever it likes.       *)
SignalAborts ==
  /\ Replaying /\ ~turn
  /\ \E r \in Made :
       /\ requests[r].way = "timeout" /\ ~requests[r].aborted
       /\ IF held.what = "signal" /\ held.req = r
          THEN /\ held' = Nothing /\ Sets(r, "aborted", TRUE)
               /\ BeginsAgain(requests[r].task, "head", <<r, held.item>>, 0, 0)
          ELSE /\ held' = held
               /\ IF Streams(r) /\ BodyNext(r, at)
                  THEN /\ Takes(1)
                       /\ requests' = [requests EXCEPT ![r].aborted = TRUE,
                            ![r].queue = Append(@, Cursor.value), ![r].end = Ended(<<Cursor>>)]
                  ELSE UNCHANGED session /\ Sets(r, "aborted", TRUE)
  /\ UNCHANGED <<page, owed, went>>

-----------------------------------------------------------------------------
Idle == requests = <<>> /\ owed = Nothing /\ held = Nothing /\ went = {}
SeamInit == page \in Pages /\ Idle
Init == SessionInit /\ SeamInit

Record ==
  \/ ReadClock \/ Fetch \/ ReadPiece \/ ReadWhole \/ Cancel \/ Abort \/ Await \/ EndTurn
  \/ HeadArrives \/ HeadFails \/ PieceWaits \/ PieceArrives \/ PiecePulled \/ BodyFails
  \/ SettleWhole \/ StopRecording
Replay ==
  \/ ReadClockAgain \/ FetchAgain \/ ReadPieceAgain \/ ReadWholeAgain \/ CancelAgain
  \/ AbortAgain \/ AwaitAgain \/ EndTurnAgain \/ GivenEarly
  \/ AtEnd \/ MissingRead
  \/ RunHead \/ RunPiece \/ RunWhole \/ PlatformSettles \/ SignalAborts
Finished == Over /\ UNCHANGED vars
Next == Record \/ Replay \/ Finished
Spec == Init /\ [][Next]_vars

-----------------------------------------------------------------------------
(* A read waits only for a body that streams, and the reads of the whole   *)
(* body still unsettled are among those made.                              *)
TypeOK ==
  /\ \A r \in Made : /\ requests[r].phase \in {"head", "body", "done"}
                      /\ requests[r].reading => Streams(r)
                      /\ ToSet(requests[r].reads) \subseteq ToSet(SubSeq(Copies, 1, requests[r].made))
  /\ owed.req \in Made \cup {0} /\ held.req \in Made \cup {0}
  /\ went \subseteq (DOMAIN page) \X ToSet(Copies)

(* The page is given on replay the heads, pieces, ends and failures of its *)
(* requests in the turns, and where in them, it was given them on record.  *)
FetchReplayed == verdict \notin {"diverged", "astray"}

(* A replay that ends with the log ran all the page did, and passed no     *)
(* request or response that was refused.                                   *)
FetchFollowed ==
  verdict = "done" => turnNo = Len(script) /\ ~HasOp /\ Refusal \notin ToSet(log)

(* Whatever raced: a request has one response, its body's pieces come      *)
(* after the head and before the one end, and no body follows a failure.   *)
Places(kind, r) == {i \in DOMAIN log : log[i].rec = kind /\ log[i].id = r}
BodiesEndOnce ==
  \A r \in DOMAIN page :
    LET heads == Places("NetResponse", r)
        body == Places("WsMessage", r)
    IN /\ Cardinality(heads) <= 1
       /\ \A i \in body : \E h \in heads : h < i /\ log[h].value = "head"
       /\ \A i, j \in body : log[i].query = "end" => j <= i
=============================================================================
