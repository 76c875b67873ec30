------------------------------ MODULE SocketSeams ------------------------------
(***************************************************************************)
(* The page's WebSockets, event streams and beacons, on record             *)
(* (listenStream, patchWebSocket, patchEventSource and patchBeacon of      *)
(* seams-net.ts) and on replay (replay/net.ts).                            *)
(*                                                                         *)
(* The shim's listeners of a connection run before the page's and write a  *)
(* Task and what the event brought.  The replay has no connection: it      *)
(* tells the event by the record after the Task, and an error of an open   *)
(* connection by there being none.                                         *)
(***************************************************************************)
EXTENDS SeamSession, SequencesExt, FiniteSets, TLC

CONSTANTS
  Apis,         \* what the page opens: "webSocket", "eventSource"
  MaxConns,     \* bound: connections
  MaxEvents,    \* bound: events of one connection
  MaxBeacons,   \* bound: beacons
  Edges         \* the cases outside what is replayed that may happen all the same

EdgeCases == {"state after an error", "send at an error", "send too early",
              "named close", "refused message"}

VARIABLES
  nextReq,   \* the next request's id, of the recorder's or the replay's context
  conns,     \* per connection: its ids, its readyState, and the shim's or the replay's part
  closing    \* the socket whose close event is still to come in the platform's task, or 0
vars == <<session, nextReq, conns, closing>>

(* opened: the shim's listener saw it open.  failed: its readyState is not *)
(* what the last event said.  off: the replay runs no more tasks of it.    *)
Conn(api) ==
  [api |-> api, req |-> nextReq, task |-> nextTask, ready |-> 0, opened |-> FALSE,
   failed |-> FALSE, named |-> FALSE, events |-> 0, off |-> FALSE]
kind(c) == IF c.api = "webSocket" THEN "webSocket" ELSE "message"

NetRequest(req, api) == Rec("NetRequest", req, api, None)
NetResponse(req, outcome) == Rec("NetResponse", req, None, outcome)
WsMessage(req, dir, what) == Rec("WsMessage", req, dir, what)
TaskOf(c) == Task(c.task, kind(c))
(* Each kind of refusal is written once. *)
refuseOnce == IF Refusal \in ToSet(log) THEN <<>> ELSE <<Refusal>>

Opening(api) == <<NetRequest(nextReq, api),
                  TaskReg(nextTask, IF api = "webSocket" THEN "webSocket" ELSE "message")>>

-----------------------------------------------------------------------------
(* Recording: what the page does. *)
Open(api) ==
  /\ PageRuns /\ Len(conns) < MaxConns
  /\ conns' = Append(conns, Conn(api)) /\ nextReq' = nextReq + 1
  /\ Does(<<"open " \o api, 0>>, None, Opening(api), 1)
  /\ UNCHANGED closing

(* A socket that is closing, or closed, drops what is sent; one that is    *)
(* connecting throws, after the record is written.                         *)
Send(i) ==
  /\ PageRuns /\ conns[i].api = "webSocket"
  /\ conns[i].ready > 0 \/ "send too early" \in Edges
  /\ Last(log) # TaskOf(conns[i]) \/ "send at an error" \in Edges
  /\ \E readable \in BOOLEAN :
       Does(<<IF readable THEN "send" ELSE "send blob", i>>,
            IF conns[i].ready = 0 THEN "throws" ELSE None,
            (IF readable THEN <<>> ELSE refuseOnce)
              \o <<WsMessage(conns[i].req, "out", "data")>>, 0)
  /\ UNCHANGED <<nextReq, conns, closing>>

BufferedAmount(i) ==
  /\ PageRuns /\ conns[i].api = "webSocket"
  /\ \E amount \in {"none left", "some left"} :
       Does(<<"buffered", i>>, amount,
            <<Rec("PlatformValue", 0, "bufferedAmount " \o ToString(conns[i].req), amount)>>, 0)
  /\ UNCHANGED <<nextReq, conns, closing>>

(* No seam records close(), nor a read of readyState.                      *)
Close(i) ==
  /\ PageRuns /\ Does(<<"close", i>>, None, <<>>, 0)
  /\ conns' = IF conns[i].api = "eventSource"
              THEN [conns EXCEPT ![i].ready = 2, ![i].failed = FALSE]
              ELSE [conns EXCEPT ![i].ready = IF @ < 2 THEN 2 ELSE @]
  /\ UNCHANGED <<nextReq, closing>>
ReadyState(i) ==
  /\ PageRuns /\ (~conns[i].failed \/ "state after an error" \in Edges)
  /\ Does(<<"look", i>>, conns[i].ready, <<>>, 0)
  /\ UNCHANGED <<nextReq, conns, closing>>

(* The page listens to a named event of a stream; so does the shim, first. *)
addEventListener(i) ==
  /\ PageRuns /\ conns[i].api = "eventSource" /\ ~conns[i].named
  /\ conns' = [conns EXCEPT ![i].named = TRUE] /\ Does(<<"listen", i>>, None, <<>>, 0)
  /\ UNCHANGED <<nextReq, closing>>

(* A beacon has no response: whether it was queued is written at once.     *)
Beacon ==
  /\ PageRuns /\ nextReq' = nextReq + 1
  /\ Cardinality({j \in DOMAIN log : log[j].query = "beacon"}) < MaxBeacons
  /\ \E outcome \in {"response", "networkError"} :
       Does(<<"beacon", 0>>, outcome = "response",
            <<NetRequest(nextReq, "beacon"), NetResponse(nextReq, outcome)>>, 0)
  /\ UNCHANGED <<conns, closing>>

ReadClock ==
  /\ PageRuns /\ Does(<<"clock", 0>>, None, <<Rec("Clock", 0, "now", None)>>, 0)
  /\ UNCHANGED <<nextReq, conns, closing>>
EndTurn == TurnOver /\ UNCHANGED <<nextReq, conns, closing>>

-----------------------------------------------------------------------------
(* Recording: the connections' events. *)
Lives(i) == PlatformActs /\ closing = 0 /\ conns[i].events < MaxEvents
(* The page's listeners of an event of connection i, which is then `c`.    *)
Tells(i, event, c, written) ==
  /\ Begins(conns[i].task, "event", event, <<TaskOf(conns[i])>> \o written, 0)
  /\ conns' = [conns EXCEPT ![i] = [c EXCEPT !.events = @ + 1]]
  /\ UNCHANGED nextReq

Opens(i) ==
  /\ Lives(i) /\ conns[i].ready = 0 /\ UNCHANGED closing
  /\ Tells(i, "open", [conns[i] EXCEPT !.ready = 1, !.opened = TRUE, !.failed = FALSE],
           <<NetResponse(conns[i].req, "response")>>)

Message(i) ==
  /\ Lives(i) /\ conns[i].ready = 1 /\ UNCHANGED closing
  /\ \E what \in {"message"}
                 \union (IF conns[i].named THEN {"tick"} ELSE {})
                 \union (IF conns[i].named /\ "named close" \in Edges THEN {"close"} ELSE {}) :
       Tells(i, what, conns[i],
             <<WsMessage(conns[i].req, IF what = "close" THEN "close" ELSE "in", what)>>)
(* Binary data, which a socket hands the page as a Blob unless told not to. *)
BlobMessage(i) ==
  /\ Lives(i) /\ conns[i].ready = 1 /\ conns[i].api = "webSocket"
  /\ "refused message" \in Edges /\ UNCHANGED closing
  /\ Tells(i, "message", conns[i], refuseOnce \o <<WsMessage(conns[i].req, "in", "message")>>)

(* The records of an error: its response, if there was none before.        *)
errorOf(c) == IF c.opened THEN <<>> ELSE <<NetResponse(c.req, "networkError")>>
(* A socket that fails is closed; its close event follows in the task.     *)
SocketFails(i) ==
  /\ Lives(i) /\ conns[i].api = "webSocket" /\ conns[i].ready < 3 /\ closing' = i
  /\ Tells(i, "error", [conns[i] EXCEPT !.ready = 3, !.failed = TRUE], errorOf(conns[i]))
(* Mutated: a socket's close is written as a message.                      *)
closedAsMessage(c, clean) == <<WsMessage(c.req, "in", clean)>>
closed(c, clean) == <<WsMessage(c.req, "close", clean)>>
SocketCloses(i) ==
  /\ PlatformActs /\ conns[i].api = "webSocket" /\ closing' = 0
  /\ \/ closing = i
     \/ closing = 0 /\ conns[i].ready \in 1..2 /\ conns[i].opened
  /\ \E clean \in {"close clean", "close"} :
       Tells(i, clean, [conns[i] EXCEPT !.ready = 3, !.failed = FALSE, !.off = TRUE],
             closed(conns[i], clean))
(* A stream that fails reconnects, or is closed.                           *)
StreamFails(i) ==
  /\ Lives(i) /\ conns[i].api = "eventSource" /\ conns[i].ready < 2 /\ UNCHANGED closing
  /\ \E ready \in {0, 2} :
       Tells(i, "error",
             [conns[i] EXCEPT !.ready = ready, !.failed = ready = 0 \/ conns[i].opened],
             errorOf(conns[i]))

StopRecording ==
  /\ Stop /\ nextReq' = 1 /\ conns' = <<>> /\ closing' = 0

-----------------------------------------------------------------------------
(* Replay: a connection's `ready` is what the replay answers. *)
OpenAgain(api) ==
  /\ PageReplays(<<"open " \o api, 0>>)
  /\ conns' = Append(conns, Conn(api)) /\ nextReq' = nextReq + 1
  /\ IF Matches(Opening(api)) THEN Replays(Opening(api), None, 1) ELSE Diverges(Opening(api))
  /\ UNCHANGED closing

SendAgain(i) ==
  /\ PageReplays(<<"send", i>>) \/ PageReplays(<<"send blob", i>>)
  /\ LET asked == <<WsMessage(conns[i].req, "out", "data")>>
     IN IF Matches(asked) THEN Replays(asked, None, 0) ELSE Diverges(asked)
  /\ UNCHANGED <<nextReq, conns, closing>>
BufferedAmountAgain(i) ==
  /\ PageReplays(<<"buffered", i>>)
  /\ LET asked == <<Rec("PlatformValue", 0, "bufferedAmount " \o ToString(conns[i].req), None)>>
     IN IF Matches(asked) THEN Replays(asked, Cursor.value, 0) ELSE Diverges(asked)
  /\ UNCHANGED <<nextReq, conns, closing>>
streamClosed(c) == [c EXCEPT !.ready = 2, !.off = TRUE]
socketClosing(c) == [c EXCEPT !.ready = IF @ < 2 THEN 2 ELSE @]
CloseAgain(i) ==
  /\ PageReplays(<<"close", i>>) /\ Replays(<<>>, None, 0)
  /\ conns' = [conns EXCEPT ![i] =
       IF @.api = "eventSource" THEN streamClosed(@) ELSE socketClosing(@)]
  /\ UNCHANGED <<nextReq, closing>>
ReadyStateAgain(i) ==
  /\ PageReplays(<<"look", i>>) /\ Replays(<<>>, conns[i].ready, 0)
  /\ UNCHANGED <<nextReq, conns, closing>>
ListenAgain(i) ==
  /\ PageReplays(<<"listen", i>>) /\ Replays(<<>>, None, 0)
  /\ UNCHANGED <<nextReq, conns, closing>>
BeaconAgain ==
  /\ PageReplays(<<"beacon", 0>>) /\ nextReq' = nextReq + 1
  /\ LET asked == <<NetRequest(nextReq, "beacon"), NetResponse(nextReq, None)>>
     IN IF Matches(asked) THEN Replays(asked, log[at + 1].value = "response", 0)
        ELSE Diverges(asked)
  /\ UNCHANGED <<conns, closing>>
ReadClockAgain ==
  /\ PageReplays(<<"clock", 0>>)
  /\ LET asked == <<Rec("Clock", 0, "now", None)>>
     IN IF Matches(asked) THEN Replays(asked, None, 0) ELSE Diverges(asked)
  /\ UNCHANGED <<nextReq, conns, closing>>
EndTurnAgain == TurnOverAgain /\ UNCHANGED <<nextReq, conns, closing>>

(* The connection whose task is next, if it is registered still.           *)
Due(i) == PageIdle /\ Cursor = TaskOf(conns[i]) /\ ~conns[i].off
(* Mutated: the record after the Task is the event's whosever it is.       *)
anyones(i) == log[at + 1].rec \in {"NetResponse", "WsMessage"}
mine(i) == log[at + 1].rec \in {"NetResponse", "WsMessage"} /\ log[at + 1].id = conns[i].req
Again(i, event, c, taken) ==
  /\ BeginsAgain(conns[i].task, "event", event, taken, 0)
  /\ conns' = [conns EXCEPT ![i] = c] /\ UNCHANGED <<nextReq, closing>>

ErrorAgain(i) == Due(i) /\ ~mine(i) /\ Again(i, "error", conns[i], 1)
(* Mutated: the open event comes before the state it tells.                *)
respondedLate(c, outcome) == c
responded(c, outcome) ==
  IF outcome = "response" THEN [c EXCEPT !.ready = 1]
  ELSE IF c.api = "eventSource" THEN [c EXCEPT !.ready = 2] ELSE c
ResponseAgain(i) ==
  /\ Due(i) /\ mine(i) /\ log[at + 1].rec = "NetResponse"
  /\ LET outcome == log[at + 1].value
     IN Again(i, IF outcome = "response" THEN "open" ELSE "error",
              responded(conns[i], outcome), 2)
MessageAgain(i) ==
  /\ Due(i) /\ mine(i) /\ log[at + 1].rec = "WsMessage"
  /\ LET m == log[at + 1]
     IN CASE m.query = "in" -> Again(i, m.value, conns[i], 2)
          [] m.query = "close" /\ conns[i].api = "webSocket" ->
               Again(i, m.value, [conns[i] EXCEPT !.ready = 3, !.off = TRUE], 2)
          [] OTHER -> Ends("diverged") /\ UNCHANGED <<nextReq, conns, closing>>

AtEnd == PageIdle /\ Terminated /\ Ends(Terminal) /\ UNCHANGED <<nextReq, conns, closing>>
MissingRead ==
  /\ PageIdle /\ ~Terminated /\ ~\E i \in DOMAIN conns : Due(i)
  /\ Ends("diverged") /\ UNCHANGED <<nextReq, conns, closing>>

-----------------------------------------------------------------------------
SeamInit == nextReq = 1 /\ conns = <<>> /\ closing = 0
Init == SessionInit /\ SeamInit

Record ==
  \/ \E api \in Apis : Open(api)
  \/ Beacon \/ ReadClock \/ EndTurn \/ StopRecording
  \/ \E i \in DOMAIN conns :
       \/ Send(i) \/ BufferedAmount(i) \/ Close(i) \/ ReadyState(i) \/ addEventListener(i)
       \/ Opens(i) \/ Message(i) \/ BlobMessage(i)
       \/ SocketFails(i) \/ SocketCloses(i) \/ StreamFails(i)
Replay ==
  \/ \E api \in Apis : OpenAgain(api)
  \/ BeaconAgain \/ ReadClockAgain \/ EndTurnAgain \/ AtEnd \/ MissingRead
  \/ \E i \in DOMAIN conns :
       \/ SendAgain(i) \/ BufferedAmountAgain(i) \/ CloseAgain(i) \/ ReadyStateAgain(i)
       \/ ListenAgain(i) \/ ErrorAgain(i) \/ ResponseAgain(i) \/ MessageAgain(i)
Finished == Over /\ UNCHANGED vars
Next == Record \/ Replay \/ Finished
Spec == Init /\ [][Next]_vars

-----------------------------------------------------------------------------
(* A connection's states; only a socket's close is still to come.          *)
TypeOK ==
  /\ nextReq \in 1..(MaxConns + MaxBeacons + 1)
  /\ \A i \in DOMAIN conns :
       conns[i].ready \in (IF conns[i].api = "webSocket" THEN 0..3 ELSE 0..2)
  /\ closing # 0 => conns[closing].api = "webSocket" /\ conns[closing].ready = 3

(* The page's connections tell it on replay what they told it on record,   *)
(* in the state they were in, and what it sends is what it sent.           *)
SocketsReplayed == verdict \notin {"diverged", "astray"}
SocketsFollowed == verdict = "done" => turnNo = Len(script) /\ ~HasOp

(* Nothing comes of a socket after its close.                              *)
ClosedOnce ==
  \A i, j \in DOMAIN log :
    (i < j /\ log[i].query = "close" /\ log[j].rec = "WsMessage" /\ log[j].id = log[i].id)
      => log[j].query = "out"
=============================================================================
