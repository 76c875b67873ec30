------------------------------- MODULE XhrSeams -------------------------------
(***************************************************************************)
(* A request the page makes with XMLHttpRequest, on record (seams-net.ts   *)
(* of packages/boundary-shim/src/browser) and on replay (replay/xhr.ts).   *)
(*                                                                         *)
(* The platform runs the request's states and dispatches its events: some  *)
(* in one task, page code running between them, and those of send() and    *)
(* abort() inside the page's call.  The shim's listeners run before the    *)
(* page's and write what the page can read by then; each ProgressEvent is  *)
(* the last record of its dispatch.  The replay knows from these records   *)
(* alone which events to dispatch, and with which state.                   *)
(***************************************************************************)
EXTENDS SeamSession, SequencesExt, FiniteSets

CONSTANTS
  Pages,      \* the pages: whether each sends async or sync, and listens to the upload
  MaxPieces,  \* bound: what the response's text grows to
  MaxProgress, \* bound: progress events of the request and of its upload
  Edges       \* the cases outside what is replayed that may happen all the same

EdgeCases == {"text of a failure", "abort at its failure", "abort at once",
              "stop at its failure"}

VARIABLES
  page,
  x,         \* the platform's request: readyState, its status, its text
  s,         \* the shim's XhrState
  more,      \* the events the platform's task has still to dispatch
  doing      \* what the replay's task handler has still to do
vars == <<session, page, x, s, more, doing>>

Sizes == <<"nothing", "one", "two", "three">>
Size(n) == Sizes[n + 1]

Unsent == [ready |-> 0, ok |-> FALSE, text |-> 0, sent |-> FALSE, progress |-> 0,
           uploaded |-> FALSE]
newState == [head |-> FALSE, seen |-> 0, done |-> FALSE, failing |-> FALSE]

(* What a page can read of the request.  Of one that failed or was aborted *)
(* the platform shows no text.                                             *)
Look ==
  <<x.ready, IF x.ready >= 2 /\ x.ok THEN "ok" ELSE None,
    IF (x.ready >= 2 /\ x.ok) \/ "text of a failure" \in Edges THEN x.text ELSE 0>>

Watched == "upload" \in page
Id == 1
XhrEvent(target, type) == Rec("XhrEvent", Id, None, target \o " " \o type)
NetResponse(outcome) == Rec("NetResponse", Id, None, outcome)
Piece(n) == Rec("WsMessage", Id, "in", Size(n))
BodyEnd(outcome) == Rec("WsMessage", Id, "end", outcome)
NetTask == Task(Id, "network")
Sends == <<Rec("NetRequest", Id, "xhr", None), TaskReg(Id, "network")>>

-----------------------------------------------------------------------------
(* Recording: what is written. *)

(* Mutated: the head of a response is not written before its bytes.        *)
headLate == <<>>
head == IF s.head THEN <<>> ELSE <<NetResponse("head")>>
(* What responseText grew by: at LOADING always, else when there is some.  *)
textDelta(text) == IF text > s.seen THEN <<Piece(text)>> ELSE <<>>

(* Mutated: DONE writes the end and not the rest of the text.              *)
finishShort(text) == IF s.head THEN <<BodyEnd("response")>> ELSE <<NetResponse("response")>>
(* DONE, with a response: the rest and the end, or all at once.            *)
finish(text) ==
  IF s.head THEN textDelta(text) \o <<BodyEnd("response")>> ELSE <<NetResponse("response")>>
(* How the request failed. *)
failure(outcome) == IF s.head THEN <<BodyEnd(outcome)>> ELSE <<NetResponse(outcome)>>

(* Mutated: a timeout is not taken for the failure's telling. *)
TellsErrors(type) == s.failing /\ type = "error"
(* An event's own records: its failure first, if this is what tells it. *)
Tells(type) == s.failing /\ type \in {"error", "timeout"}
onEvent(target, type) ==
  (IF Tells(type) THEN failure(IF type = "error" THEN "networkError" ELSE type) ELSE <<>>)
    \o <<XhrEvent(target, type)>>

(* A turn of the page's: one event dispatched, with what it can read.      *)
Dispatches(target, type, written) ==
  Begins(Id, "event", <<target, type, Look'>>, written, 0)

-----------------------------------------------------------------------------
(* Recording: what the page does. *)
SendAsync ==
  /\ PageRuns /\ "async" \in page /\ ~x.sent
  /\ x' = [x EXCEPT !.ready = 1, !.sent = TRUE]
  /\ LET fired == <<"request loadstart">> \o (IF Watched THEN <<"upload loadstart">> ELSE <<>>)
     IN Does(<<"send", 0>>, fired,
             Sends \o [i \in DOMAIN fired |-> Rec("XhrEvent", Id, None, fired[i])], 1)
  /\ UNCHANGED <<page, s, more, doing>>

(* A synchronous send: all of it inside the call.                          *)
SendSync ==
  /\ PageRuns /\ "sync" \in page /\ ~x.sent
  /\ s' = [s EXCEPT !.done = TRUE]
  /\ \/ /\ x' = [x EXCEPT !.ready = 4, !.sent = TRUE, !.ok = TRUE, !.text = MaxPieces]
        /\ Does(<<"send", 0>>, <<"ok">>,
                Sends \o finish(MaxPieces) \o
                <<XhrEvent("request", "load"), XhrEvent("request", "loadend")>>, 1)
     \/ /\ x' = [x EXCEPT !.ready = 4, !.sent = TRUE]
        /\ Does(<<"send", 0>>, <<"throws">>, Sends \o failure("networkError"), 1)
  /\ UNCHANGED <<page, more, doing>>

(* abort(): of a request under way, its events inside the call.            *)
Abort ==
  /\ PageRuns /\ x.sent /\ x.ready > 0
  /\ \/ /\ x.ready < 4
        /\ \/ Last(log).rec \notin {"NetResponse", "WsMessage"}
           \/ "abort at once" \in Edges
        /\ s' = [s EXCEPT !.done = TRUE]
        /\ LET fired == (IF Watched /\ ~x.uploaded
                         THEN <<"upload abort", "upload loadend">> ELSE <<>>)
                          \o <<"request abort", "request loadend">>
           IN Does(<<"abort", 0>>, fired,
                   failure("abort") \o
                     [i \in DOMAIN fired |-> Rec("XhrEvent", Id, None, fired[i])], 0)
     \/ /\ x.ready = 4 /\ (more = <<>> \/ (s.failing /\ "abort at its failure" \in Edges))
        /\ Does(<<"abort", 0>>, <<>>, <<>>, 0) /\ s' = s
  /\ x' = [x EXCEPT !.ready = 0, !.ok = FALSE, !.text = 0]
  /\ UNCHANGED <<page, more, doing>>

LookAt ==
  /\ PageRuns /\ x.sent /\ Does(<<"look", 0>>, Look, <<>>, 0)
  /\ UNCHANGED <<page, x, s, more, doing>>
ReadClock ==
  /\ PageRuns /\ Does(<<"clock", 0>>, <<>>, <<Rec("Clock", 0, "now", None)>>, 0)
  /\ UNCHANGED <<page, x, s, more, doing>>
EndTurn == TurnOver /\ UNCHANGED <<page, x, s, more, doing>>

-----------------------------------------------------------------------------
(* Recording: the platform's tasks. *)
InFlight == PlatformActs /\ more = <<>> /\ x.sent /\ x.ready \in 1..3

onUploadEvent ==
  /\ InFlight /\ Watched /\ ~x.uploaded
  /\ \/ /\ x.progress < MaxProgress /\ x' = [x EXCEPT !.progress = @ + 1]
        /\ Dispatches("upload", "progress", <<NetTask, XhrEvent("upload", "progress")>>)
     \/ /\ x' = [x EXCEPT !.uploaded = TRUE]
        /\ Dispatches("upload", "load", <<NetTask, XhrEvent("upload", "load")>>)
  /\ UNCHANGED <<page, s, more, doing>>

HeadersReceived ==
  /\ InFlight /\ x.ready = 1 /\ (Watched => x.uploaded)
  /\ x' = [x EXCEPT !.ready = 2, !.ok = TRUE] /\ s' = [s EXCEPT !.head = TRUE]
  /\ Dispatches("request", "readystatechange", <<NetTask>> \o head)
  /\ UNCHANGED <<page, more, doing>>
Loading ==
  /\ InFlight /\ x.ready >= 2 /\ x.text < MaxPieces
  /\ x' = [x EXCEPT !.ready = 3, !.text = @ + 1]
  /\ s' = [s EXCEPT !.seen = x.text + 1]
  /\ Dispatches("request", "readystatechange", <<NetTask, Piece(x.text + 1)>>)
  /\ UNCHANGED <<page, more, doing>>
(* The text may have grown since the last event. *)
onProgress ==
  /\ InFlight /\ x.ready = 3 /\ x.progress < MaxProgress
  /\ \E text \in x.text..MaxPieces :
       /\ x' = [x EXCEPT !.text = text, !.progress = @ + 1] /\ s' = [s EXCEPT !.seen = text]
       /\ Dispatches("request", "progress",
            <<NetTask>> \o textDelta(text) \o <<XhrEvent("request", "progress")>>)
  /\ UNCHANGED <<page, more, doing>>

Rest == <<<<"request", "load">>, <<"request", "loadend">>>>
Done ==
  /\ InFlight /\ x.ready >= 2
  /\ \E text \in x.text..MaxPieces :
       /\ x' = [x EXCEPT !.ready = 4, !.text = text]
       /\ \/ /\ more' = Rest
             /\ Dispatches("request", "readystatechange", <<NetTask>> \o finish(text))
          \/ /\ more' = <<<<"request", "readystatechange">>>> \o Rest
             /\ Dispatches("request", "progress",
                  <<NetTask>> \o finish(text) \o <<XhrEvent("request", "progress")>>)
  /\ s' = [s EXCEPT !.done = TRUE]
  /\ UNCHANGED <<page, doing>>

(* It failed: at DONE the page sees no status, and the event that follows  *)
(* tells how.                                                              *)
Fails ==
  /\ InFlight
  /\ x' = [x EXCEPT !.ready = 4, !.ok = FALSE, !.text = 0]
  /\ s' = [s EXCEPT !.done = TRUE, !.failing = TRUE]
  /\ \E how \in {"error", "timeout"} :
       more' = (IF Watched /\ ~x.uploaded
                THEN <<<<"upload", how>>, <<"upload", "loadend">>>> ELSE <<>>)
                 \o <<<<"request", how>>, <<"request", "loadend">>>>
  /\ Len(script) + Len(more') <= MaxTurns  \* bound: room to tell how
  /\ Dispatches("request", "readystatechange", <<NetTask>>)
  /\ UNCHANGED <<page, doing>>

(* The next event of the platform's task.                                  *)
DispatchNext ==
  /\ PlatformActs /\ more # <<>> /\ more' = Tail(more) /\ UNCHANGED <<page, x, doing>>
  /\ LET target == Head(more)[1]
         type == Head(more)[2]
     IN /\ Dispatches(target, type,
              IF type = "readystatechange" THEN <<>> ELSE onEvent(target, type))
        /\ s' = [s EXCEPT !.failing = @ /\ ~Tells(type)]

StopRecording ==
  /\ Stop /\ (~s.failing \/ "stop at its failure" \in Edges)
  /\ x' = Unsent /\ s' = newState /\ more' = <<>>
  /\ UNCHANGED <<page, doing>>

-----------------------------------------------------------------------------
(* Replay: x is the replay's XState; s.done, its done.                     *)
Own(k, kinds) == k <= Len(log) /\ log[k].rec \in kinds /\ log[k].id = Id
responseNext(k) == Own(k, {"NetResponse", "WsMessage"})
eventNext(k) == Own(k, {"XhrEvent"})

(* The response records from the k-th record on, up to the response's end. *)
IsEnd(r) == r.query = "end" \/ (r.rec = "NetResponse" /\ r.value # "head")
Responses(k) ==
  LET n == CHOOSE m \in 0..(Len(log) - k + 1) :
             /\ \A j \in 0..(m - 1) : responseNext(k + j)
             /\ \A j \in 0..(m - 2) : ~IsEnd(log[k + j])
             /\ ~responseNext(k + m) \/ (m > 0 /\ IsEnd(log[k + m - 1]))
  IN SubSeq(log, k, k + n - 1)
Events(k) ==
  LET n == CHOOSE m \in 0..(Len(log) - k + 1) :
             ~eventNext(k + m) /\ \A j \in 0..(m - 1) : eventNext(k + j)
  IN [i \in 1..n |-> log[k + i - 1].value]

(* Mutated: a failed request keeps its status.                             *)
failedKeeps(y) == y
failed(y) == [y EXCEPT !.ok = FALSE]
SizeOf(value) == CHOOSE n \in 0..MaxPieces : Size(n) = value
(* The request after one response record, and after several.               *)
apply(y, r) ==
  CASE r.rec = "NetResponse" /\ r.value = "head" -> [y EXCEPT !.ready = 2, !.ok = TRUE]
    [] r.rec = "NetResponse" /\ r.value = "response" ->
         [y EXCEPT !.ready = 4, !.ok = TRUE, !.text = MaxPieces]
    [] r.query = "in" -> [y EXCEPT !.ready = 3, !.text = SizeOf(r.value)]
    [] r.query = "end" /\ r.value = "response" -> [y EXCEPT !.ready = 4]
    [] OTHER -> [failed(y) EXCEPT !.ready = 4]
consumeResponse(y, records) == FoldLeft(apply, y, records)
Over4(records) == records # <<>> /\ IsEnd(Last(records))

(* The request's next record, wherever it is, is a failure.                *)
failsNext(k) ==
  \E i \in k..Len(log) :
    /\ Own(i, {"NetResponse", "WsMessage", "XhrEvent"})
    /\ \A j \in k..(i - 1) : ~Own(j, {"NetResponse", "WsMessage", "XhrEvent"})
    /\ IsEnd(log[i]) /\ log[i].value \in {"networkError", "timeout"}

SendAgain ==
  /\ PageReplays(<<"send", 0>>)
  /\ IF Matches(Sends)
     THEN LET k == at + 2
              records == Responses(k)
          IN IF "async" \in page
             THEN /\ Replays(Sends \o SubSeq(log, k, k + Len(Events(k)) - 1), Events(k), 1)
                  /\ x' = [x EXCEPT !.ready = 1, !.sent = TRUE] /\ s' = s
             ELSE IF records = <<>> THEN Ends("diverged") /\ UNCHANGED <<x, s>>
             ELSE LET y == consumeResponse([x EXCEPT !.sent = TRUE], records)
                      l == k + Len(records)
                  IN /\ x' = y /\ s' = [s EXCEPT !.done = TRUE]
                     /\ Replays(Sends \o records \o
                                  (IF y.ok THEN SubSeq(log, l, l + Len(Events(l)) - 1) ELSE <<>>),
                                IF y.ok THEN <<"ok">> ELSE <<"throws">>, 1)
     ELSE Diverges(Sends) /\ UNCHANGED <<x, s>>
  /\ UNCHANGED <<page, more, doing>>

AbortAgain ==
  /\ PageReplays(<<"abort", 0>>)
  /\ IF s.done
     THEN Replays(<<>>, <<>>, 0) /\ s' = s /\ x' = [x EXCEPT !.ready = 0]
     ELSE LET n == IF responseNext(at) THEN 1 ELSE 0
              fired == Events(at + n)
          IN /\ Replays(SubSeq(log, at, at + n + Len(fired) - 1), fired, 0)
             /\ s' = [s EXCEPT !.done = TRUE]
             /\ x' = [failed(x) EXCEPT !.ready = 0]
  /\ UNCHANGED <<page, more, doing>>

LookAgain ==
  /\ PageReplays(<<"look", 0>>) /\ Replays(<<>>, Look, 0)
  /\ UNCHANGED <<page, x, s, more, doing>>
ReadClockAgain ==
  /\ PageReplays(<<"clock", 0>>)
  /\ LET asked == <<Rec("Clock", 0, "now", None)>>
     IN IF Matches(asked) THEN Replays(asked, <<>>, 0) ELSE Diverges(asked)
  /\ UNCHANGED <<page, x, s, more, doing>>
EndTurnAgain == TurnOverAgain /\ UNCHANGED <<page, x, s, more, doing>>

(* One dispatch of the replay's: an event of the log's, or a state change. *)
Again(target, type, taken) == BeginsAgain(Id, "event", <<target, type, Look'>>, taken, 0)
readyStateChange(taken) == Again("request", "readystatechange", taken)
Names == [t \in {"request", "upload"}, e \in {"loadstart", "progress", "load", "loadend",
                                              "error", "timeout", "abort"} |-> t \o " " \o e]
dispatchEvent(k, taken) ==
  \E p \in DOMAIN Names : Names[p] = log[k].value /\ Again(p[1], p[2], taken)
IsProgress(k) == eventNext(k) /\ log[k].value = "request progress"

Scheduling == PageIdle /\ doing = <<>>
Registered == Cursor.rec = "Task" /\ x.sent /\ ~s.done
AtEnd ==
  /\ PageIdle /\ Terminated /\ (doing = <<>> \/ turnNo = Len(script)) /\ Ends(Terminal)
  /\ UNCHANGED <<page, x, s, more, doing>>
MissingRead ==
  /\ Scheduling /\ ~Terminated /\ ~Registered /\ Ends("diverged")
  /\ UNCHANGED <<page, x, s, more, doing>>

(* A task of the request's with no record of it at once: it failed, or     *)
(* brought nothing.                                                        *)
RunBare ==
  /\ Scheduling /\ Registered /\ ~responseNext(at + 1) /\ ~eventNext(at + 1)
  /\ IF failsNext(at + 1)
     THEN x' = [failed(x) EXCEPT !.ready = 4] /\ doing' = <<"failure", "drain">>
     ELSE x' = x /\ doing' = <<>>
  /\ readyStateChange(1)
  /\ UNCHANGED <<page, s, more>>
(* A task that brought records: its response's, then its events.           *)
RunTask ==
  /\ Scheduling /\ Registered /\ (responseNext(at + 1) \/ eventNext(at + 1))
  /\ LET records == Responses(at + 1)
         k == at + 1 + Len(records)
         over == Over4(records)
     IN /\ x' = consumeResponse(x, records) /\ s' = [s EXCEPT !.done = over]
        /\ IF IsProgress(k)
           THEN /\ dispatchEvent(k, Len(records) + 2)
                /\ doing' = IF over THEN <<"change", "drain">> ELSE <<>>
           ELSE /\ doing' = <<"drain">>
                /\ IF records # <<>> THEN readyStateChange(Len(records) + 1)
                   ELSE dispatchEvent(k, 2)
  /\ UNCHANGED <<page, more>>
(* What the handler goes on with, once the page's listeners have run. *)
GoesOn ==
  /\ PageIdle /\ doing # <<>> /\ ~(Terminated /\ turnNo = Len(script))
  /\ LET step == Head(doing)
     IN CASE step = "change" ->
               UNCHANGED <<x, s>> /\ readyStateChange(0) /\ doing' = Tail(doing)
          [] step = "drain" /\ eventNext(at) ->
               UNCHANGED <<doing, x, s>> /\ dispatchEvent(at, 1)
          [] step = "drain" /\ ~eventNext(at) ->
               doing' = Tail(doing) /\ UNCHANGED <<session, x, s>>
          [] step = "failure" /\ responseNext(at) ->
               /\ x' = apply(x, Cursor) /\ s' = [s EXCEPT !.done = TRUE]
               /\ doing' = Tail(doing) /\ at' = at + 1
               /\ UNCHANGED <<phase, log, nextTask, script, turn, turnNo, opNo, verdict>>
          [] step = "failure" /\ ~responseNext(at) ->
               Ends("diverged") /\ UNCHANGED <<doing, x, s>>
  /\ UNCHANGED <<page, more>>

-----------------------------------------------------------------------------
SeamInit == page \in Pages /\ x = Unsent /\ s = newState /\ more = <<>> /\ doing = <<>>
Init == SessionInit /\ SeamInit

Record ==
  \/ SendAsync \/ SendSync \/ Abort \/ LookAt \/ ReadClock \/ EndTurn
  \/ onUploadEvent \/ HeadersReceived \/ Loading \/ onProgress \/ Done \/ Fails
  \/ DispatchNext \/ StopRecording
Replay ==
  \/ SendAgain \/ AbortAgain \/ LookAgain \/ ReadClockAgain \/ EndTurnAgain
  \/ RunBare \/ RunTask \/ GoesOn \/ AtEnd \/ MissingRead
Finished == Over /\ UNCHANGED vars
Next == Record \/ Replay \/ Finished
Spec == Init /\ [][Next]_vars

-----------------------------------------------------------------------------
(* A request shows a status from its headers on, and fails only when DONE. *)
TypeOK ==
  /\ x.ready \in 0..4 /\ (Recording /\ x.ok => x.ready >= 2) /\ x.text \in 0..MaxPieces
  /\ x.progress \in 0..MaxProgress /\ (s.failing => more # <<>>)

(* Every event of the request is dispatched to the page on replay, in the  *)
(* order of the record, with the state, status and text the page could     *)
(* read then.                                                              *)
XhrReplayed == verdict \notin {"diverged", "astray"}
XhrFollowed == verdict = "done" => turnNo = Len(script) /\ ~HasOp

(* The request ends once: after its response's or its failure's end only   *)
(* events are written.                                                     *)
XhrEndsOnce ==
  \A i, j \in DOMAIN log :
    (i < j /\ log[i].rec \in {"NetResponse", "WsMessage"} /\ IsEnd(log[i]))
      => log[j].rec \notin {"NetResponse", "WsMessage"}
=============================================================================
