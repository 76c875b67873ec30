----------------------------- MODULE NodeTrace ------------------------------
(***************************************************************************)
(* The tracing recorder in Node: what instrumented code calls              *)
(* (packages/runtime/src/runtime.ts), its buffer of events (buffer.ts),    *)
(* the tracker of async contexts (async-context.ts), the Express           *)
(* middleware's spans (packages/express/src/index.ts) and the native       *)
(* recorder's event vector and span table (crates/recorder_native).        *)
(*                                                                         *)
(* The event loop runs one async context at a time, in any order.  A       *)
(* recording call encodes its values between the check of the context and  *)
(* the push of its event, and encoding may run instrumented code of the    *)
(* program (a getter), whose own recording calls nest: encoding is the     *)
(* stack of the calls under way.  Every call of the program has a number,  *)
(* which stands for its site and for its values: what is attached to an    *)
(* event is its own if the numbers agree.                                  *)
(***************************************************************************)
EXTENDS FiniteSets, SpanResolver

CONSTANTS
  Capacity,   \* events a window of the buffer holds
  Contexts,   \* async contexts, as their ids
  Requests,   \* requests a server takes
  MaxCalls,   \* bound: recording calls of the program
  MaxNest,    \* bound: recording calls under way at once
  MaxBatches, \* bound: the batches counted, of which some may fail
  MaxFailures \* bound: appendEvents calls that fail

ASSUME Bounds ==
  /\ Capacity \in Nat \ {0} /\ Contexts \subseteq Nat \ {0} /\ Contexts # {}
  /\ {MaxCalls, MaxNest, MaxBatches, MaxFailures} \subseteq Nat

VARIABLES
  rt,        \* the runtime, with the native recorder it fills
  encoding,  \* the recording calls under way, outermost first
  requests,  \* the middleware's state of each request
  calls,     \* recording calls the program has made
  failing,   \* which calls of appendEvents fail
  recorded   \* for the properties: what happened, in order

vars == <<rt, encoding, requests, calls, failing, recorded>>

-----------------------------------------------------------------------------
(* The native recorder takes a batch: append_events looks each event's     *)
(* attachment up by its index, the last entry of an index winning.  An     *)
(* event of the program is followed by its values; a console write is its  *)
(* attachment, and is skipped without one.  (In the vector a call and a    *)
(* return hold their values, and an assignment follows its own.)           *)
Attachment(r, i) ==
  LET entries == {j \in DOMAIN r.attached : r.attached[j].eventIndex = i}
  IN IF entries = {} THEN <<>> ELSE <<r.attached[Max(entries)].of>>
Lower(r, i) ==
  LET e == r.buffer[i]
      values == Attachment(r, i)
  IN CASE e.kind = "event" ->
            <<e>> \o [j \in DOMAIN values |-> [kind |-> "value", id |-> values[j]]]
       [] e.kind = "write" ->
            [j \in DOMAIN values |-> [kind |-> "write", id |-> values[j]]]
       [] OTHER -> <<e>>
Lowered(r) == FlattenSeq([i \in DOMAIN r.buffer |-> Lower(r, i)])

(* flush, with the callback startRecording installs: the batch goes to the *)
(* native recorder, unless the session stopped or the call fails, which is *)
(* reported and not retried; the window is emptied whatever happened.      *)
FlushOf(r) ==
  LET taken == ~r.stopped /\ (r.batches = MaxBatches \/ r.batches + 1 \notin failing)
  IN IF r.buffer = <<>> THEN r
     ELSE [r EXCEPT
             !.events = IF taken THEN @ \o Lowered(r) ELSE @,
             !.lost = IF taken \/ r.stopped THEN @
                      ELSE @ \cup {r.attached[j].of : j \in DOMAIN r.attached},
             !.failed = @ \/ (~r.stopped /\ ~taken),
             !.batches = IF r.stopped \/ @ = MaxBatches THEN @ ELSE @ + 1,
             !.buffer = <<>>, !.attached = <<>>]

(* Mutated: the attachment is stored after the window may be flushed. *)
PushFlushesFirst(r, kind, id, of) ==
  LET q == [r EXCEPT !.buffer = Append(@, [kind |-> kind, id |-> id])]
      flushed == IF Len(q.buffer) >= Capacity THEN FlushOf(q) ELSE q
  IN [flushed EXCEPT !.attached = IF of = 0 THEN @
                       ELSE Append(@, [eventIndex |-> Len(r.buffer) + 1, of |-> of])]
(* Mutated: the window is flushed one event late. *)
PushOverfills(r, kind, id, of) ==
  LET q == [r EXCEPT
              !.buffer = Append(@, [kind |-> kind, id |-> id]),
              !.attached = IF of = 0 THEN @
                           ELSE Append(@, [eventIndex |-> Len(r.buffer) + 1, of |-> of])]
  IN IF Len(q.buffer) > Capacity THEN FlushOf(q) ELSE q
(* push: the attachment is stored with the event's index before the window *)
(* may be flushed.  A number of 0 attaches nothing.                        *)
Push(r, kind, id, of) ==
  LET q == [r EXCEPT
              !.buffer = Append(@, [kind |-> kind, id |-> id]),
              !.attached = IF of = 0 THEN @
                           ELSE Append(@, [eventIndex |-> Len(r.buffer) + 1, of |-> of])]
  IN IF Len(q.buffer) >= Capacity THEN FlushOf(q) ELSE q

(* Mutated: a started context is not remembered. *)
CheckContextForgets(r, ctx) ==
  IF ~r.tracking \/ ctx = r.lastCtx THEN r
  ELSE LET started == IF ctx \in r.known THEN r ELSE Push(r, "start", ctx, 0)
       IN [Push(started, "switch", ctx, 0) EXCEPT !.lastCtx = ctx]
(* checkContext: a context is started once, and switched to when it is not *)
(* the one of the last event checked.                                      *)
CheckContext(r, ctx) ==
  IF ~r.tracking \/ ctx = r.lastCtx THEN r
  ELSE LET started == IF ctx \in r.known THEN r
                      ELSE Push([r EXCEPT !.known = @ \cup {ctx}], "start", ctx, 0)
       IN [Push(started, "switch", ctx, 0) EXCEPT !.lastCtx = ctx]

-----------------------------------------------------------------------------
InFlight == {q \in Requests : requests[q].phase = "open"}
Note(kind, ctx, of, open) ==
  recorded' = IF rt.stopped THEN recorded
              ELSE Append(recorded, [kind |-> kind, ctx |-> ctx, of |-> of, open |-> open])

(* Code of ctx can run: no recording call is under way, or its own is. *)
Runs(ctx) == encoding # <<>> => Last(encoding).ctx = ctx

(* startRecording returned: the tracker is enabled, its first event made. *)
Init ==
  /\ failing \in {F \in SUBSET (1..MaxBatches) : Cardinality(F) <= MaxFailures}
  /\ \E ctx \in Contexts :
       rt = Push([buffer |-> <<>>, attached |-> <<>>, known |-> {ctx},
                  lastCtx |-> ctx, tracking |-> TRUE, stopped |-> FALSE,
                  batches |-> 0, events |-> <<>>, spans |-> <<>>,
                  lost |-> {}, failed |-> FALSE], "start", ctx, 0)
  /\ encoding = <<>> /\ calls = 0 /\ recorded = <<>>
  /\ requests = [q \in Requests |-> [phase |-> "none", spanId |-> 0]]

(* step, enter, ret, write or a marker: the context is checked, the values *)
(* are about to be encoded.                                                *)
CallBegins(ctx) ==
  /\ calls < MaxCalls /\ Len(encoding) < MaxNest /\ Runs(ctx)
  /\ calls' = calls + 1
  /\ encoding' = Append(encoding, [ctx |-> ctx, of |-> calls + 1])
  /\ rt' = CheckContext(rt, ctx)
  /\ Note("check", ctx, 0, InFlight)
  /\ UNCHANGED <<requests, failing>>
(* They are: the event is pushed with them. *)
CallEnds ==
  /\ encoding # <<>>
  /\ LET call == Last(encoding)
     IN /\ rt' = Push(rt, "event", call.of, call.of)
        /\ Note("event", call.ctx, call.of, InFlight)
  /\ encoding' = Front(encoding)
  /\ UNCHANGED <<requests, calls, failing>>
(* The conversion of one of them throws: the call is given up. *)
CallFails ==
  /\ encoding # <<>> /\ encoding' = Front(encoding)
  /\ UNCHANGED <<rt, requests, calls, failing, recorded>>

(* console.log, while it is captured: no context is checked. *)
ConsoleWrites(ctx) ==
  /\ calls < MaxCalls /\ Runs(ctx) /\ ~rt.stopped
  /\ calls' = calls + 1
  /\ rt' = Push(rt, "write", 0, calls + 1)
  /\ Note("write", ctx, calls + 1, InFlight)
  /\ UNCHANGED <<encoding, requests, failing>>

(* span_open and span_close take the length of the event vector as mark;   *)
(* a span already closed stays as it is.                                   *)
SpanOpen(r, q) ==
  [r EXCEPT !.spans = Append(@, [opened |-> Len(r.events), closed |-> Unclosed, request |-> q])]
SpanClose(r, spanId) ==
  IF r.spans[spanId].closed # Unclosed THEN r
  ELSE [r EXCEPT !.spans[spanId].closed = Len(r.events)]

(* webRequestStart, webRequestStop: the context is checked and the window  *)
(* flushed, so that the mark is the end of all the program recorded.       *)
(* Mutated: the context is not checked. *)
WebRequestStartUnchecked(r, q, ctx) == SpanOpen(FlushOf(r), q)
WebRequestStart(r, q, ctx) == SpanOpen(FlushOf(CheckContext(r, ctx)), q)
(* Mutated: the window is not flushed. *)
WebRequestStopUnflushed(r, spanId, ctx) == SpanClose(CheckContext(r, ctx), spanId)
WebRequestStop(r, spanId, ctx) == SpanClose(FlushOf(CheckContext(r, ctx)), spanId)

(* A request enters the middleware, which opens a span if it is recorded.  *)
(* (No value's encoding makes the program take or answer a request.)       *)
RequestArrives(q, ctx) ==
  /\ encoding = <<>> /\ requests[q].phase = "none"
  /\ IF rt.stopped
     THEN /\ requests' = [requests EXCEPT ![q] = [phase |-> "open", spanId |-> 0]]
          /\ rt' = rt
     ELSE /\ rt' = WebRequestStart(rt, q, ctx)
          /\ requests' = [requests EXCEPT
                            ![q] = [phase |-> "open", spanId |-> Len(rt'.spans)]]
  /\ Note("open", ctx, 0, InFlight \cup {q})
  /\ UNCHANGED <<encoding, calls, failing>>
(* res.end returns, or finish or close is dispatched: settle, once.        *)
RequestSettles(q, ctx) ==
  /\ encoding = <<>> /\ requests[q].phase = "open"
  /\ requests' = [requests EXCEPT ![q].phase = "settled"]
  /\ rt' = IF rt.stopped \/ requests[q].spanId = 0 THEN rt
           ELSE WebRequestStop(rt, requests[q].spanId, ctx)
  /\ Note("close", ctx, 0, InFlight)
  /\ UNCHANGED <<encoding, calls, failing>>

(* flush, by a caller of the runtime or by one of its process hooks. *)
Flush ==
  /\ rt.buffer # <<>> /\ rt' = FlushOf(rt)
  /\ UNCHANGED <<encoding, requests, calls, failing, recorded>>
(* Mutated: the session is stopped before the last flush. *)
StopDropsWindow ==
  /\ ~rt.stopped
  /\ rt' = FlushOf([rt EXCEPT !.tracking = FALSE, !.stopped = TRUE])
  /\ UNCHANGED <<encoding, requests, calls, failing, recorded>>
(* stop: the tracker is disabled, what is left is flushed, and only then   *)
(* is the session stopped.                                                 *)
Stop ==
  /\ ~rt.stopped
  /\ rt' = [FlushOf([rt EXCEPT !.tracking = FALSE]) EXCEPT !.stopped = TRUE]
  /\ UNCHANGED <<encoding, requests, calls, failing, recorded>>

Next ==
  \/ \E ctx \in Contexts :
       \/ CallBegins(ctx) \/ ConsoleWrites(ctx)
       \/ \E q \in Requests : RequestArrives(q, ctx) \/ RequestSettles(q, ctx)
  \/ CallEnds \/ CallFails \/ Flush \/ Stop
Spec == Init /\ [][Next]_vars

Symmetry == Permutations(Requests)

-----------------------------------------------------------------------------
(* The variables have their types, and a window is never full between two  *)
(* calls: push would have written past the end of its arrays.              *)
Event == [kind : {"start", "switch", "event", "write", "value"}, id : Nat]
TypeOK ==
  /\ rt.buffer \in Seq(Event) /\ Len(rt.buffer) < Capacity
  /\ rt.attached \in Seq([eventIndex : 1..Len(rt.buffer), of : 1..calls])
  /\ rt.events \in Seq(Event) /\ rt.lost \subseteq 1..calls
  /\ rt.known \subseteq Contexts /\ rt.lastCtx \in Contexts
  /\ \A i \in DOMAIN rt.spans : /\ rt.spans[i].opened \in 0..Len(rt.events)
                                /\ rt.spans[i].closed \in -1..Len(rt.events)
  /\ \A i \in DOMAIN encoding : encoding[i] \in [ctx : Contexts, of : 1..calls]
  /\ \A q \in Requests : requests[q].spanId \in 0..Len(rt.spans)

OfProgram(e) == e.kind \in {"event", "write"}
Own == {i \in DOMAIN rt.events : OfProgram(rt.events[i])}
OfRecord(n) == {j \in DOMAIN recorded : OfProgram(recorded[j]) /\ recorded[j].of = n}

(* What the program recorded reaches the native recorder once and in the   *)
(* order it was pushed, however the windows cut it, but for the batches    *)
(* appendEvents failed on; stop leaves none of it behind.                  *)
DeliveredOnce ==
  LET kept == {j \in DOMAIN recorded : OfProgram(recorded[j]) /\ recorded[j].of \notin rt.lost}
      is(i, j) == rt.events[i].id = recorded[j].of
      waits(j) == /\ ~rt.stopped
                  /\ \E a \in DOMAIN rt.attached : rt.attached[a].of = recorded[j].of
  IN /\ \A i \in Own : \E j \in kept : is(i, j)
     /\ \A j \in kept : waits(j) \/ \E i \in Own : is(i, j)
     /\ \A i1, i2 \in Own : \A j1, j2 \in kept :
          is(i1, j1) /\ is(i2, j2) => (i1 < i2 <=> j1 < j2)
     /\ \A i \in Own : \A j1, j2 \in kept : is(i, j1) /\ waits(j2) => j1 < j2

(* Every event of the program carries its own values, and no other does,   *)
(* whatever its encoding recorded meanwhile.                               *)
ValuesOwn ==
  LET own(i) == [kind |-> "value", id |-> rt.events[i].id]
  IN /\ \A i \in DOMAIN rt.events : rt.events[i].kind = "event" =>
          i < Len(rt.events) /\ rt.events[i + 1] = own(i)
     /\ \A i \in DOMAIN rt.events : rt.events[i].kind = "value" =>
          i > 1 /\ rt.events[i - 1].kind = "event"

(* An event of instrumented code is on the thread of the context it ran in *)
(* (a console write is on the thread of the last event checked), a thread  *)
(* is started once, and before it is switched to; all this while no batch  *)
(* failed, since the tracker is not told of one that did.                  *)
ThreadAt(i) ==
  LET before == {j \in 1..i : rt.events[j].kind \in {"start", "switch"}}
  IN IF before = {} THEN 0 ELSE rt.events[Max(before)].id
OnItsThread ==
  ~rt.failed =>
    /\ \A i \in DOMAIN rt.events : rt.events[i].kind = "event" =>
         \E j \in DOMAIN recorded : /\ recorded[j].of = rt.events[i].id
                                    /\ recorded[j].ctx = ThreadAt(i)
    /\ \A i \in DOMAIN rt.events : rt.events[i].kind = "switch" =>
         \E j \in 1..(i - 1) : rt.events[j] = [kind |-> "start", id |-> rt.events[i].id]
    /\ \A i, j \in DOMAIN rt.events :
         rt.events[i].kind = "start" /\ rt.events[i] = rt.events[j] => i = j

(* Between the marks of a span lie exactly the events recorded while its   *)
(* request was in flight, lost batches apart.                              *)
SpansCover ==
  \A s \in DOMAIN rt.spans : rt.spans[s].closed # Unclosed =>
    \A i \in Own : \A j \in OfRecord(rt.events[i].id) :
      i \in (rt.spans[s].opened + 1)..rt.spans[s].closed
        <=> rt.spans[s].request \in recorded[j].open

(* The recording is the program's: its events once, in order, each with    *)
(* its own values, on its own thread and in the spans of the requests in   *)
(* flight (EventBuffer, flush, attachValues, checkContext,                 *)
(* webRequestStart, webRequestStop).                                       *)
EventsKept == DeliveredOnce /\ ValuesOwn /\ OnItsThread /\ SpansCover

While(s) == {i \in DOMAIN recorded : rt.spans[s].request \in recorded[i].open}
Together(s, t) == While(s) \cap While(t) # {}

(* contiguous_on_one_thread, once the recording is done: a span crossed a  *)
(* thread exactly if, while its request was in flight, anything checked    *)
(* the context and found another than the request's own: its own           *)
(* continuation, or a neighbour that took the event loop.                  *)
ContiguousMeasured ==
  rt.stopped /\ ~rt.failed =>
    LET resolved == Resolve(rt.events, rt.spans)
        checked(s) == {recorded[i].ctx : i \in {j \in While(s) : recorded[j].kind # "write"}}
    IN \A s \in DOMAIN rt.spans :
         Settled(resolved[s]) => (resolved[s].crossed <=> Cardinality(checked(s)) > 1)

(* concurrent_with_siblings: spans with an event in common are concurrent, *)
(* and, when each settled span has recorded an event, those that are       *)
(* concurrent were in flight together.                                     *)
ConcurrencyMeasured ==
  rt.stopped /\ ~rt.failed =>
    LET resolved == Resolve(rt.events, rt.spans)
        settled == {s \in DOMAIN rt.spans : Settled(resolved[s])}
        events(s) == {i \in While(s) : OfProgram(recorded[i])}
    IN /\ \A s, t \in settled : s # t /\ events(s) \cap events(t) # {} =>
            Concurrent(resolved, s) /\ Concurrent(resolved, t)
       /\ (\A s \in settled : events(s) # {}) =>
            \A s \in settled : Concurrent(resolved, s) =>
              \E t \in settled \ {s} : Together(s, t)

(* What the spans say of themselves was measured: the two flags.           *)
SpansMeasured == ContiguousMeasured /\ ConcurrencyMeasured
=============================================================================
