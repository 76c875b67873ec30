---------------------------- MODULE BrowserTrace ----------------------------
(***************************************************************************)
(* The browser runtime (runtime-browser/src/index.ts): what instrumented   *)
(* code does is queued as events and sent over a WebSocket to the          *)
(* recording daemon, a batch when the queue reaches the threshold or its   *)
(* first event has waited for the flush interval, and what is left when    *)
(* the socket opens, when the page is hidden and at stop().  An event is   *)
(* its place in the page's run; SessionStart and Manifest come first.      *)
(***************************************************************************)
EXTENDS Naturals, Sequences, SequencesExt

CONSTANTS MaxCalls,     \* bound: __ct calls of the page
          Threshold,    \* flushThreshold
          flushIntervalMs,
          Edges         \* what the code is known to meet badly

VARIABLES ready,        \* the socket's readyState
          opening,      \* its open event is on its way
          unsent,       \* its queue
          flushTimer,   \* whether a flush deadline is armed
          stopped,
          calls,        \* __ct calls made
          heard,        \* what the daemon received
          dropped,      \* events of a batch whose send threw
          thrown        \* the page was thrown an exception of the runtime

traced == <<ready, opening, unsent, flushTimer, stopped, calls, heard, dropped, thrown>>

SessionStart == "SessionStart"
Manifest == "Manifest"
SessionEnd == "SessionEnd"
\* A markCorrelation whose key or payload JSON cannot write.
Kinds == {"Step"} \cup (IF "unwritable key" \in Edges THEN {"BigKey"} ELSE {})
Event(kind, n) == [kind |-> kind, n |-> n]

-----------------------------------------------------------------------------
(* flushNow, enqueue and the deadline, on the runtime's own state.         *)
Own == [queue |-> unsent, timer |-> flushTimer, heard |-> heard, dropped |-> dropped,
        thrown |-> FALSE]

Unwritable(q) == \E event \in ToSet(q) : event.kind = "BigKey"
(* Mutated: a batch is taken off the queue whether the socket is open or not. *)
TakesUnsent(r, throws) ==
  IF r.queue = <<>> THEN r
  ELSE IF Unwritable(r.queue) THEN [r EXCEPT !.thrown = TRUE]
  ELSE [r EXCEPT !.heard = IF throws \/ ready # "OPEN" THEN @ ELSE @ \o r.queue,
                 !.dropped = IF throws THEN @ \cup ToSet(r.queue) ELSE @,
                 !.queue = <<>>, !.timer = FALSE]
flushNow(r, throws) ==
  IF ready # "OPEN" \/ r.queue = <<>> THEN r
  ELSE IF Unwritable(r.queue) THEN [r EXCEPT !.thrown = TRUE]
  ELSE [r EXCEPT !.heard = IF throws THEN @ ELSE @ \o r.queue,
                 !.dropped = IF throws THEN @ \cup ToSet(r.queue) ELSE @,
                 !.queue = <<>>, !.timer = FALSE]
(* armFlushTimer: no interval, no deadline.                                *)
armDeadline(r) == [r EXCEPT !.timer = @ \/ (flushIntervalMs > 0 /\ ~stopped)]
(* Mutated: the deadline is armed by a batch's second event.               *)
ArmedLate(r, event, throws) ==
  LET queued == [r EXCEPT !.queue = Append(@, event)]
  IN IF stopped THEN r
     ELSE IF Len(queued.queue) >= Threshold THEN flushNow(queued, throws)
     ELSE IF Len(queued.queue) = 2 THEN armDeadline(queued)
     ELSE queued
enqueue(r, event, throws) ==
  LET queued == [r EXCEPT !.queue = Append(@, event)]
  IN IF stopped THEN r
     ELSE IF Len(queued.queue) >= Threshold THEN flushNow(queued, throws)
     ELSE IF Len(queued.queue) = 1 THEN armDeadline(queued)
     ELSE queued
Set(r) == /\ unsent' = r.queue /\ flushTimer' = r.timer
          /\ heard' = r.heard /\ dropped' = r.dropped

-----------------------------------------------------------------------------
(* createBrowserRuntime: the session is seeded before anything is sent;    *)
(* its first event arms the deadline, unless it is a batch already.        *)
RuntimeInit ==
  /\ ready = "CONNECTING" /\ opening = FALSE /\ stopped = FALSE /\ calls = 0 /\ thrown = FALSE
  /\ unsent \in {<<Event(SessionStart, 0)>>,
                <<Event(SessionStart, 0), Event(Manifest, 0)>>}
  /\ flushTimer = (flushIntervalMs > 0 /\ Threshold > 1) /\ heard = <<>> /\ dropped = {}

(* A call of instrumented code, in the page.                               *)
Call ==
  /\ calls < MaxCalls /\ ~thrown
  /\ calls' = calls + 1
  /\ \E kind \in Kinds, throws \in BOOLEAN :
       LET r == enqueue(Own, Event(kind, calls + 1), throws)
       IN Set(r) /\ thrown' = r.thrown
  /\ UNCHANGED <<ready, opening, stopped>>
Flush ==
  /\ ~thrown
  /\ \E throws \in BOOLEAN : LET r == flushNow(Own, throws)
                             IN Set(r) /\ thrown' = r.thrown
  /\ UNCHANGED <<ready, opening, stopped, calls>>
(* pagehide, beforeunload, and the page hidden: the exception is caught.   *)
safeFlushOnLifecycle ==
  /\ \E throws \in BOOLEAN : Set(flushNow(Own, throws))
  /\ UNCHANGED <<ready, opening, stopped, calls, thrown>>
(* An exception in the timer's callback is an uncaught error of the page.  *)
onFlushDeadline ==
  /\ flushTimer
  /\ \E throws \in BOOLEAN :
       LET r == flushNow([Own EXCEPT !.timer = FALSE], throws)
           waits == ~r.thrown /\ r.queue # <<>> /\ ready = "CONNECTING"
       IN Set(IF waits THEN armDeadline(r) ELSE r) /\ thrown' = (thrown \/ r.thrown)
  /\ UNCHANGED <<ready, opening, stopped, calls>>
stop ==
  /\ ~stopped /\ ~thrown
  /\ \E throws \in BOOLEAN :
       LET ended == enqueue(Own, Event(SessionEnd, 0), throws)
           r == IF ended.thrown THEN ended ELSE flushNow(ended, throws)
       IN IF r.thrown THEN Set(r) /\ thrown' = TRUE /\ UNCHANGED <<stopped, ready>>
          ELSE /\ Set([r EXCEPT !.timer = FALSE]) /\ stopped' = TRUE
               /\ ready' = IF ready = "CLOSED" THEN "CLOSED" ELSE "CLOSING"
               /\ UNCHANGED thrown
  /\ UNCHANGED <<calls, opening>>

(* The socket: its open event drains the queue.                            *)
Opens ==
  /\ ready = "CONNECTING" /\ ready' = "OPEN" /\ opening' = TRUE
  /\ UNCHANGED <<unsent, flushTimer, stopped, calls, heard, dropped, thrown>>
onopen ==
  /\ opening /\ opening' = FALSE
  /\ \E throws \in BOOLEAN : LET r == flushNow(Own, throws)
                             IN Set(r) /\ thrown' = (thrown \/ r.thrown)
  /\ UNCHANGED <<ready, stopped, calls>>
Closes ==
  /\ ready # "CLOSED" /\ ready' = "CLOSED" /\ opening' = FALSE
  /\ UNCHANGED <<unsent, flushTimer, stopped, calls, heard, dropped, thrown>>

RuntimeNext ==
  \/ Call \/ Flush \/ safeFlushOnLifecycle \/ onFlushDeadline \/ stop
  \/ Opens \/ onopen \/ Closes
RuntimeSpec == RuntimeInit /\ [][RuntimeNext]_traced

-----------------------------------------------------------------------------
Events == [kind : Kinds \cup {SessionStart, Manifest, SessionEnd}, n : 0..MaxCalls]
RuntimeTypeOK ==
  /\ ready \in {"CONNECTING", "OPEN", "CLOSING", "CLOSED"}
  /\ unsent \in Seq(Events) /\ heard \in Seq(Events) /\ dropped \subseteq Events
  /\ flushTimer \in BOOLEAN /\ stopped \in BOOLEAN /\ thrown \in BOOLEAN

(* The daemon hears the session from its start, in the page's order, each  *)
(* event once, and misses only the batches whose send threw: what is       *)
(* queued follows what was sent, and the end comes last (enqueue,          *)
(* flushNow, stop).                                                        *)
Order(event) == CASE event.kind = SessionStart -> 0
                  [] event.kind = Manifest -> 1
                  [] event.kind = SessionEnd -> MaxCalls + 2
                  [] OTHER -> event.n + 1
HeardInOrder ==
  LET told == heard \o unsent
      known == ToSet(told) \cup dropped
  IN /\ \A i, j \in DOMAIN told : i < j => Order(told[i]) < Order(told[j])
     /\ \A event \in dropped : event \notin ToSet(told)
     /\ ~stopped => \A n \in 1..calls : \E event \in known : event.n = n
     /\ dropped = {} /\ heard # <<>> => heard[1].kind = SessionStart

(* Nothing waits in an open socket's queue without a deadline, or the      *)
(* socket's open event, to send it: a page that falls silent has its last  *)
(* events delivered, if the runtime has a flush interval (armFlushTimer,   *)
(* onFlushDeadline).                                                       *)
NothingStranded ==
  flushIntervalMs > 0 /\ ready = "OPEN" /\ unsent # <<>> /\ ~stopped => flushTimer \/ opening

(* The daemon hears the session whole and in order, and what waits is sent *)
(* (enqueue, flushNow, armFlushTimer, stop).                               *)
StreamWhole == RuntimeTypeOK /\ HeardInOrder /\ NothingStranded

(* "Recording is best-effort": no call of the runtime, and no timer of     *)
(* its, throws into the page (flushNow, "Transport errors must not crash   *)
(* the host program").                                                     *)
NeverThrowsIntoPage == ~thrown

=============================================================================
