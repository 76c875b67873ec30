----------------------------- MODULE FlushTimer -----------------------------
(***************************************************************************)
(* When HttpBatchTransport sends what waits (batch-transport.ts: pump and  *)
(* all that calls it, due, cutByDeadline, armFlushTimer): a batch's worth, *)
(* in records or bytes; the deadline of the oldest record, and the timer   *)
(* aimed ahead of it, which a long wait runs in two steps because the      *)
(* browser runs only short timers precisely; and the deadline that grows   *)
(* once a session writes a few records at a time.                          *)
(*                                                                         *)
(* Time is the page's, and relative: the age of each waiting record (up to *)
(* MaxAge) and what is left of the timer.  Of its bytes it knows whether   *)
(* they make a batch, or too much for the ring.  What a batch holds and    *)
(* what its answer says is in BatchTransport, whose timers fire at any     *)
(* time; a batch that waits for its retry is in flight here.               *)
(***************************************************************************)
EXTENDS Integers, Sequences, FiniteSetsExt

CONSTANTS flushRecords,        \* a batch holds at most this many records
          ringRecords,         \* bound: the records the ring holds
          flushDeadlineFirst, flushDeadlineMaxMs,
          FLUSH_FAST_BATCHES, FLUSH_TIMER_LEAD_MS, PRECISE_TIMER_MAX_MS,
          PreciseLate,         \* how late the browser may run a precise timer
          CoarseLate,          \* ... and a longer one
          Rounding             \* how early, for a delay it rounded

(* The constructor's order of the deadlines, which may be less than the    *)
(* lead, or 0; and what a browser's timers are good for: a long timer is   *)
(* late by no more than the precise step that follows it.                  *)
ASSUME FlushAssumption ==
  /\ {flushRecords, ringRecords, flushDeadlineFirst, flushDeadlineMaxMs, FLUSH_FAST_BATCHES,
      FLUSH_TIMER_LEAD_MS, PRECISE_TIMER_MAX_MS, PreciseLate, CoarseLate, Rounding} \subseteq Nat
  /\ 0 < flushRecords /\ flushDeadlineFirst <= flushDeadlineMaxMs
  /\ PreciseLate <= CoarseLate /\ CoarseLate <= PRECISE_TIMER_MAX_MS

VARIABLES gate,                \* "configuring", "waiting-for-consent", "open" or "off"
          recorder,            \* "writes", or "halted", or "ended" the session
          queue,               \* the age of each record that waits
          heavy,               \* what waits has reached the bytes of a batch
          flushDeadlineMs,
          timer,               \* the flush timer: what is left of it, and its step
          inFlight,            \* a batch is in flight, or waits for its retry
          batches,             \* batches made, up to FLUSH_FAST_BATCHES
          cut                  \* ghost: the batch the last step cut

flushing == <<gate, recorder, queue, heavy, flushDeadlineMs, timer, inFlight, batches, cut>>

MaxAge == flushDeadlineMaxMs + 1
Off == [on |-> FALSE, left |-> 0, coarse |-> FALSE, late |-> 0, stray |-> FALSE]
NoCut == [cut |-> FALSE, age |-> 0, aim |-> 0, early |-> FALSE]

(* The transport within a handler; `early`: what sends the next batch is   *)
(* not its deadline.                                                       *)
Now == [gate |-> gate, recorder |-> recorder, queue |-> queue, heavy |-> heavy,
        deadline |-> flushDeadlineMs, timer |-> timer, flying |-> inFlight,
        batches |-> batches, early |-> FALSE, cut |-> NoCut]
Become(s) ==
  /\ gate' = s.gate /\ recorder' = s.recorder /\ queue' = s.queue /\ heavy' = s.heavy
  /\ flushDeadlineMs' = s.deadline /\ timer' = s.timer /\ inFlight' = s.flying
  /\ batches' = s.batches /\ cut' = s.cut

aim(s) == s.deadline - FLUSH_TIMER_LEAD_MS
Delay(s) == Max({0, aim(s) - s.queue[1]})
canSend(s) == s.gate = "open" /\ ~s.flying
(* A batch's worth waits, in records or in bytes. *)
Bound(s) == Len(s.queue) >= flushRecords \/ s.heavy
Counted(s, n) == Min({s.batches + n, FLUSH_FAST_BATCHES})

(* The platform's timer: how late it may run depends on its length alone.  *)
SetTimeout(delay, coarse) ==
  [on |-> TRUE, left |-> delay, coarse |-> coarse, stray |-> FALSE,
   late |-> IF delay > PRECISE_TIMER_MAX_MS THEN CoarseLate ELSE PreciseLate]

MayArm(s) == canSend(s) /\ ~s.timer.on /\ s.queue # <<>>
(* Mutated: a wait of any length is one timer. *)
ArmedInOneStep(s) ==
  IF MayArm(s) THEN [s EXCEPT !.timer = SetTimeout(Delay(s), FALSE)] ELSE s
(* armFlushTimer: aimed at the oldest record's deadline, not while a batch *)
(* is in flight; a long wait first ends a precise timer's length ahead.    *)
armFlushTimer(s) ==
  IF ~MayArm(s) THEN s
  ELSE [s EXCEPT !.timer =
          IF Delay(s) > PRECISE_TIMER_MAX_MS
          THEN SetTimeout(Delay(s) - PRECISE_TIMER_MAX_MS, TRUE)
          ELSE SetTimeout(Delay(s), FALSE)]

(* deadlineReached, cutByDeadline: after the fast batches, each one that   *)
(* its oldest record's deadline cut, and no bound, doubles the deadline,   *)
(* up to its maximum.                                                      *)
cutByDeadline(s, full) ==
  IF \/ s.recorder # "writes" \/ s.queue[1] < aim(s) - 1 \/ full
     \/ s.batches + 1 < FLUSH_FAST_BATCHES
  THEN s.deadline
  ELSE Min({flushDeadlineMaxMs, Max({1, s.deadline * 2})})

(* takeBatch, send: the first n records leave, fewer than a batch's        *)
(* records where its bytes end it (full) or a drop marker does.            *)
Sent(s, n, full, still) ==
  [s EXCEPT !.queue = SubSeq(@, n + 1, Len(@)), !.heavy = still,
            !.deadline = cutByDeadline(s, full), !.flying = TRUE, !.batches = Counted(s, 1),
            !.cut = [cut |-> TRUE, age |-> s.queue[1], aim |-> aim(s),
                     early |-> s.early \/ Bound(s) \/ s.recorder # "writes"]]
Sends(s) ==
  {Sent(s, c.n, c.full, c.still) :
     c \in {c \in [n : 1..Min({flushRecords, Len(s.queue)}), full : BOOLEAN, still : BOOLEAN] :
             /\ c.n = flushRecords => c.full
             /\ c.n = Len(s.queue) /\ c.n # flushRecords => ~c.full
             /\ c.still => s.heavy /\ c.n < Len(s.queue)}}
(* sendFinalEmpty: a session that ended may have a last batch to make that *)
(* holds no record; it leaves the flush timer as it is.                    *)
SendsEmpty(s) ==
  {s} \cup {f \in {[s EXCEPT !.flying = TRUE, !.batches = Counted(s, 1)]} : s.recorder = "ended"}

(* Mutated: a timer armed for a record the batch took stays armed. *)
PumpStillArmed(s) ==
  IF ~canSend(s) THEN {s} ELSE IF s.queue = <<>> THEN SendsEmpty(s) ELSE Sends(s)
(* pump: one batch, and no flush timer while it is in flight.              *)
pump(s) ==
  IF ~canSend(s) THEN {s}
  ELSE IF s.queue = <<>> THEN SendsEmpty(s)
  ELSE {[r EXCEPT !.timer = Off] : r \in Sends(s)}

(* due: the session is over, a batch's worth waits, or the oldest record   *)
(* has waited long enough.                                                 *)
due(s) == s.recorder # "writes" \/ Bound(s) \/ (s.queue # <<>> /\ s.queue[1] >= aim(s))

(* evictToCap: the oldest records are dropped, but for those pinned at the *)
(* front, a session's Header and Env; how many there are is left open.     *)
Evicted(s) ==
  {[s EXCEPT !.queue = SubSeq(@, 1, c.pinned) \o SubSeq(@, c.pinned + c.n + 1, Len(@)),
             !.heavy = c.still] :
     c \in {c \in [pinned : 0..2, n : 0..Len(s.queue), still : BOOLEAN] :
             /\ c.pinned + c.n <= Len(s.queue) /\ (c.n = 0 => c.still = s.heavy)
             /\ c.still => s.heavy /\ c.n < Len(s.queue)}}

(* enqueue: a frame waits; one that fills a batch sends it, as does one    *)
(* that overfills the ring, which then drops what is still over its cap.   *)
Waits(s, h) == [s EXCEPT !.queue = Append(@, 0), !.heavy = @ \/ h]
Overfull(s) == UNION {Evicted(r) : r \in pump([s EXCEPT !.early = TRUE])}
Fits(s) == IF Bound(s) THEN pump(s) ELSE {s}
Enqueued(s) ==
  {armFlushTimer(r) :
     r \in {r \in UNION {Overfull(Waits(s, h)) \cup Fits(Waits(s, h)) : h \in BOOLEAN} :
              Len(r.queue) <= ringRecords}}

Silent(s) == [s EXCEPT !.gate = "off", !.queue = <<>>, !.heavy = FALSE, !.timer = Off]
(* drainNow: once the gates are open all that waits leaves, and the batch  *)
(* that waits for its retry; the flush timer is left as it is, but by a    *)
(* session that finishes.                                                  *)
Left(s, n, f) ==
  [s EXCEPT !.queue = <<>>, !.heavy = FALSE, !.flying = f, !.batches = Counted(s, n),
            !.timer = IF s.timer.on THEN [@ EXCEPT !.stray = TRUE] ELSE @]
DrainCounts(s) ==
  {n \in 0..Len(s.queue) + 1 :
     n * flushRecords >= Len(s.queue) /\ (n > Len(s.queue) => s.recorder = "ended")}
Leaving(s) == {Left(s, c.n, c.flying) : c \in [n : DrainCounts(s), flying : {s.flying, FALSE}]}
Drained(s) ==
  IF s.gate # "open" THEN {s}
  ELSE Leaving(s) \cup {Silent(r) : r \in {r \in Leaving(s) : s.recorder = "ended"}}
-----------------------------------------------------------------------------
FlushInit ==
  /\ gate = "configuring" /\ recorder = "writes"
  /\ queue = <<>> /\ heavy = FALSE /\ flushDeadlineMs = flushDeadlineFirst /\ timer = Off
  /\ inFlight = FALSE /\ batches = 0 /\ cut = NoCut

(* append: the recorder writes a frame.                                    *)
Enqueue ==
  /\ recorder = "writes" /\ gate # "off"
  /\ \E r \in Enqueued(Now) : Become(r)

Opened(s) == {armFlushTimer(r) : r \in pump([s EXCEPT !.gate = "open", !.early = TRUE])}
(* configure: the held frames are rewritten, the ring cut to its new cap,  *)
(* and the transport opens, unless a consent is still to come.             *)
Configure ==
  /\ gate = "configuring"
  /\ \E h \in {h \in BOOLEAN : h => queue # <<>>} :
       \E e \in Evicted([Now EXCEPT !.heavy = h]) :
         \/ Become([e EXCEPT !.gate = "waiting-for-consent"])
         \/ \E r \in Opened(e) : Become(r)

(* onConsent: the consent the configuration asked for.                     *)
Consent ==
  /\ gate = "waiting-for-consent"
  /\ \E r \in Opened(Now) : Become(r)

(* flush: what waits is sent, if a batch can be.                           *)
flush == \E r \in pump([Now EXCEPT !.early = TRUE]) : Become(r)

(* end: the session's End, if it is not yet written, is its last frame;    *)
(* what is left is sent, at once when the page is going away.              *)
End ==
  /\ recorder # "ended" /\ gate # "off"
  /\ LET s == [Now EXCEPT !.recorder = "ended"]
     IN \E e \in {s} \cup Enqueued(s) : \E r \in pump(e) \cup Drained(e) : Become(r)

(* halt: the recorder faulted, and what it wrote is sent.                  *)
Halt ==
  /\ recorder = "writes"
  /\ \E r \in pump([Now EXCEPT !.recorder = "halted"]) : Become(r)

(* The flush timer: the coarse step arms the precise one, which sends.     *)
FlushTimerFires ==
  /\ timer.on /\ timer.left <= Rounding
  /\ LET s == [Now EXCEPT !.timer = Off, !.early = timer.stray]
     IN \E r \in IF timer.coarse THEN {s} ELSE pump(s) : Become(armFlushTimer(r))

(* afterAnswer: the batch in flight was answered, or given up.             *)
AfterAnswer ==
  /\ inFlight
  /\ LET s == [Now EXCEPT !.flying = FALSE]
     IN \E r \in IF due(s) THEN pump(s) ELSE {s} : Become(armFlushTimer(r))

(* The page is hidden, or leaves.                                          *)
DrainNow == gate = "open" /\ \E r \in Drained(Now) : Become(r)

(* off; finish, once the session's last batch is answered.                 *)
Finish ==
  /\ gate # "off"
  /\ \E f \in {inFlight, FALSE} : Become([Silent(Now) EXCEPT !.flying = f])

(* Time passes, no further than the browser lets a timer be late.          *)
Tick ==
  /\ timer.on => timer.left > -timer.late
  /\ queue' = [i \in DOMAIN queue |-> Min({queue[i] + 1, MaxAge})]
  /\ timer' = IF timer.on THEN [timer EXCEPT !.left = @ - 1] ELSE timer
  /\ cut' = NoCut /\ UNCHANGED <<gate, recorder, heavy, flushDeadlineMs, inFlight, batches>>

FlushNext ==
  \/ Enqueue \/ Configure \/ Consent \/ flush \/ End \/ Halt \/ FlushTimerFires
  \/ AfterAnswer \/ DrainNow \/ Finish \/ Tick
FlushSpec == FlushInit /\ [][FlushNext]_flushing
-----------------------------------------------------------------------------
FlushTypeOK ==
  /\ gate \in {"configuring", "waiting-for-consent", "open", "off"}
  /\ recorder \in {"writes", "halted", "ended"}
  /\ Len(queue) <= ringRecords /\ \A i \in DOMAIN queue : queue[i] \in 0..MaxAge
  /\ heavy \in BOOLEAN /\ (heavy => queue # <<>>)
  /\ flushDeadlineMs \in flushDeadlineFirst..flushDeadlineMaxMs
  /\ timer.left \in -timer.late..flushDeadlineMaxMs
  /\ inFlight \in BOOLEAN /\ batches \in 0..FLUSH_FAST_BATCHES

(* While a batch can be sent, no record waits past the deadline less its   *)
(* lead, the first one for the first batches, but for what a precise timer *)
(* is late, and less than a batch's worth waits (FLUSH_DEADLINE_MS,        *)
(* armFlushTimer, afterAnswer).                                            *)
WithinDeadline ==
  canSend(Now) /\ queue # <<>> =>
    LET deadline == IF batches < FLUSH_FAST_BATCHES THEN flushDeadlineFirst ELSE flushDeadlineMs
    IN queue[1] <= PreciseLate + Max({0, deadline - FLUSH_TIMER_LEAD_MS}) /\ ~Bound(Now)

(* A batch is cut no earlier than its oldest record's deadline asks, or a  *)
(* page would make a request for every few records; but for one a bound    *)
(* cuts, the transport's opening, flush(), the end of the session, or a    *)
(* timer armed for records that left as the page was hidden (pump, due).   *)
NotEarly == cut.cut /\ ~cut.early => cut.age >= cut.aim - Rounding

(* Records leave neither late nor a few at a time, and the state is of its *)
(* types.                                                                  *)
Timely == FlushTypeOK /\ WithinDeadline /\ NotEarly
=============================================================================
