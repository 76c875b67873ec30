---------------------------- MODULE BatchTransport ----------------------------
(***************************************************************************)
(* HttpBatchTransport (packages/runtime-browser/src/batch-transport.ts):   *)
(* the object of a recorded page that holds the frames the recorder wrote  *)
(* in a capped ring and uploads them in batches, once its gates (privacy   *)
(* signals, the site's consent, the ingest's configuration) are open.      *)
(*                                                                         *)
(* The page is single threaded: every action below is one handler, run to  *)
(* completion, except the sending loop of drainNow, whose iterations are   *)
(* steps of their own with every other handler shut out by `draining`.     *)
(* The helpers the handlers share are operators from the old value of the  *)
(* transport to the new one, so a handler is their composition, in the     *)
(* order of the calls in the code.                                         *)
(*                                                                         *)
(* The network and the ingest are external: a request is a copy of its     *)
(* batch in `wire`, which is delivered or lost at any time, and an answer  *)
(* is any the code tells apart.                                            *)
(***************************************************************************)
EXTENDS Integers, Sequences, FiniteSets, FiniteSetsExt

CONSTANTS
  MaxSeq,         \* bound: the records the recorder writes
  MaxRetries,     \* MAX_RETRIES
  FlushRecords,   \* flushRecords
  BatchBytes,     \* the frame bytes a batch of several frames may hold
  FullBytes,      \* the ring bytes that make a batch due before its deadline
  MaxFrameBytes,  \* the largest frame a batch can carry
  Sizes,          \* the sizes of frames, in some unit
  RingSizes,      \* the ring caps a page or a configuration sets
  Requiring,      \* whether an option or a configuration requires consent
  ConsentAnswers, \* what the site's consent callback may answer
  ListsBrought    \* whether a configuration brings scrub lists

ASSUME MaxSeqAssumption == MaxSeq \in Nat
ASSUME MaxRetriesAssumption == MaxRetries \in Nat \ {0}
ASSUME FlushRecordsAssumption == FlushRecords \in Nat \ {0}
ASSUME BytesAssumption ==
  /\ BatchBytes \in Nat /\ FullBytes \in Nat /\ MaxFrameBytes \in Nat
  /\ Sizes \subseteq Nat \ {0} /\ 1 \in Sizes
  /\ RingSizes \subseteq Nat \ {0} /\ RingSizes # {}

ASSUME GatesAssumption ==
  /\ Requiring \subseteq BOOLEAN /\ ListsBrought \subseteq BOOLEAN
  /\ ConsentAnswers \subseteq {"yes", "no", "awaited"}

VARIABLES
  t,                \* the transport (see Transport below)
  halted,           \* halted
  draining,         \* drainNow is in its sending loop
  ringBytes,        \* ringBytes
  config,           \* the configuration request: "none", "pending", "done"
  siteLists,        \* the configuration brought scrub lists of the site's own
  consentRequired,  \* an option, or the configuration, requires consent
  consent,          \* the callback's answer: "unasked", "awaited", "yes", "no"
  written,          \* how many frames the recorder appended, End apart
  stored            \* the batches the ingest stored (external)

vars == <<t, halted, draining, ringBytes, config, siteLists, consentRequired,
          consent, written, stored>>

-----------------------------------------------------------------------------
(* The ring.  An entry is a frame or the drop marker of a set of records;  *)
(* adjacent markers stay apart, since a batch takes all or none of them.   *)

Pinned == {"Header", "Env", "End"}
NoBatch == 0

Entry ==
  [kind : Pinned \cup {"record"}, seq : Nat, size : Sizes, scrubbed : BOOLEAN,
   lost : {{}}]
  \cup
  [kind : {"drop"}, seq : {0}, size : {0}, scrubbed : {TRUE}, lost : SUBSET Nat]

Frame(kind, seq, size) ==
  [kind |-> kind, seq |-> seq, size |-> size, scrubbed |-> siteLists, lost |-> {}]
Drop(S) ==
  [kind |-> "drop", seq |-> 0, size |-> 0, scrubbed |-> TRUE, lost |-> S]

IsFrame(e) == e.kind # "drop"
HasFrames(q) == \E i \in DOMAIN q : IsFrame(q[i])
QueuedRecords(q) == Cardinality({i \in DOMAIN q : IsFrame(q[i])})
SumOver(q, I) == MapThenSumSet(LAMBDA i : q[i].size, I)
QueuedBytes(q) == SumOver(q, DOMAIN q)

(* Drop markers are put back only where they report something. *)
Marker(S) == IF S = {} THEN <<>> ELSE <<Drop(S)>>

(* Mutated: pinned frames may be dropped too. *)
AnyFrameAt(q) == {i \in DOMAIN q : IsFrame(q[i])}
RecordsAt(q) == {i \in DOMAIN q : q[i].kind = "record"}

(* evictToCap: a frame that may be dropped gives way to a drop marker      *)
(* where dropping all those before it leaves the ring over its cap.        *)
Evicted(q, cap) ==
  {i \in RecordsAt(q) :
     QueuedBytes(q) - SumOver(q, {j \in RecordsAt(q) : j < i}) > cap}

(* Mutated: an eviction is not counted. *)
EvictUncounted(tr, cap) ==
  LET out == Evicted(tr.queue, cap)
  IN [tr EXCEPT !.queue = [i \in DOMAIN tr.queue |->
                             IF i \in out THEN Drop({tr.queue[i].seq})
                                          ELSE tr.queue[i]]]

EvictToCap(tr, cap) ==
  LET out == Evicted(tr.queue, cap)
  IN [tr EXCEPT !.queue = [i \in DOMAIN tr.queue |->
                             IF i \in out THEN Drop({tr.queue[i].seq})
                                          ELSE tr.queue[i]],
                !.droppedRecords = @ + Cardinality(out)]

-----------------------------------------------------------------------------
(* takeBatch takes the entries of the ring from its front while Takes     *)
(* holds.  `made` keeps every batch built, at its batch_seq plus one, so a *)
(* retry sends the same bytes.                                             *)

FramesBefore(q, k) == {i \in DOMAIN q : i < k /\ IsFrame(q[i])}

Takes(q, k) ==
  LET frames == FramesBefore(q, k)
  IN IF IsFrame(q[k])
     THEN /\ Cardinality(frames) < FlushRecords
          /\ frames = {} \/ SumOver(q, frames) + q[k].size <= BatchBytes
     ELSE \A i \in frames : q[i].kind # "record"

Taken(q) == {k \in DOMAIN q : \A j \in 1..k : Takes(q, j)}

Batch == [recs : SUBSET Nat, pins : SUBSET Pinned, lost : SUBSET Nat,
          hasHeader : BOOLEAN, scrubbed : BOOLEAN, final : BOOLEAN]

BatchOf(tr) ==
  LET q == tr.queue
      taken == Taken(q)
      frames == {i \in taken : IsFrame(q[i])}
  IN [recs |-> {q[i].seq : i \in {j \in frames : q[j].kind = "record"}},
      pins |-> {q[i].kind : i \in {j \in frames : q[j].kind \in Pinned}},
      lost |-> UNION {q[i].lost : i \in taken},
      hasHeader |-> /\ tr.made = <<>>
                    /\ \E i \in frames : /\ q[i].kind \in Pinned
                                         /\ \A j \in frames : i <= j,
      scrubbed |-> \A i \in frames : q[i].scrubbed,
      final |-> tr.ended /\ taken = DOMAIN q]

(* Mutated: every batch built after the end is final. *)
CutFinalEarly(tr) ==
  LET b == [BatchOf(tr) EXCEPT !.final = tr.ended]
  IN [tr EXCEPT !.queue = SubSeq(@, Cardinality(Taken(@)) + 1, Len(@)),
                !.made = Append(@, b),
                !.finalSent = @ \/ b.final]

Cut(tr) ==
  LET b == BatchOf(tr)
  IN [tr EXCEPT !.queue = SubSeq(@, Cardinality(Taken(@)) + 1, Len(@)),
                !.made = Append(@, b),
                !.finalSent = @ \/ b.final]

(* sendFinalEmpty's batch: no frames, every drop still to report. *)
CutFinalEmpty(tr) ==
  [tr EXCEPT !.queue = <<>>,
             !.made = Append(@, [recs |-> {}, pins |-> {},
                                 lost |-> UNION {tr.queue[i].lost : i \in DOMAIN tr.queue},
                                 hasHeader |-> FALSE, scrubbed |-> TRUE,
                                 final |-> TRUE]),
             !.finalSent = TRUE]

-----------------------------------------------------------------------------
(* The transport's fields and the helpers that pass them on.               *)

States == {"waiting-for-consent", "configuring", "open", "ended", "off"}

Transport ==
  [state : States, ended : BOOLEAN, finalSent : BOOLEAN, settled : BOOLEAN,
   queue : Seq(Entry), made : Seq(Batch), inFlight : Nat, attempts : Nat,
   pending : BOOLEAN,      \* the request of `inFlight` has not settled
   retryTimer : BOOLEAN, flushTimer : BOOLEAN,
   droppedRecords : Int,
   wire : SUBSET Nat,      \* the batches with a copy on its way
   refused : SUBSET Nat]   \* history: the batches given up

CanSend(tr) == tr.state = "open" /\ tr.inFlight = NoBatch

(* Mutated: turning off leaves the retry timer armed. *)
OffStillRetrying(tr) ==
  IF tr.state = "off" THEN tr
  ELSE [tr EXCEPT !.state = "off", !.queue = <<>>, !.flushTimer = FALSE,
                  !.settled = TRUE]

Off(tr) ==
  IF tr.state = "off" THEN tr
  ELSE [tr EXCEPT !.state = "off", !.queue = <<>>, !.flushTimer = FALSE,
                  !.retryTimer = FALSE, !.settled = TRUE]

Finish(tr) ==
  [tr EXCEPT !.state = IF @ = "off" THEN "off" ELSE "ended",
             !.flushTimer = FALSE, !.retryTimer = FALSE, !.settled = TRUE]

ArmFlushTimer(tr) ==
  IF CanSend(tr) /\ HasFrames(tr.queue)
  THEN [tr EXCEPT !.flushTimer = TRUE]
  ELSE tr

(* send, not leaving: the browser takes the request. *)
Request(tr, b) ==
  [tr EXCEPT !.inFlight = b, !.pending = TRUE, !.wire = @ \cup {b}]
(* failed, short of the last attempt: the batch waits for its retry. *)
AwaitRetry(tr, b, attempts) ==
  [tr EXCEPT !.inFlight = b, !.attempts = attempts, !.pending = FALSE,
             !.retryTimer = TRUE]
(* send of the batch just built; `throws` when fetch throws at once (over  *)
(* the document's keepalive budget), and the first retry is always left.   *)
SendNew(tr, throws) ==
  IF throws THEN AwaitRetry(tr, Len(tr.made), 1)
  ELSE [Request(tr, Len(tr.made)) EXCEPT !.attempts = 0]
(* send of the batch just built, leaving: no answer is read. *)
SendLeaving(tr) == [tr EXCEPT !.wire = @ \cup {Len(tr.made)}]

Pump(tr, throws) ==
  CASE CanSend(tr) /\ HasFrames(tr.queue) ->
         [SendNew(Cut(tr), throws) EXCEPT !.flushTimer = FALSE]
    [] CanSend(tr) /\ ~HasFrames(tr.queue) /\ tr.ended /\ ~tr.finalSent ->
         SendNew(CutFinalEmpty(tr), throws)
    [] OTHER -> tr

(* due, `aged` standing for the age of the oldest frame. *)
Due(tr, aged) ==
  \/ tr.ended \/ halted
  \/ QueuedRecords(tr.queue) >= FlushRecords
  \/ QueuedBytes(tr.queue) >= FullBytes
  \/ aged /\ HasFrames(tr.queue)

(* Mutated: the answer does not arm the flush timer again. *)
AfterAnswerUnarmed(tr, aged, throws) ==
  IF Due(tr, aged) THEN Pump(tr, throws) ELSE tr

AfterAnswer(tr, aged, throws) ==
  ArmFlushTimer(IF Due(tr, aged) THEN Pump(tr, throws) ELSE tr)

(* The declared range first_seq..last_seq of a batch of records S. *)
Span(S) == {n \in 1..MaxSeq : \E first, last \in S : first <= n /\ n <= last}

(* Mutated: the drops the refused batch reported are forgotten. *)
RefusedForgetful(tr, b, aged, throws) ==
  LET batch == tr.made[b]
      idle == [tr EXCEPT !.inFlight = NoBatch, !.pending = FALSE,
                         !.refused = @ \cup {b}]
      back == [idle EXCEPT
                 !.queue = Marker(Span(batch.recs)) \o @,
                 !.droppedRecords = @ + Cardinality(Span(batch.recs))]
  IN IF batch.hasHeader THEN Off(idle)
     ELSE IF batch.final THEN Finish(back)
     ELSE AfterAnswer(back, aged, throws)

Refused(tr, b, aged, throws) ==
  LET batch == tr.made[b]
      idle == [tr EXCEPT !.inFlight = NoBatch, !.pending = FALSE,
                         !.refused = @ \cup {b}]
      back == [idle EXCEPT
                 !.queue = Marker(batch.lost \cup Span(batch.recs)) \o @,
                 !.droppedRecords = @ + Cardinality(Span(batch.recs))]
  IN IF batch.hasHeader THEN Off(idle)
     ELSE IF batch.final THEN Finish(back)
     ELSE AfterAnswer(back, aged, throws)

Failed(tr, aged, throws) ==
  CASE tr.state = "off" -> [tr EXCEPT !.pending = FALSE]
    [] tr.state # "off" /\ tr.attempts < MaxRetries ->
         AwaitRetry(tr, tr.inFlight, tr.attempts + 1)
    [] OTHER -> Refused(tr, tr.inFlight, aged, throws)

Open(tr, throws) == ArmFlushTimer(Pump([tr EXCEPT !.state = "open"], throws))

(* Mutated: a full batch is looked for before a full ring. *)
EnqueueBatchFirst(tr, e, throws) ==
  LET held == [tr EXCEPT !.queue = Append(@, e)]
  IN ArmFlushTimer(
       CASE QueuedRecords(held.queue) >= FlushRecords -> Pump(held, throws)
         [] /\ QueuedRecords(held.queue) < FlushRecords
            /\ QueuedBytes(held.queue) > ringBytes ->
              EvictToCap(Pump(held, throws), ringBytes)
         [] OTHER -> held)

(* Mutated: the frame is put in front of those that wait. *)
EnqueueInFront(tr, e, throws) ==
  LET held == [tr EXCEPT !.queue = <<e>> \o @]
  IN ArmFlushTimer(
       CASE QueuedBytes(held.queue) > ringBytes ->
              EvictToCap(Pump(held, throws), ringBytes)
         [] /\ QueuedBytes(held.queue) <= ringBytes
            /\ \/ QueuedRecords(held.queue) >= FlushRecords
               \/ QueuedBytes(held.queue) >= FullBytes -> Pump(held, throws)
         [] OTHER -> held)

Enqueue(tr, e, throws) ==
  LET held == [tr EXCEPT !.queue = Append(@, e)]
  IN ArmFlushTimer(
       CASE QueuedBytes(held.queue) > ringBytes ->
              EvictToCap(Pump(held, throws), ringBytes)
         [] /\ QueuedBytes(held.queue) <= ringBytes
            /\ \/ QueuedRecords(held.queue) >= FlushRecords
               \/ QueuedBytes(held.queue) >= FullBytes -> Pump(held, throws)
         [] OTHER -> held)

-----------------------------------------------------------------------------
(* The constructor: off at once under a privacy signal, else waiting for   *)
(* consent, else the configuration is requested.                           *)

New(state) ==
  [state |-> state, ended |-> FALSE, finalSent |-> FALSE,
   settled |-> state = "off", queue |-> <<>>, made |-> <<>>,
   inFlight |-> NoBatch, attempts |-> 0, pending |-> FALSE,
   retryTimer |-> FALSE, flushTimer |-> FALSE, droppedRecords |-> 0, wire |-> {},
   refused |-> {}]

Init ==
  /\ ringBytes \in RingSizes
  /\ consentRequired \in Requiring
  /\ \/ t = New("off") /\ config = "none"
     \/ consentRequired /\ t = New("waiting-for-consent") /\ config = "none"
     \/ ~consentRequired /\ t = New("configuring") /\ config = "pending"
  /\ halted = FALSE /\ draining = FALSE /\ siteLists = FALSE
  /\ consent = "unasked" /\ written = 0 /\ stored = {}

(* The recorder's side.  It writes nothing once the transport is off, has  *)
(* ended or was halted: it is told.                                        *)

Writing == ~draining /\ ~halted /\ ~t.ended /\ t.state # "off"

AppendFrame(size, throws) ==
  /\ Writing /\ written < MaxSeq + 2
  /\ written' = written + 1
  /\ LET kind == CASE written = 0 -> "Header" [] written = 1 -> "Env"
                   [] OTHER -> "record"
         seq == IF kind = "record" THEN written - 1 ELSE 0
     IN t' = IF kind = "record" /\ size > MaxFrameBytes
             THEN [t EXCEPT !.queue = Append(@, Drop({seq})),
                            !.droppedRecords = @ + 1]
             ELSE Enqueue(t, Frame(kind, seq, size), throws)
  /\ UNCHANGED <<halted, draining, ringBytes, config, siteLists,
                 consentRequired, consent, stored>>

(* drainNow up to its loop: a batch waiting for its retry leaves first.    *)
(* Mutated: the batch that leaves keeps its retry timer. *)
LeaveStillWaiting(tr) ==
  IF tr.inFlight # NoBatch /\ tr.retryTimer
  THEN LET left == [tr EXCEPT !.inFlight = NoBatch,
                              !.wire = @ \cup {tr.inFlight}]
       IN IF tr.made[tr.inFlight].final THEN Finish(left) ELSE left
  ELSE tr
(* Mutated: the final batch leaving does not end the session. *)
LeaveUnfinished(tr) ==
  IF tr.inFlight # NoBatch /\ tr.retryTimer
  THEN [tr EXCEPT !.retryTimer = FALSE, !.inFlight = NoBatch,
                  !.wire = @ \cup {tr.inFlight}]
  ELSE tr
LeaveWaiting(tr) ==
  IF tr.inFlight # NoBatch /\ tr.retryTimer
  THEN LET left == [tr EXCEPT !.retryTimer = FALSE, !.inFlight = NoBatch,
                              !.wire = @ \cup {tr.inFlight}]
       IN IF tr.made[tr.inFlight].final THEN Finish(left) ELSE left
  ELSE tr

DrainHead(tr) ==
  LET left == LeaveWaiting(tr)
  IN IF tr.state = "open" /\ left.state = "open"
        /\ left.ended /\ ~left.finalSent /\ ~HasFrames(left.queue)
     THEN Finish(SendLeaving(CutFinalEmpty(left)))
     ELSE IF tr.state = "open" THEN left ELSE tr

(* The loop goes on while takeBatch finds frames and no batch was final. *)
Loops(tr) == tr.state = "open" /\ HasFrames(tr.queue)

DrainStep ==
  /\ draining
  /\ LET sent == SendLeaving(Cut(t))
     IN t' = IF sent.made[Len(sent.made)].final THEN Finish(sent) ELSE sent
  /\ draining' = Loops(t')
  /\ UNCHANGED <<halted, ringBytes, config, siteLists, consentRequired,
                 consent, written, stored>>

(* The transport's own pagehide and visibilitychange listeners. *)
PageLeaves ==
  /\ ~draining /\ t.state = "open"
  /\ t' = DrainHead(t)
  /\ draining' = Loops(t')
  /\ UNCHANGED <<halted, ringBytes, config, siteLists, consentRequired,
                 consent, written, stored>>

(* end with the recorder's End frame, at pagehide (`unloading`) or before. *)
End(unloading, throws) ==
  /\ Writing /\ written >= 2
  /\ LET held == Enqueue([t EXCEPT !.ended = TRUE], Frame("End", 0, 1), throws)
     IN t' = IF unloading THEN DrainHead(held) ELSE Pump(held, throws)
  /\ draining' = (unloading /\ Loops(t'))
  /\ UNCHANGED <<halted, ringBytes, config, siteLists, consentRequired,
                 consent, written, stored>>

(* halt: the recorder faulted. *)
Halt(throws) ==
  /\ Writing /\ written >= 2
  /\ halted' = TRUE
  /\ t' = Pump(t, throws)
  /\ UNCHANGED <<draining, ringBytes, config, siteLists, consentRequired,
                 consent, written, stored>>

(* end without a frame: control.stop() of a recorder that faulted. *)
StopAfterFault(throws) ==
  /\ ~draining /\ halted /\ ~t.ended /\ t.state # "off"
  /\ t' = Pump([t EXCEPT !.ended = TRUE], throws)
  /\ UNCHANGED <<halted, draining, ringBytes, config, siteLists,
                 consentRequired, consent, written, stored>>

-----------------------------------------------------------------------------
(* The gates.                                                              *)

(* onConsent, of the callback's answer or of its promise's. *)
OnConsent(yes, throws) ==
  /\ consent' = IF yes THEN "yes" ELSE "no"
  /\ LET over == t.state \in {"off", "ended"}
         asks == t.state = "waiting-for-consent" /\ config = "none"
     IN /\ t' = CASE ~over /\ ~yes -> Off(t)
                  [] ~over /\ yes /\ asks -> [t EXCEPT !.state = "configuring"]
                  [] ~over /\ yes /\ t.state = "waiting-for-consent" /\ ~asks ->
                       Open(t, throws)
                  [] OTHER -> t
        /\ config' = IF yes /\ asks THEN "pending" ELSE config
  /\ UNCHANGED <<halted, draining, ringBytes, siteLists, consentRequired,
                 written, stored>>

(* consent: only the first callback's answer counts. *)
ConsentAsked(answer, throws) ==
  /\ ~draining /\ consent = "unasked"
  /\ IF answer = "awaited"
     THEN /\ consent' = "awaited"
          /\ UNCHANGED <<t, halted, draining, ringBytes, config, siteLists,
                         consentRequired, written, stored>>
     ELSE OnConsent(answer = "yes", throws)

ConsentSettles(yes, throws) ==
  /\ ~draining /\ consent = "awaited"
  /\ OnConsent(yes, throws)

(* requestConfig's answer, where it disables recording: not ok, not JSON,  *)
(* not enabled, not sampled, or lists that could not be applied.           *)
ConfigRefused ==
  /\ ~draining /\ config = "pending"
  /\ config' = "done" /\ t' = Off(t)
  /\ UNCHANGED <<halted, draining, ringBytes, siteLists, consentRequired,
                 consent, written, stored>>

(* rewriteHeld: the frames held are scrubbed again, which changes sizes.   *)
(* Mutated: Header and Env are held back from the rewriter. *)
RescrubbedRecords(e, resize) ==
  IF e.kind = "record" THEN [e EXCEPT !.scrubbed = TRUE, !.size = resize[@]] ELSE e
Rescrubbed(e, resize) ==
  IF IsFrame(e) THEN [e EXCEPT !.scrubbed = TRUE, !.size = resize[@]] ELSE e
Rewrite(tr, resize) ==
  [tr EXCEPT !.queue = [i \in DOMAIN tr.queue |-> Rescrubbed(tr.queue[i], resize)]]

(* Mutated: an absent ring_bytes is taken for a cap of none. *)
ConfigureNoCap(lists, resize, cap, requires, throws) ==
  /\ ~draining /\ config = "pending"
  /\ config' = "done"
  /\ IF t.state = "off"
     THEN UNCHANGED <<t, siteLists, ringBytes, consentRequired>>
     ELSE /\ siteLists' = lists
          /\ ringBytes' = cap
          /\ consentRequired' = (consentRequired \/ requires)
          /\ LET kept == EvictToCap(IF lists THEN Rewrite(t, resize) ELSE t, cap)
             IN t' = IF requires /\ consent # "yes"
                     THEN [kept EXCEPT !.state = "waiting-for-consent"]
                     ELSE Open(kept, throws)
  /\ UNCHANGED <<halted, draining, consent, written, stored>>

(* Mutated: a callback still to answer is taken for a consent. *)
ConfigureOnPromise(lists, resize, cap, requires, throws) ==
  /\ ~draining /\ config = "pending"
  /\ config' = "done"
  /\ IF t.state = "off"
     THEN UNCHANGED <<t, siteLists, ringBytes, consentRequired>>
     ELSE /\ siteLists' = lists
          /\ ringBytes' = IF cap = 0 THEN ringBytes ELSE cap
          /\ consentRequired' = (consentRequired \/ requires)
          /\ LET rewritten == IF lists THEN Rewrite(t, resize) ELSE t
                 kept == IF cap = 0 THEN rewritten ELSE EvictToCap(rewritten, cap)
             IN t' = IF requires /\ consent = "unasked"
                     THEN [kept EXCEPT !.state = "waiting-for-consent"]
                     ELSE Open(kept, throws)
  /\ UNCHANGED <<halted, draining, consent, written, stored>>

(* configure of an answer that enables recording; `cap` is its ring_bytes, *)
(* or 0 for none.                                                          *)
Configure(lists, resize, cap, requires, throws) ==
  /\ ~draining /\ config = "pending"
  /\ config' = "done"
  /\ IF t.state = "off"
     THEN UNCHANGED <<t, siteLists, ringBytes, consentRequired>>
     ELSE /\ siteLists' = lists
          /\ ringBytes' = IF cap = 0 THEN ringBytes ELSE cap
          /\ consentRequired' = (consentRequired \/ requires)
          /\ LET rewritten == IF lists THEN Rewrite(t, resize) ELSE t
                 kept == IF cap = 0 THEN rewritten ELSE EvictToCap(rewritten, cap)
             IN t' = IF requires /\ consent # "yes"
                     THEN [kept EXCEPT !.state = "waiting-for-consent"]
                     ELSE Open(kept, throws)
  /\ UNCHANGED <<halted, draining, consent, written, stored>>

-----------------------------------------------------------------------------
(* Answers and timers.                                                     *)

Idle == <<halted, draining, ringBytes, config, siteLists, consentRequired,
          consent, written, stored>>

(* answered with 2xx: the ingest has the batch. *)
Accepted(aged, throws) ==
  /\ ~draining /\ t.pending /\ t.inFlight \in stored
  /\ LET done == [t EXCEPT !.inFlight = NoBatch, !.pending = FALSE]
     IN t' = IF t.made[t.inFlight].final THEN Finish(done)
             ELSE AfterAnswer(done, aged, throws)
  /\ UNCHANGED Idle

(* 429, 5xx, a network failure or REQUEST_TIMEOUT_MS. *)
RequestFails(aged, throws) ==
  /\ ~draining /\ t.pending
  /\ t' = Failed(t, aged, throws)
  /\ UNCHANGED Idle

(* 413: the request arrived, and the ingest takes no copy of the batch.    *)
TooLarge(aged, throws) ==
  /\ ~draining /\ t.pending /\ t.inFlight \in t.wire \ stored
  /\ t' = Refused([t EXCEPT !.wire = @ \ {t.inFlight}], t.inFlight, aged, throws)
  /\ UNCHANGED Idle

(* 400, 403, 409 or anything else. *)
SessionRefused ==
  /\ ~draining /\ t.pending
  /\ t' = Off([t EXCEPT !.inFlight = NoBatch, !.pending = FALSE])
  /\ UNCHANGED Idle

RetryTimerFires(throws, aged, again) ==
  /\ ~draining /\ t.retryTimer
  /\ LET fired == [t EXCEPT !.retryTimer = FALSE]
     IN t' = IF throws THEN Failed(fired, aged, again)
             ELSE Request(fired, t.inFlight)
  /\ UNCHANGED Idle

FlushTimerFires(throws) ==
  /\ ~draining /\ t.flushTimer
  /\ t' = ArmFlushTimer(Pump([t EXCEPT !.flushTimer = FALSE], throws))
  /\ UNCHANGED Idle

(* flush(). *)
Flush(throws) ==
  /\ ~draining /\ CanSend(t)
  /\ t' = Pump(t, throws)
  /\ UNCHANGED Idle

(* guard: a handler that throws, wherever it has got to, turns it off.     *)
Faults ==
  /\ t.state # "off"
  /\ t' = Off(t) /\ draining' = FALSE
  /\ UNCHANGED <<halted, ringBytes, config, siteLists, consentRequired,
                 consent, written, stored>>

-----------------------------------------------------------------------------
(* The network and the ingest (external), which takes a repeated batch_seq *)
(* as the same batch.                                                      *)

Deliver(b) ==
  /\ b \in t.wire
  /\ t' = [t EXCEPT !.wire = @ \ {b}]
  /\ stored' = stored \cup {b}
  /\ UNCHANGED <<halted, draining, ringBytes, config, siteLists,
                 consentRequired, consent, written>>

Lose(b) ==
  /\ b \in t.wire
  /\ t' = [t EXCEPT !.wire = @ \ {b}]
  /\ UNCHANGED Idle

-----------------------------------------------------------------------------
Recording ==
  \E throws \in BOOLEAN :
    \/ \E size \in Sizes : AppendFrame(size, throws)
    \/ \E unloading \in BOOLEAN : End(unloading, throws)
    \/ Halt(throws)
    \/ StopAfterFault(throws)
    \/ Flush(throws)

Gates ==
  \/ \E throws \in BOOLEAN :
       \/ \E answer \in ConsentAnswers : ConsentAsked(answer, throws)
       \/ \E yes \in BOOLEAN : ConsentSettles(yes, throws)
       \/ \E lists \in ListsBrought, requires \in Requiring,
             resize \in [Sizes -> Sizes], cap \in RingSizes \cup {0} :
            Configure(lists, resize, cap, requires, throws)
  \/ ConfigRefused

Answers ==
  \/ \E aged, throws \in BOOLEAN :
       \/ Accepted(aged, throws)
       \/ RequestFails(aged, throws)
       \/ TooLarge(aged, throws)
  \/ SessionRefused

Timers ==
  \E throws \in BOOLEAN :
    \/ \E aged, again \in BOOLEAN : RetryTimerFires(throws, aged, again)
    \/ FlushTimerFires(throws)

Network == \E b \in t.wire : Deliver(b) \/ Lose(b)

Next ==
  \/ Recording \/ Gates \/ PageLeaves \/ DrainStep \/ Answers \/ Timers
  \/ Faults \/ Network

Spec == Init /\ [][Next]_vars

-----------------------------------------------------------------------------
(* Safety.                                                                 *)

(* The variables have their types. *)
TypeOK ==
  /\ t \in Transport
  /\ halted \in BOOLEAN /\ draining \in BOOLEAN
  /\ ringBytes \in RingSizes
  /\ config \in {"none", "pending", "done"}
  /\ siteLists \in BOOLEAN /\ consentRequired \in BOOLEAN
  /\ consent \in {"unasked", "awaited", "yes", "no"}
  /\ written \in Nat
  /\ stored \subseteq Nat

(* A batch in flight has exactly one thing to wake the transport up again, *)
(* its request or its retry timer, whatever failed, threw or left early;   *)
(* nothing in flight, neither: no request is ever made twice at once.      *)
OneWakeUp ==
  t.state # "off" =>
    IF t.inFlight = NoBatch THEN ~t.pending /\ ~t.retryTimer
                            ELSE t.pending # t.retryTimer

(* No request is made before its gates: the configuration only with the    *)
(* consent an option requires, a batch only with a configuration and the   *)
(* consent either requires.                                                *)
GatesRespected ==
  /\ config = "pending" /\ consentRequired => consent = "yes"
  /\ t.made # <<>> => config = "done" /\ (consentRequired => consent = "yes")

(* Once the configuration's scrub lists are known, no frame leaves the     *)
(* page unscrubbed, though it was written before they were.                *)
NothingUnscrubbed ==
  siteLists => \A b \in DOMAIN t.made : t.made[b].scrubbed

Records == 1..(written - 2)
InRing(n) == {i \in DOMAIN t.queue : t.queue[i].kind = "record" /\ t.queue[i].seq = n}
DropHeld(n) == {i \in DOMAIN t.queue : n \in t.queue[i].lost}
ShippedBy(n) == {b \in DOMAIN t.made \ t.refused : n \in t.made[b].recs}
ReportedBy(n) == {b \in DOMAIN t.made \ t.refused : n \in t.made[b].lost}

(* Every record the recorder wrote has exactly one fate, while the         *)
(* transport is on: it waits in the ring, or its drop does, or one batch   *)
(* not given up carries it, or reports its drop.  Eviction, refusals,      *)
(* retries and leaving the page lose none silently and report none twice.  *)
OneFate ==
  t.state # "off" =>
    \A n \in Records : Cardinality(InRing(n)) + Cardinality(DropHeld(n))
                       + Cardinality(ShippedBy(n)) + Cardinality(ReportedBy(n)) = 1

(* The batches carry the records in the order written, each a run without  *)
(* holes (a hole would be taken for a record when the run is refused), and *)
(* the ring holds later ones, in order.                                    *)
InOrder ==
  LET Rec(i) == t.queue[i].kind = "record"
  IN /\ \A b, c \in DOMAIN t.made : \A m \in t.made[b].recs, n \in t.made[c].recs :
          b < c => m < n
     /\ \A b \in DOMAIN t.made : t.made[b].recs = Span(t.made[b].recs)
     /\ \A b \in DOMAIN t.made, i \in DOMAIN t.queue : \A m \in t.made[b].recs :
          Rec(i) => m < t.queue[i].seq
     /\ \A i, j \in DOMAIN t.queue :
          Rec(i) /\ Rec(j) /\ i < j => t.queue[i].seq < t.queue[j].seq

(* The session's Header is never dropped: it opens the first batch, which  *)
(* alone is taken for the one that carries it.                             *)
HeaderFirst ==
  \A b \in DOMAIN t.made : ("Header" \in t.made[b].pins) = (b = 1)
                           /\ t.made[b].hasHeader = (b = 1)

(* A final batch is the last, is made only once everything left the ring,  *)
(* and End travels in no other.                                            *)
FinalIsLast ==
  \A b \in DOMAIN t.made :
    /\ t.made[b].final => b = Len(t.made) /\ ~HasFrames(t.queue)
    /\ "End" \in t.made[b].pins => t.made[b].final

(* A frame that waits in an open transport with nothing in flight has the  *)
(* flush timer armed for it.                                               *)
NeverStranded ==
  ~draining /\ CanSend(t) /\ HasFrames(t.queue) => t.flushTimer

(* droppedRecords counts the records whose drop waits or was reported.     *)
DropsCounted ==
  t.state # "off" =>
    t.droppedRecords = Cardinality({n \in Records : DropHeld(n) \cup ReportedBy(n) # {}})

(* Each record is accounted for once: by its fate, and in the count.       *)
Accounted == OneFate /\ DropsCounted

(* The log the ingest is given: the batches carry the records in the order *)
(* written, without holes; the Header opens the first of them, End is in a *)
(* final one, and nothing is left behind by that.                          *)
BatchesInOrder == InOrder /\ HeaderFirst /\ FinalIsLast

(* No more is waiting than the ring's cap, but for the frames that are     *)
(* never dropped.                                                          *)
WithinCap(q, cap) ==
  QueuedBytes(q) <= cap \/ \A i \in DOMAIN q : q[i].kind # "record"
RingCapped == WithinCap(t.queue, ringBytes)

-----------------------------------------------------------------------------
(* What a step may never do.                                               *)

(* Once off, nothing is built, sent or sent again. *)
SilentOnceOff ==
  [][t.state = "off" => /\ t'.state = "off" /\ t'.made = t.made
                        /\ t'.wire \subseteq t.wire]_vars

(* No step but the configuration's own takes the ring over its cap.        *)
CapKept == [][RingCapped /\ config' = config => RingCapped']_vars

-----------------------------------------------------------------------------
(* Liveness.  Requests settle (AbortSignal.timeout bounds them), timers    *)
(* fire, and a loop begun ends; the network may lose every copy.           *)

Fairness ==
  /\ WF_vars(DrainStep)
  /\ WF_vars(Answers)
  /\ WF_vars(\E throws, aged, again \in BOOLEAN : RetryTimerFires(throws, aged, again))
  /\ WF_vars(\E throws \in BOOLEAN : FlushTimerFires(throws))

FairSpec == Spec /\ Fairness

(* An open transport sends, drops or discards every record it holds. *)
RecordsLeaveTheRing ==
  \A n \in 1..MaxSeq : (t.state = "open" /\ InRing(n) # {}) ~> (InRing(n) = {})

(* end's promise resolves, once the gates let the transport open. *)
EndSettles == (t.state = "open" /\ t.ended /\ ~halted) ~> t.settled
===============================================================================
