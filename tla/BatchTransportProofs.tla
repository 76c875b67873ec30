------------------------- MODULE BatchTransportProofs -------------------------
(***************************************************************************)
(* Proofs about BatchTransport, for every number of records, retry limit,  *)
(* batch bound, frame size and ring cap.                                   *)
(*                                                                         *)
(* The handlers are compositions of helpers from a transport to a          *)
(* transport.  For each helper a lemma says that it keeps the type and the *)
(* discipline of the batch in flight (Good), and a lemma that it sends     *)
(* nothing before the gates or once off (Quiet); an action's case is the   *)
(* composition of its helpers' lemmas.                                     *)
(***************************************************************************)
EXTENDS BatchTransport, FiniteSetTheorems, SequenceTheorems, TLAPS

(* The batch in flight is one that was built, and has exactly one thing to *)
(* wake the transport up again, except once off, when it has no timer.     *)
Disciplined(tr) ==
  /\ tr.inFlight <= Len(tr.made)
  /\ tr.pending \/ tr.retryTimer => tr.inFlight # NoBatch
  /\ tr.retryTimer => ~tr.pending /\ tr.state # "off"
  /\ tr.inFlight # NoBatch /\ tr.state # "off" => tr.pending \/ tr.retryTimer

Good(tr) == tr \in Transport /\ Disciplined(tr)

(* b does no more than a where a is off, or has not opened its gates. *)
Quiet(a, b) ==
  /\ a.state = "off" => b.state = "off" /\ b.made = a.made /\ b.wire \subseteq a.wire
  /\ a.made = <<>> /\ a.state \notin {"open", "ended"}
     => b.made = <<>> /\ b.state \in {a.state, "off"}

-----------------------------------------------------------------------------
(* The ring.                                                               *)

(* What the fields of a ring entry range over, whichever kind it is. *)
LEMMA EntryFields ==
  ASSUME NEW e \in Entry
  PROVE  /\ e.kind \in Pinned \cup {"record", "drop"}
         /\ e.seq \in Nat
         /\ e.lost \in SUBSET Nat
<1>1. CASE e \in [kind : Pinned \cup {"record"}, seq : Nat, size : Sizes,
                  scrubbed : BOOLEAN, lost : {{}}]
  BY <1>1
<1>2. CASE e \in [kind : {"drop"}, seq : {0}, size : {0}, scrubbed : {TRUE},
                  lost : SUBSET Nat]
  BY <1>2
<1> QED
  BY <1>1, <1>2 DEF Entry

(* A drop marker is an entry of the ring. *)
LEMMA DropType ==
  ASSUME NEW S \in SUBSET Nat
  PROVE  Drop(S) \in Entry
  BY DEF Drop, Entry

(* Eviction keeps the type of the transport. *)
LEMMA EvictType ==
  ASSUME NEW tr \in Transport, NEW cap
  PROVE  /\ EvictToCap(tr, cap) \in Transport
         /\ \E q \in Seq(Entry), d \in Int :
              EvictToCap(tr, cap) = [tr EXCEPT !.queue = q, !.droppedRecords = d]
<1> DEFINE q == tr.queue
           out == Evicted(q, cap)
           kept == [i \in DOMAIN q |-> IF i \in out THEN Drop({q[i].seq}) ELSE q[i]]
<1>1. q \in Seq(Entry) /\ DOMAIN q = 1..Len(q) /\ Len(q) \in Nat
  BY DEF Transport
<1>2. \A i \in 1..Len(q) : q[i] \in Entry
  BY <1>1
<1>3. kept \in Seq(Entry)
  <2>1. \A i \in 1..Len(q) : kept[i] \in Entry
    BY <1>1, <1>2, DropType, EntryFields
  <2>2. kept \in [1..Len(q) -> Entry]
    BY <1>1, <2>1
  <2> QED
    BY <1>1, <2>2, SeqDef
<1>4. Cardinality(out) \in Int
  <2>1. out \subseteq 1..Len(q)
    BY <1>1 DEF Evicted, RecordsAt
  <2>2. IsFiniteSet(1..Len(q))
    BY <1>1, FS_Interval
  <2> QED
    BY <2>1, <2>2, FS_Subset, FS_CardinalityType
<1>5. tr.droppedRecords + Cardinality(out) \in Int
  BY <1>4 DEF Transport
<1>6. EvictToCap(tr, cap) =
        [tr EXCEPT !.queue = kept,
                   !.droppedRecords = tr.droppedRecords + Cardinality(out)]
  BY DEF EvictToCap, Transport
<1> QED
  BY <1>3, <1>5, <1>6 DEF Transport

(* c is a with one more batch built, and other entries in the ring. *)
Builds(a, c) ==
  /\ c \in Transport
  /\ \E b \in Batch : c.made = Append(a.made, b)
  /\ c.state = a.state /\ c.inFlight = a.inFlight /\ c.wire = a.wire
  /\ c.pending = a.pending /\ c.retryTimer = a.retryTimer

(* Cutting a batch keeps the type, and appends one batch. *)
LEMMA CutType ==
  ASSUME NEW tr \in Transport
  PROVE  Builds(tr, Cut(tr))
<1> DEFINE q == tr.queue
           k == Cardinality(Taken(q))
<1>1. q \in Seq(Entry) /\ DOMAIN q = 1..Len(q) /\ Len(q) \in Nat
  BY DEF Transport
<1>2. Taken(q) \subseteq 1..Len(q)
  BY <1>1 DEF Taken
<1>3. k \in 0..Len(q)
  <2>1. IsFiniteSet(1..Len(q)) /\ Cardinality(1..Len(q)) = Len(q)
    BY <1>1, FS_Interval, 1 \in Int, Len(q) \in Int
  <2> QED
    BY <1>1, <1>2, <2>1, FS_Subset, FS_CardinalityType
<1>4. SubSeq(q, k + 1, Len(q)) \in Seq(Entry)
  BY <1>1, <1>3, SubSeqProperties
<1>5. BatchOf(tr) \in Batch
  <2>1. \A i \in 1..Len(q) : q[i] \in Entry
    BY <1>1
  <2>2. \A i \in Taken(q) : /\ q[i].kind \in Pinned \cup {"record", "drop"}
                            /\ q[i].seq \in Nat /\ q[i].lost \in SUBSET Nat
    BY <1>2, <2>1, EntryFields
  <2> QED
    BY <2>2 DEF BatchOf, Batch
<1>6. (tr.finalSent \/ BatchOf(tr).final) \in BOOLEAN
  OBVIOUS
<1>7. Cut(tr) = [tr EXCEPT !.queue = SubSeq(q, k + 1, Len(q)),
                           !.made = Append(tr.made, BatchOf(tr)),
                           !.finalSent = tr.finalSent \/ BatchOf(tr).final]
  BY DEF Cut, Transport
<1>8. Append(tr.made, BatchOf(tr)) \in Seq(Batch)
  BY <1>5 DEF Transport
<1> QED
  BY <1>4, <1>5, <1>6, <1>7, <1>8 DEF Builds, Transport

(* So does the empty final batch. *)
LEMMA CutFinalEmptyType ==
  ASSUME NEW tr \in Transport
  PROVE  Builds(tr, CutFinalEmpty(tr))
<1> DEFINE b == [recs |-> {}, pins |-> {},
                 lost |-> UNION {tr.queue[i].lost : i \in DOMAIN tr.queue},
                 hasHeader |-> FALSE, scrubbed |-> TRUE, final |-> TRUE]
<1>1. tr.queue \in Seq(Entry)
  BY DEF Transport
<1>2. \A i \in DOMAIN tr.queue : tr.queue[i].lost \in SUBSET Nat
  BY <1>1, EntryFields
<1>3. b \in Batch
  BY <1>2 DEF Batch
<1>4. <<>> \in Seq(Entry)
  OBVIOUS
<1>5. CutFinalEmpty(tr) = [tr EXCEPT !.queue = <<>>, !.made = Append(tr.made, b),
                                     !.finalSent = TRUE]
  BY DEF CutFinalEmpty, Transport
<1>6. Append(tr.made, b) \in Seq(Batch)
  BY <1>3 DEF Transport
<1> QED
  BY <1>3, <1>4, <1>5, <1>6, ZenonT(60) DEF Builds, Transport

(* Appending a batch to those built makes it the last one. *)
LEMMA AppendBatch ==
  ASSUME NEW made \in Seq(Batch), NEW b \in Batch
  PROVE  /\ Append(made, b) \in Seq(Batch)
         /\ Len(Append(made, b)) = Len(made) + 1
         /\ Len(made) \in Nat
         /\ Append(made, b) # <<>>
  OBVIOUS

-----------------------------------------------------------------------------
(* The helpers keep a transport good.                                      *)

(* Turning off keeps a transport good and silent. *)
LEMMA OffGood ==
  ASSUME NEW tr, Good(tr)
  PROVE  Good(Off(tr)) /\ Quiet(tr, Off(tr)) /\ Off(tr).state = "off"
<1>1. <<>> \in Seq(Entry)
  OBVIOUS
<1> QED
  BY <1>1, ZenonT(60) DEF Good, Disciplined, Quiet, Transport, Off, States, NoBatch

(* So does ending it, where no retry timer is armed. *)
LEMMA FinishGood ==
  ASSUME NEW tr, Good(tr), ~tr.retryTimer
  PROVE  Good(Finish(tr)) /\ (tr.made # <<>> => Quiet(tr, Finish(tr)))
  BY ZenonT(60) DEF Good, Disciplined, Quiet, Transport, Finish, States, NoBatch

(* Arming the flush timer sends nothing. *)
LEMMA ArmGood ==
  ASSUME NEW tr, Good(tr)
  PROVE  Good(ArmFlushTimer(tr)) /\ Quiet(tr, ArmFlushTimer(tr))
  BY DEF Good, Disciplined, Quiet, Transport, ArmFlushTimer, NoBatch

(* Neither does evictToCap. *)
LEMMA EvictGood ==
  ASSUME NEW tr, Good(tr), NEW cap
  PROVE  Good(EvictToCap(tr, cap)) /\ Quiet(tr, EvictToCap(tr, cap))
<1>1. PICK q \in Seq(Entry), d \in Int :
        EvictToCap(tr, cap) = [tr EXCEPT !.queue = q, !.droppedRecords = d]
  BY EvictType DEF Good
<1>2. Good(EvictToCap(tr, cap))
  BY <1>1, ZenonT(60) DEF Good, Disciplined, Transport, NoBatch
<1>3. Quiet(tr, EvictToCap(tr, cap))
  BY <1>1 DEF Good, Quiet, Transport
<1> QED
  BY <1>2, <1>3

(* Requesting a batch that was built, where no retry timer waits for it. *)
LEMMA RequestGood ==
  ASSUME NEW tr, Good(tr), NEW b \in 1..Len(tr.made), ~tr.retryTimer
  PROVE  Good(Request(tr, b))
<1>1. tr \in Transport /\ tr.made \in Seq(Batch) /\ tr.wire \in SUBSET Nat
  BY DEF Good, Transport
<1>2. b \in Nat /\ b # NoBatch /\ b <= Len(tr.made)
  BY <1>1 DEF NoBatch
<1>3. tr.wire \cup {b} \in SUBSET Nat
  BY <1>1, <1>2
<1>4. Request(tr, b) \in Transport
  BY <1>1, <1>2, <1>3 DEF Request, Transport
<1>5. Disciplined(Request(tr, b))
  BY <1>1, <1>2 DEF Good, Request, Transport, Disciplined
<1> QED
  BY <1>4, <1>5 DEF Good

(* c is a with batch b waiting for its retry. *)
Awaits(a, b, c) ==
  /\ c \in Transport
  /\ c.inFlight = b /\ ~c.pending /\ c.retryTimer
  /\ c.made = a.made /\ c.state = a.state /\ c.wire = a.wire

(* A batch that waits for its retry leaves the rest as it was. *)
LEMMA AwaitRetryType ==
  ASSUME NEW tr \in Transport, NEW b \in Nat, NEW n \in Nat
  PROVE  Awaits(tr, b, AwaitRetry(tr, b, n))
  BY DEF Awaits, AwaitRetry, Transport

(* Waiting for a retry is what wakes a failed batch up. *)
LEMMA AwaitRetryGood ==
  ASSUME NEW tr, Good(tr), NEW b \in 1..Len(tr.made), NEW n \in Nat,
         tr.state # "off"
  PROVE  /\ Good(AwaitRetry(tr, b, n))
         /\ Quiet(tr, AwaitRetry(tr, b, n))
<1>1. tr \in Transport /\ tr.made \in Seq(Batch)
  BY DEF Good, Transport
<1>2. b \in Nat /\ b # NoBatch /\ b <= Len(tr.made)
  BY <1>1 DEF NoBatch
<1>3. AwaitRetry(tr, b, n) \in Transport
  BY <1>1, <1>2 DEF AwaitRetry, Transport
<1>4. Disciplined(AwaitRetry(tr, b, n))
  BY <1>1, <1>2 DEF Good, AwaitRetry, Transport, Disciplined
<1>5. Quiet(tr, AwaitRetry(tr, b, n))
  BY <1>1 DEF AwaitRetry, Transport, Quiet
<1> QED
  BY <1>3, <1>4, <1>5 DEF Good

(* Sending the batch just built, from a transport with nothing in flight. *)
LEMMA SendNewGood ==
  ASSUME NEW tr, Good(tr), tr.inFlight = NoBatch, tr.made # <<>>,
         tr.state # "off", NEW throws \in BOOLEAN
  PROVE  Good(SendNew(tr, throws)) /\ SendNew(tr, throws).state = tr.state
<1>1. Len(tr.made) \in 1..Len(tr.made)
  BY DEF Good, Transport
<1>2. ~tr.retryTimer /\ ~tr.pending
  BY DEF Good, Disciplined, NoBatch
<1>3. Good(Request(tr, Len(tr.made)))
  BY <1>1, <1>2, RequestGood
<1>4. Good([Request(tr, Len(tr.made)) EXCEPT !.attempts = 0])
  BY <1>3 DEF Good, Disciplined, Transport, NoBatch
<1>5. Good(AwaitRetry(tr, Len(tr.made), 1))
  BY <1>1, AwaitRetryGood
<1>6. SendNew(tr, throws).state = tr.state
  BY DEF SendNew, Request, AwaitRetry, Good, Transport
<1> QED
  BY <1>4, <1>5, <1>6 DEF SendNew

(* A batch more keeps a transport good: the one in flight is still built. *)
LEMMA BuildsGood ==
  ASSUME NEW a, Good(a), NEW c, Builds(a, c)
  PROVE  /\ Good(c) /\ c.made # <<>> /\ c.state = a.state
         /\ c.inFlight = a.inFlight
<1>1. PICK b \in Batch : c.made = Append(a.made, b)
  BY DEF Builds
<1>2. a.made \in Seq(Batch)
  BY DEF Good, Transport
<1>3. c.made # <<>> /\ Len(c.made) = Len(a.made) + 1 /\ Len(a.made) \in Nat
  BY <1>1, <1>2, AppendBatch
<1>4. a.inFlight \in Nat
  BY DEF Good, Transport
<1> QED
  BY <1>3, <1>4 DEF Good, Disciplined, Builds

(* The same of the two ways a batch is built. *)
LEMMA CutGood ==
  ASSUME NEW tr, Good(tr)
  PROVE  /\ Good(Cut(tr)) /\ Good(CutFinalEmpty(tr))
         /\ Cut(tr).made # <<>> /\ CutFinalEmpty(tr).made # <<>>
         /\ Cut(tr).state = tr.state /\ CutFinalEmpty(tr).state = tr.state
         /\ Cut(tr).inFlight = tr.inFlight
         /\ CutFinalEmpty(tr).inFlight = tr.inFlight
  BY CutType, CutFinalEmptyType, BuildsGood DEF Good

(* pump keeps a transport good, and does nothing where it is not open. *)
LEMMA PumpGood ==
  ASSUME NEW tr, Good(tr), NEW throws \in BOOLEAN
  PROVE  Good(Pump(tr, throws)) /\ Quiet(tr, Pump(tr, throws))
<1>1. CASE ~CanSend(tr)
  BY <1>1 DEF Pump, Quiet
<1>2. CASE CanSend(tr)
  <2>1. tr.state = "open" /\ tr.inFlight = NoBatch
    BY <1>2 DEF CanSend
  <2>2. /\ Good(Cut(tr)) /\ Cut(tr).inFlight = NoBatch /\ Cut(tr).state = "open"
        /\ Good(CutFinalEmpty(tr)) /\ CutFinalEmpty(tr).inFlight = NoBatch
        /\ CutFinalEmpty(tr).state = "open"
        /\ Cut(tr).made # <<>> /\ CutFinalEmpty(tr).made # <<>>
    BY <2>1, CutGood
  <2>3. Good(SendNew(Cut(tr), throws)) /\ Good(SendNew(CutFinalEmpty(tr), throws))
    BY <2>2, SendNewGood
  <2>4. Good([SendNew(Cut(tr), throws) EXCEPT !.flushTimer = FALSE])
    BY <2>3 DEF Good, Disciplined, Transport, NoBatch
  <2>5. Good(Pump(tr, throws))
    BY <2>3, <2>4 DEF Pump
  <2>6. Quiet(tr, Pump(tr, throws))
    BY <2>1 DEF Quiet
  <2> QED
    BY <2>5, <2>6
<1> QED
  BY <1>1, <1>2

(* So does what follows an answer. *)
LEMMA AfterAnswerGood ==
  ASSUME NEW tr, Good(tr), NEW aged \in BOOLEAN, NEW throws \in BOOLEAN
  PROVE  /\ Good(AfterAnswer(tr, aged, throws))
         /\ Quiet(tr, AfterAnswer(tr, aged, throws))
<1>1. Good(Pump(tr, throws)) /\ Quiet(tr, Pump(tr, throws))
  BY PumpGood
<1>2. Quiet(Pump(tr, throws), ArmFlushTimer(Pump(tr, throws)))
  BY <1>1, ArmGood
<1>3. Quiet(tr, ArmFlushTimer(Pump(tr, throws)))
  BY <1>1, <1>2 DEF Quiet
<1> QED
  BY <1>1, <1>3, ArmGood DEF AfterAnswer

(* c is a with nothing in flight any more, and another ring. *)
Idles(a, c) ==
  /\ c \in Transport
  /\ c.inFlight = NoBatch /\ ~c.pending /\ ~c.retryTimer
  /\ c.made = a.made /\ c.state = a.state /\ c.wire = a.wire

(* A transport with nothing in flight is good. *)
LEMMA IdlesGood ==
  ASSUME NEW a \in Transport, NEW c, Idles(a, c)
  PROVE  Good(c)
<1>1. a.made \in Seq(Batch)
  BY DEF Transport
<1> QED
  BY <1>1 DEF Good, Disciplined, Idles, NoBatch

(* The records a refused batch is taken to hold are finitely many numbers. *)
LEMMA SpanType ==
  ASSUME NEW S
  PROVE  Span(S) \in SUBSET Nat /\ Cardinality(Span(S)) \in Nat
<1>1. Span(S) \subseteq 1..MaxSeq
  BY DEF Span
<1>2. IsFiniteSet(1..MaxSeq) /\ 1..MaxSeq \subseteq Nat
  BY MaxSeqAssumption, FS_Interval
<1> QED
  BY <1>1, <1>2, FS_Subset, FS_CardinalityType

(* Giving up the batch in flight, of a transport off or on. *)
LEMMA RefusedGood ==
  ASSUME NEW tr \in Transport, tr.inFlight \in 1..Len(tr.made), ~tr.retryTimer,
         NEW aged \in BOOLEAN, NEW throws \in BOOLEAN
  PROVE  LET c == Refused(tr, tr.inFlight, aged, throws)
         IN Good(c) /\ Quiet(tr, c)
<1> DEFINE b == tr.inFlight
           batch == tr.made[b]
           gone == tr.refused \cup {b}
           q == Marker(batch.lost \cup Span(batch.recs)) \o tr.queue
           d == tr.droppedRecords + Cardinality(Span(batch.recs))
           idle == [tr EXCEPT !.inFlight = NoBatch, !.pending = FALSE,
                              !.refused = tr.refused \cup {b}]
           back == [idle EXCEPT !.queue = q, !.droppedRecords = d]
<1>1. tr.made \in Seq(Batch) /\ batch \in Batch /\ tr.queue \in Seq(Entry)
      /\ tr.refused \in SUBSET Nat /\ b \in Nat /\ tr.droppedRecords \in Int
  BY DEF Transport
<1>2. tr.made # <<>>
  BY <1>1
<1>3. batch.lost \in SUBSET Nat
  BY <1>1 DEF Batch
<1>4. q \in Seq(Entry)
  <2>1. batch.lost \cup Span(batch.recs) \in SUBSET Nat
    BY <1>3, SpanType
  <2>2. Marker(batch.lost \cup Span(batch.recs)) \in Seq(Entry)
    BY <2>1, DropType DEF Marker
  <2> QED
    BY <1>1, <2>2
<1>5. d \in Int /\ gone \in SUBSET Nat
  BY <1>1, SpanType
<1>6. Idles(tr, idle)
  <2>1. idle \in Transport
    BY <1>5 DEF Transport, NoBatch
  <2> QED
    BY <2>1 DEF Idles, Transport
<1>7. Idles(tr, back)
  <2>1. back \in Transport
    BY <1>4, <1>5, <1>6 DEF Idles, Transport
  <2> QED
    BY <1>6, <2>1 DEF Idles, Transport
<1> HIDE DEF idle, back
<1>8. Good(Off(idle)) /\ Quiet(tr, Off(idle))
  <2>1. Good(idle) /\ idle.made = tr.made /\ idle.state = tr.state /\ idle.wire = tr.wire
    BY <1>6, IdlesGood DEF Idles
  <2> QED
    BY <1>2, <2>1, OffGood DEF Quiet
<1>9. /\ Good(Finish(back)) /\ Quiet(tr, Finish(back))
      /\ Good(AfterAnswer(back, aged, throws))
      /\ Quiet(tr, AfterAnswer(back, aged, throws))
  <2>1. /\ Good(back) /\ ~back.retryTimer /\ back.made = tr.made
        /\ back.state = tr.state /\ back.wire = tr.wire
    BY <1>7, IdlesGood DEF Idles
  <2>2. Good(Finish(back)) /\ (back.made # <<>> => Quiet(back, Finish(back)))
    BY <2>1, FinishGood, Zenon
  <2>3. Good(AfterAnswer(back, aged, throws)) /\ Quiet(back, AfterAnswer(back, aged, throws))
    BY <2>1, AfterAnswerGood, Zenon
  <2> QED
    BY <1>2, <2>1, <2>2, <2>3 DEF Quiet
<1>10. Refused(tr, tr.inFlight, aged, throws) =
         IF batch.hasHeader THEN Off(idle)
         ELSE IF batch.final THEN Finish(back) ELSE AfterAnswer(back, aged, throws)
  BY DEF Refused, Transport, idle, back
<1> QED
  BY <1>8, <1>9, <1>10

(* A failed request, or one that could not be made, retries or gives up. *)
LEMMA FailedGood ==
  ASSUME NEW tr \in Transport, tr.inFlight \in 1..Len(tr.made), ~tr.retryTimer,
         NEW aged \in BOOLEAN, NEW throws \in BOOLEAN
  PROVE  Good(Failed(tr, aged, throws)) /\ Quiet(tr, Failed(tr, aged, throws))
<1> DEFINE c == Failed(tr, aged, throws)
<1>1. tr.made \in Seq(Batch) /\ tr.made # <<>> /\ tr.attempts \in Nat
      /\ Len(tr.made) \in Nat /\ tr.inFlight \in Nat
  BY DEF Transport
<1>2. CASE tr.state = "off"
  <2>1. c = [tr EXCEPT !.pending = FALSE]
    BY <1>2 DEF Failed
  <2>2. c \in Transport
    BY <2>1 DEF Transport
  <2>3. /\ c.state = "off" /\ c.made = tr.made /\ c.wire = tr.wire
        /\ c.inFlight = tr.inFlight /\ ~c.pending /\ ~c.retryTimer
    BY <1>2, <2>1 DEF Transport
  <2> QED
    BY <1>1, <2>2, <2>3 DEF Good, Disciplined, Quiet
<1>3. CASE tr.state # "off" /\ tr.attempts < MaxRetries
  <2>1. c = AwaitRetry(tr, tr.inFlight, tr.attempts + 1)
    BY <1>3 DEF Failed
  <2> HIDE DEF c
  <2>2. /\ c \in Transport
        /\ c.state = tr.state /\ c.made = tr.made /\ c.wire = tr.wire
        /\ c.inFlight = tr.inFlight /\ ~c.pending /\ c.retryTimer
    <3>1. tr.attempts + 1 \in Nat
      BY <1>1
    <3>2. Awaits(tr, tr.inFlight, c)
      BY <1>1, <2>1, <3>1, AwaitRetryType
    <3> QED
      BY <3>2 DEF Awaits
  <2>3. Good(c) /\ Quiet(tr, c)
    BY <1>1, <1>3, <2>2 DEF Good, Disciplined, Quiet, NoBatch
  <2> QED
    BY <2>3 DEF c
<1>4. CASE tr.state # "off" /\ ~(tr.attempts < MaxRetries)
  BY <1>4, RefusedGood DEF Failed
<1> QED
  BY <1>2, <1>3, <1>4

(* The gates open. *)
LEMMA OpenGood ==
  ASSUME NEW tr, Good(tr), tr.state # "off", NEW throws \in BOOLEAN
  PROVE  Good(Open(tr, throws))
<1> DEFINE open == [tr EXCEPT !.state = "open"]
<1>1. Good(open)
  BY DEF Good, Disciplined, Transport, States, NoBatch
<1> QED
  BY <1>1, PumpGood, ArmGood DEF Open

(* enqueue keeps a transport good, full ring and due batch included. *)
LEMMA EnqueueGood ==
  ASSUME NEW tr, Good(tr), NEW e \in Entry, NEW throws \in BOOLEAN
  PROVE  Good(Enqueue(tr, e, throws)) /\ Quiet(tr, Enqueue(tr, e, throws))
<1> DEFINE held == [tr EXCEPT !.queue = Append(tr.queue, e)]
           pumped == Pump(held, throws)
           cut == EvictToCap(pumped, ringBytes)
<1>1. Good(held) /\ Quiet(tr, held)
  <2>1. Append(tr.queue, e) \in Seq(Entry)
    BY DEF Good, Transport
  <2> QED
    BY <2>1 DEF Good, Disciplined, Quiet, Transport, NoBatch
<1>2. Good(pumped) /\ Quiet(held, pumped)
  BY <1>1, PumpGood
<1>3. Good(cut) /\ Quiet(pumped, cut)
  BY <1>2, EvictGood
<1>4. \A c : Good(c) /\ Quiet(tr, c) => Good(ArmFlushTimer(c)) /\ Quiet(tr, ArmFlushTimer(c))
  <2> TAKE c
  <2> HAVE Good(c) /\ Quiet(tr, c)
  <2>1. Good(ArmFlushTimer(c)) /\ Quiet(c, ArmFlushTimer(c))
    BY ArmGood
  <2> QED
    BY <2>1 DEF Quiet
<1>5. Quiet(tr, pumped)
  BY <1>1, <1>2 DEF Quiet
<1>6. Quiet(tr, cut)
  BY <1>3, <1>5 DEF Quiet
<1>7. \/ Enqueue(tr, e, throws) = ArmFlushTimer(cut)
      \/ Enqueue(tr, e, throws) = ArmFlushTimer(pumped)
      \/ Enqueue(tr, e, throws) = ArmFlushTimer(held)
  BY DEF Enqueue
<1> QED
  BY <1>1, <1>2, <1>3, <1>4, <1>5, <1>6, <1>7

-----------------------------------------------------------------------------
(* Leaving the page.                                                       *)

(* A batch sent while leaving is not in flight. *)
LEMMA SendLeavingGood ==
  ASSUME NEW tr, Good(tr), tr.state # "off"
  PROVE  /\ Good(SendLeaving(tr)) /\ SendLeaving(tr).state = tr.state
         /\ SendLeaving(tr).retryTimer = tr.retryTimer
         /\ SendLeaving(tr).made = tr.made
<1>1. tr.made \in Seq(Batch) /\ Len(tr.made) \in Nat
  BY DEF Good, Transport
<1>2. tr.wire \cup {Len(tr.made)} \in SUBSET Nat
  BY <1>1 DEF Good, Transport
<1> QED
  BY <1>1, <1>2 DEF Good, Disciplined, SendLeaving, Transport, NoBatch

(* The first part of drainNow leaves no retry timer behind. *)
LEMMA LeaveWaitingGood ==
  ASSUME NEW tr, Good(tr), tr.state = "open"
  PROVE  /\ Good(LeaveWaiting(tr)) /\ ~LeaveWaiting(tr).retryTimer
         /\ LeaveWaiting(tr).state \in {"open", "ended"}
<1> DEFINE left == [tr EXCEPT !.retryTimer = FALSE, !.inFlight = NoBatch,
                              !.wire = @ \cup {tr.inFlight}]
<1>1. tr \in Transport /\ tr.made \in Seq(Batch) /\ Len(tr.made) \in Nat
  BY DEF Good, Transport
<1>2. CASE tr.inFlight # NoBatch /\ tr.retryTimer
  <2>1. Good(left) /\ ~left.retryTimer /\ left.state = "open"
    <3>1. left \in Transport
      BY <1>1 DEF Transport, NoBatch
    <3>2. /\ left.inFlight = NoBatch /\ ~left.retryTimer /\ left.state = "open"
          /\ left.pending = tr.pending /\ left.made = tr.made
      BY <1>1 DEF Transport
    <3>3. ~tr.pending
      BY <1>2 DEF Good, Disciplined
    <3> QED
      BY <1>1, <3>1, <3>2, <3>3 DEF Good, Disciplined, NoBatch
  <2> HIDE DEF left
  <2>2. Good(Finish(left))
    BY <2>1, FinishGood, Zenon
  <2>3. ~Finish(left).retryTimer /\ Finish(left).state = "ended"
    BY <2>1 DEF Good, Finish, Transport
  <2> QED
    BY <1>2, <2>1, <2>2, <2>3 DEF LeaveWaiting, left
<1>3. CASE ~(tr.inFlight # NoBatch /\ tr.retryTimer)
  BY <1>3 DEF LeaveWaiting, Good, Disciplined
<1> QED
  BY <1>2, <1>3

(* Nor does all of it that precedes its loop. *)
LEMMA DrainHeadGood ==
  ASSUME NEW tr, Good(tr)
  PROVE  /\ Good(DrainHead(tr)) /\ Quiet(tr, DrainHead(tr))
         /\ ~DrainHead(tr).retryTimer \/ DrainHead(tr).state # "open"
<1>1. CASE tr.state # "open"
  BY <1>1 DEF DrainHead, Quiet
<1>2. CASE tr.state = "open"
  <2> DEFINE left == LeaveWaiting(tr)
             last == CutFinalEmpty(left)
  <2>1. Good(left) /\ ~left.retryTimer
    BY <1>2, LeaveWaitingGood
  <2>2. CASE left.state = "open"
    <3>1. Good(last) /\ last.state = "open" /\ ~last.retryTimer
      BY <2>1, <2>2, CutGood, CutFinalEmptyType DEF Good, Builds
    <3>2. Good(SendLeaving(last)) /\ ~SendLeaving(last).retryTimer
      BY <3>1, SendLeavingGood
    <3>3. Good(Finish(SendLeaving(last))) /\ ~Finish(SendLeaving(last)).retryTimer
      BY <3>2, FinishGood, ZenonT(60) DEF Good, Finish, Transport
    <3> QED
      BY <1>2, <2>1, <3>3 DEF DrainHead, Quiet
  <2>3. CASE left.state # "open"
    BY <1>2, <2>1, <2>3 DEF DrainHead, Quiet
  <2> QED
    BY <2>2, <2>3
<1> QED
  BY <1>1, <1>2

-----------------------------------------------------------------------------
(* The invariant.  The gates need more than GatesRespected: an open or     *)
(* ended transport passed them, and one that waits for consent has no      *)
(* configuration request under way.  The loop of drainNow runs only where  *)
(* it is open with no retry timer, or its final batch would end a session  *)
(* whose batch in flight then had nothing left to wake it.                 *)

GatesInv ==
  /\ t.made # <<>> \/ t.state \in {"open", "ended"}
     => config = "done" /\ (consentRequired => consent = "yes")
  /\ t.state = "waiting-for-consent" => config \in {"none", "done"}
  /\ config = "pending" /\ consentRequired => consent = "yes"

DrainInv == draining => t.state = "open" /\ ~t.retryTimer

Inv == TypeOK /\ Disciplined(t) /\ GatesInv /\ DrainInv

(* The parts of the invariant. *)
LEMMA InvGood ==
  ASSUME Inv
  PROVE  Good(t) /\ TypeOK /\ GatesInv /\ DrainInv
  BY DEF Inv, Good, TypeOK

SilentStep ==
  t.state = "off" => t'.state = "off" /\ t'.made = t.made /\ t'.wire \subseteq t.wire

(* A quiet step that leaves the gates' own variables alone keeps them. *)
LEMMA SteadyStep ==
  ASSUME Inv, Good(t'), Quiet(t, t'),
         UNCHANGED <<config, consentRequired, consent, ringBytes, siteLists>>,
         halted' \in BOOLEAN, draining' \in BOOLEAN, written' \in Nat,
         stored' \subseteq Nat,
         draining' => t'.state = "open" /\ ~t'.retryTimer
  PROVE  Inv' /\ SilentStep
<1>1. TypeOK'
  BY DEF Inv, TypeOK, Good
<1>2. GatesInv'
  <2>1. CASE t.made # <<>> \/ t.state \in {"open", "ended"}
    BY <2>1 DEF Inv, GatesInv
  <2>2. CASE ~(t.made # <<>> \/ t.state \in {"open", "ended"})
    <3>1. t'.made = <<>> /\ t'.state \in {t.state, "off"}
      BY <2>2 DEF Quiet
    <3> QED
      BY <2>2, <3>1 DEF Inv, GatesInv
  <2> QED
    BY <2>1, <2>2
<1>3. Disciplined(t)' /\ DrainInv'
  BY DEF Good, DrainInv
<1>4. SilentStep
  BY DEF Quiet, SilentStep
<1> QED
  BY <1>1, <1>2, <1>3, <1>4 DEF Inv

(* The same, where drainNow's loop is not under way and does not begin. *)
LEMMA HandlerStep ==
  ASSUME Inv, ~draining, Good(t'), Quiet(t, t'), UNCHANGED Idle
  PROVE  Inv' /\ SilentStep
<1>1. /\ halted' \in BOOLEAN /\ draining' \in BOOLEAN /\ ~draining'
      /\ written' \in Nat /\ stored' \subseteq Nat
      /\ UNCHANGED <<config, consentRequired, consent, ringBytes, siteLists>>
  BY DEF Inv, TypeOK, Idle
<1> QED
  BY <1>1, SteadyStep

-----------------------------------------------------------------------------
(* One lemma per group of actions.                                         *)

(* The constructor establishes the invariant. *)
LEMMA InitInv == Init => Inv
<1> SUFFICES ASSUME Init PROVE Inv
  OBVIOUS
<1>1. PICK s \in {"off", "waiting-for-consent", "configuring"} :
        /\ t = New(s)
        /\ s = "waiting-for-consent" => config = "none"
        /\ config = "none" \/ (config = "pending" /\ ~consentRequired)
  BY DEF Init
<1>2. <<>> \in Seq(Entry) /\ <<>> \in Seq(Batch) /\ Len(<<>>) = 0
  OBVIOUS
<1>3. t \in Transport /\ Disciplined(t) /\ t.made = <<>> /\ t.state = s
  BY <1>1, <1>2 DEF New, Transport, Disciplined, NoBatch, States
<1>4. TypeOK
  BY <1>1, <1>3, GatesAssumption DEF Init, TypeOK
<1>5. GatesInv /\ DrainInv
  BY <1>1, <1>3 DEF Init, GatesInv, DrainInv
<1> QED
  BY <1>3, <1>4, <1>5 DEF Inv

(* A frame is an entry of the ring. *)
LEMMA FrameType ==
  ASSUME siteLists \in BOOLEAN, NEW kind \in Pinned \cup {"record"},
         NEW seq \in Nat, NEW size \in Sizes
  PROVE  Frame(kind, seq, size) \in Entry
  BY DEF Frame, Entry

(* append of a frame, too large or not. *)
LEMMA AppendFrameStep ==
  ASSUME Inv, NEW size \in Sizes, NEW throws \in BOOLEAN,
         AppendFrame(size, throws)
  PROVE  Inv' /\ SilentStep
<1> DEFINE kind == CASE written = 0 -> "Header" [] written = 1 -> "Env"
                     [] OTHER -> "record"
           seq == IF kind = "record" THEN written - 1 ELSE 0
           dropped == [t EXCEPT !.queue = Append(@, Drop({seq})),
                                !.droppedRecords = @ + 1]
           taken == Enqueue(t, Frame(kind, seq, size), throws)
<1>1. Good(t) /\ TypeOK
  BY InvGood
<1>2. kind \in Pinned \cup {"record"} /\ seq \in Nat
  BY <1>1 DEF TypeOK, Pinned
<1>3. Good(taken) /\ Quiet(t, taken)
  <2>1. Frame(kind, seq, size) \in Entry
    BY <1>1, <1>2, FrameType DEF TypeOK
  <2> QED
    BY <1>1, <2>1, EnqueueGood
<1>4. Good(dropped) /\ Quiet(t, dropped)
  <2>1. t.queue \in Seq(Entry) /\ Drop({seq}) \in Entry /\ t.droppedRecords \in Int
    BY <1>1, <1>2, DropType DEF Good, Transport
  <2>2. Append(t.queue, Drop({seq})) \in Seq(Entry) /\ t.droppedRecords + 1 \in Int
    BY <2>1
  <2> QED
    BY <1>1, <2>2 DEF Good, Disciplined, Quiet, Transport, NoBatch
<1>5. Good(t') /\ Quiet(t, t')
  BY <1>3, <1>4 DEF AppendFrame
<1>6. /\ UNCHANGED <<config, consentRequired, consent, ringBytes, siteLists>>
      /\ halted' \in BOOLEAN /\ ~draining' /\ draining' \in BOOLEAN
      /\ written' \in Nat /\ stored' \subseteq Nat
  BY <1>1 DEF AppendFrame, TypeOK, Writing
<1> QED
  BY <1>5, <1>6, SteadyStep

(* end with an End frame, unloading or not. *)
LEMMA EndStep ==
  ASSUME Inv, NEW unloading \in BOOLEAN, NEW throws \in BOOLEAN,
         End(unloading, throws)
  PROVE  Inv' /\ SilentStep
<1> DEFINE ending == [t EXCEPT !.ended = TRUE]
           held == Enqueue(ending, Frame("End", 0, 1), throws)
<1>1. Good(t) /\ TypeOK
  BY InvGood
<1>2. Good(ending) /\ Quiet(t, ending)
  BY <1>1 DEF Good, Disciplined, Quiet, Transport, NoBatch
<1>3. Good(held) /\ Quiet(t, held)
  <2>1. Frame("End", 0, 1) \in Entry
    BY <1>1, BytesAssumption, FrameType DEF TypeOK, Pinned
  <2>2. Good(held) /\ Quiet(ending, held)
    BY <1>2, <2>1, EnqueueGood
  <2> QED
    BY <1>2, <2>2 DEF Quiet
<1>4. /\ Good(Pump(held, throws)) /\ Quiet(held, Pump(held, throws))
      /\ Good(DrainHead(held)) /\ Quiet(held, DrainHead(held))
      /\ ~DrainHead(held).retryTimer \/ DrainHead(held).state # "open"
  BY <1>3, PumpGood, DrainHeadGood
<1> HIDE DEF held
<1>5. t' = IF unloading THEN DrainHead(held) ELSE Pump(held, throws)
  BY DEF End, held
<1>6. Good(t') /\ Quiet(t, t')
  BY <1>3, <1>4, <1>5 DEF Quiet
<1>7. /\ UNCHANGED <<config, consentRequired, consent, ringBytes, siteLists>>
      /\ halted' \in BOOLEAN /\ draining' \in BOOLEAN
      /\ draining' => t'.state = "open" /\ ~t'.retryTimer
      /\ written' \in Nat /\ stored' \subseteq Nat
  BY <1>1, <1>4, <1>5 DEF End, TypeOK, Loops
<1> QED
  BY <1>6, <1>7, SteadyStep

(* Every step of the recorder's side. *)
LEMMA RecordingStep ==
  ASSUME Inv, Recording
  PROVE  Inv' /\ SilentStep
<1> PICK throws \in BOOLEAN :
      \/ \E size \in Sizes : AppendFrame(size, throws)
      \/ \E unloading \in BOOLEAN : End(unloading, throws)
      \/ Halt(throws)
      \/ StopAfterFault(throws)
      \/ Flush(throws)
  BY DEF Recording
<1>1. Good(t) /\ TypeOK
  BY InvGood
<1>2. Good(Pump(t, throws)) /\ Quiet(t, Pump(t, throws))
  BY <1>1, PumpGood
<1>3. CASE \E size \in Sizes : AppendFrame(size, throws)
  BY <1>3, AppendFrameStep
<1>4. CASE \E unloading \in BOOLEAN : End(unloading, throws)
  BY <1>4, EndStep
<1>5. CASE Halt(throws)
  <2>1. /\ UNCHANGED <<config, consentRequired, consent, ringBytes, siteLists>>
        /\ halted' \in BOOLEAN /\ draining' \in BOOLEAN /\ ~draining'
        /\ written' \in Nat /\ stored' \subseteq Nat
    BY <1>1, <1>5 DEF Halt, TypeOK, Writing
  <2> QED
    BY <1>2, <1>5, <2>1, SteadyStep DEF Halt
<1>6. CASE StopAfterFault(throws)
  <2> DEFINE ending == [t EXCEPT !.ended = TRUE]
  <2>1. Good(ending) /\ Quiet(t, ending)
    BY <1>1 DEF Good, Disciplined, Quiet, Transport, NoBatch
  <2>2. Good(Pump(ending, throws)) /\ Quiet(ending, Pump(ending, throws))
    BY <2>1, PumpGood
  <2>3. Quiet(t, Pump(ending, throws))
    BY <2>1, <2>2 DEF Quiet
  <2>4. ~draining /\ UNCHANGED Idle /\ t' = Pump(ending, throws)
    BY <1>6 DEF StopAfterFault, Idle
  <2> QED
    BY <2>2, <2>3, <2>4, HandlerStep
<1>7. CASE Flush(throws)
  BY <1>2, <1>7, HandlerStep DEF Flush
<1> QED
  BY <1>3, <1>4, <1>5, <1>6, <1>7

(* The page is hidden, and each iteration of drainNow's loop. *)
LEMMA LeavingStep ==
  ASSUME Inv, PageLeaves \/ DrainStep
  PROVE  Inv' /\ SilentStep
<1>1. Good(t) /\ TypeOK
  BY InvGood
<1>2. CASE PageLeaves
  <2>1. /\ Good(DrainHead(t)) /\ Quiet(t, DrainHead(t))
        /\ ~DrainHead(t).retryTimer \/ DrainHead(t).state # "open"
    BY <1>1, DrainHeadGood
  <2>2. /\ UNCHANGED <<config, consentRequired, consent, ringBytes, siteLists>>
        /\ halted' \in BOOLEAN /\ draining' \in BOOLEAN
        /\ draining' => t'.state = "open" /\ ~t'.retryTimer
        /\ written' \in Nat /\ stored' \subseteq Nat
    BY <1>1, <1>2, <2>1 DEF PageLeaves, TypeOK, Loops
  <2> QED
    BY <1>2, <2>1, <2>2, SteadyStep DEF PageLeaves
<1>3. CASE DrainStep
  <2> DEFINE cut == Cut(t)
             sent == SendLeaving(cut)
  <2>1. t.state = "open" /\ ~t.retryTimer
    BY <1>3 DEF Inv, DrainInv, DrainStep
  <2>2. Good(cut) /\ cut.state = "open" /\ ~cut.retryTimer /\ cut.made # <<>>
    BY <1>1, <2>1, CutGood, CutType DEF Good, Builds
  <2>3. Good(sent) /\ sent.state = "open" /\ ~sent.retryTimer
    BY <2>2, SendLeavingGood
  <2>4. Good(Finish(sent)) /\ ~Finish(sent).retryTimer
    BY <2>3, FinishGood DEF Good, Finish, Transport
  <2> HIDE DEF sent
  <2>5. t' = sent \/ t' = Finish(sent)
    BY <1>3 DEF DrainStep, sent
  <2>6. Good(t') /\ ~t'.retryTimer /\ Quiet(t, t')
    BY <2>1, <2>3, <2>4, <2>5 DEF Quiet
  <2>7. /\ UNCHANGED <<config, consentRequired, consent, ringBytes, siteLists>>
        /\ halted' \in BOOLEAN /\ draining' \in BOOLEAN
        /\ draining' => t'.state = "open" /\ ~t'.retryTimer
        /\ written' \in Nat /\ stored' \subseteq Nat
    BY <1>1, <1>3, <2>6 DEF DrainStep, TypeOK, Loops
  <2> QED
    BY <2>6, <2>7, SteadyStep
<1> QED
  BY <1>2, <1>3

(* Scrubbing the frames held again keeps a transport good. *)
LEMMA RewriteGood ==
  ASSUME NEW tr, Good(tr), NEW resize \in [Sizes -> Sizes]
  PROVE  /\ Good(Rewrite(tr, resize))
         /\ Rewrite(tr, resize).state = tr.state
         /\ Rewrite(tr, resize).made = tr.made
<1> DEFINE q == tr.queue
           kept == [i \in DOMAIN q |-> Rescrubbed(q[i], resize)]
<1>1. q \in Seq(Entry) /\ DOMAIN q = 1..Len(q) /\ Len(q) \in Nat
  BY DEF Good, Transport
<1>2. ASSUME NEW e \in Entry PROVE Rescrubbed(e, resize) \in Entry
  <2>1. CASE e \in [kind : Pinned \cup {"record"}, seq : Nat, size : Sizes,
                    scrubbed : BOOLEAN, lost : {{}}]
    <3>1. resize[e.size] \in Sizes
      BY <2>1
    <3>2. [e EXCEPT !.scrubbed = TRUE, !.size = resize[e.size]] \in Entry
      BY <2>1, <3>1 DEF Entry
    <3> QED
      BY <2>1, <3>2 DEF Rescrubbed
  <2>2. CASE e.kind = "drop"
    BY <1>2, <2>2 DEF Rescrubbed, IsFrame
  <2> QED
    BY <1>2, <2>1, <2>2 DEF Entry
<1>3. kept \in Seq(Entry)
  <2>1. \A i \in 1..Len(q) : q[i] \in Entry
    BY <1>1
  <2>2. kept \in [1..Len(q) -> Entry]
    BY <1>1, <1>2, <2>1
  <2> QED
    BY <1>1, <2>2, SeqDef
<1>4. Rewrite(tr, resize) = [tr EXCEPT !.queue = kept]
  BY DEF Rewrite
<1> HIDE DEF kept
<1> QED
  BY <1>3, <1>4 DEF Good, Disciplined, Transport, NoBatch

(* The consent callback's answer, or its promise's. *)
LEMMA OnConsentStep ==
  ASSUME Inv, ~draining, NEW yes \in BOOLEAN, NEW throws \in BOOLEAN,
         OnConsent(yes, throws), consent \in {"unasked", "awaited"}
  PROVE  Inv' /\ SilentStep
<1> DEFINE over == t.state \in {"off", "ended"}
           asks == t.state = "waiting-for-consent" /\ config = "none"
           asking == [t EXCEPT !.state = "configuring"]
<1>1. Good(t) /\ TypeOK /\ GatesInv
  BY InvGood
<1>2. Good(Off(t)) /\ Quiet(t, Off(t)) /\ Off(t).state = "off" /\ Off(t).made = t.made
  BY <1>1, OffGood DEF Off, Good, Transport
<1>3. t.state # "off"
        => Good(asking) /\ asking.state = "configuring" /\ asking.made = t.made
  BY <1>1 DEF Good, Disciplined, Transport, States, NoBatch
<1>4. t.state # "off" => Good(Open(t, throws))
  BY <1>1, OpenGood
<1>5. /\ consent' = IF yes THEN "yes" ELSE "no"
      /\ t' = CASE ~over /\ ~yes -> Off(t)
               [] ~over /\ yes /\ asks -> asking
               [] ~over /\ yes /\ t.state = "waiting-for-consent" /\ ~asks ->
                    Open(t, throws)
               [] OTHER -> t
      /\ config' = IF yes /\ asks THEN "pending" ELSE config
      /\ UNCHANGED <<halted, draining, ringBytes, siteLists, consentRequired,
                     written, stored>>
  BY DEF OnConsent
<1> HIDE DEF asking
<1>6. Good(t')
  BY <1>1, <1>2, <1>3, <1>4, <1>5
<1>7. TypeOK'
  BY <1>1, <1>5, <1>6 DEF TypeOK, Good
<1>8. GatesInv'
  <2>1. CASE ~over /\ ~yes
    <3>1. t'.state = "off" /\ t'.made = t.made /\ config' = config /\ consent' = "no"
      BY <1>2, <1>5, <2>1
    <3>2. t.made = <<>> \/ ~consentRequired
      BY <1>1 DEF GatesInv
    <3>3. config = "pending" => ~consentRequired
      BY <1>1 DEF GatesInv
    <3>4. t.made # <<>> => config = "done"
      BY <1>1 DEF GatesInv
    <3> QED
      BY <1>5, <3>1, <3>2, <3>3, <3>4 DEF GatesInv
  <2>2. CASE ~over /\ yes /\ asks
    <3>1. t'.state = "configuring" /\ t'.made = t.made /\ config' = "pending"
          /\ consent' = "yes"
      BY <1>3, <1>5, <2>2
    <3> QED
      BY <1>1, <1>5, <2>2, <3>1 DEF GatesInv
  <2>3. CASE ~over /\ yes /\ t.state = "waiting-for-consent" /\ ~asks
    BY <1>1, <1>5, <2>3 DEF GatesInv
  <2>4. CASE over \/ (yes /\ t.state # "waiting-for-consent")
    <3>1. t' = t /\ config' = config
      BY <1>5, <2>4
    <3>2. t.made # <<>> \/ t.state \in {"open", "ended"}
            => ~consentRequired
      BY <1>1 DEF GatesInv
    <3>3. config = "pending" => ~consentRequired
      BY <1>1 DEF GatesInv
    <3> QED
      BY <1>1, <1>5, <3>1, <3>2, <3>3 DEF GatesInv
  <2> QED
    BY <2>1, <2>2, <2>3, <2>4
<1>9. DrainInv' /\ SilentStep
  BY <1>5 DEF DrainInv, SilentStep
<1> QED
  BY <1>6, <1>7, <1>8, <1>9 DEF Inv, Good

(* The configuration's answer, when it enables recording. *)
LEMMA ConfigureStep ==
  ASSUME Inv, NEW lists \in ListsBrought, NEW resize \in [Sizes -> Sizes],
         NEW cap \in RingSizes \cup {0}, NEW requires \in Requiring,
         NEW throws \in BOOLEAN, Configure(lists, resize, cap, requires, throws)
  PROVE  Inv' /\ SilentStep
<1> DEFINE rewritten == IF lists THEN Rewrite(t, resize) ELSE t
           kept == IF cap = 0 THEN rewritten ELSE EvictToCap(rewritten, cap)
           waits == [kept EXCEPT !.state = "waiting-for-consent"]
<1>1. Good(t) /\ TypeOK /\ GatesInv
  BY InvGood
<1>2. ~draining /\ config = "pending" /\ config' = "done"
      /\ UNCHANGED <<halted, draining, consent, written, stored>>
  BY DEF Configure
<1>3. CASE t.state = "off"
  <2>1. UNCHANGED <<t, siteLists, ringBytes, consentRequired>>
    BY <1>3 DEF Configure
  <2>2. t.made = <<>>
    BY <1>1, <1>2 DEF GatesInv
  <2>3. TypeOK' /\ Disciplined(t)' /\ GatesInv' /\ DrainInv'
    BY <1>1, <1>2, <1>3, <2>1, <2>2 DEF TypeOK, GatesInv, DrainInv, Good, Disciplined
  <2> QED
    BY <1>3, <2>1, <2>3 DEF Inv, SilentStep
<1>4. CASE t.state # "off"
  <2>1. /\ siteLists' = lists
        /\ ringBytes' = IF cap = 0 THEN ringBytes ELSE cap
        /\ consentRequired' = (consentRequired \/ requires)
        /\ t' = IF requires /\ consent # "yes" THEN waits ELSE Open(kept, throws)
    BY <1>4 DEF Configure
  <2>2. t.made = <<>>
    BY <1>1, <1>2 DEF GatesInv
  <2>3. Good(rewritten) /\ rewritten.state = t.state /\ rewritten.made = <<>>
    BY <1>1, <2>2, RewriteGood
  <2> HIDE DEF rewritten
  <2>4. Good(kept) /\ kept.state = t.state /\ kept.made = <<>>
    <3>1. Good(EvictToCap(rewritten, cap))
          /\ EvictToCap(rewritten, cap).state = rewritten.state
          /\ EvictToCap(rewritten, cap).made = rewritten.made
      BY <2>3, EvictGood DEF EvictToCap, Good, Transport
    <3> QED
      BY <2>3, <3>1
  <2> HIDE DEF kept
  <2>5. Good(waits) /\ waits.state = "waiting-for-consent" /\ waits.made = <<>>
    BY <1>4, <2>4 DEF Good, Disciplined, Transport, States, NoBatch
  <2>6. Good(Open(kept, throws))
    BY <1>4, <2>4, OpenGood
  <2> HIDE DEF waits
  <2>7. Good(t')
    BY <2>1, <2>5, <2>6
  <2>8. TypeOK'
    <3>1. ringBytes' \in RingSizes /\ siteLists' \in BOOLEAN
      BY <1>1, <2>1, GatesAssumption, BytesAssumption DEF TypeOK
    <3> QED
      BY <1>1, <1>2, <2>1, <2>7, <3>1 DEF TypeOK, Good
  <2>9. GatesInv'
    <3>1. CASE requires /\ consent # "yes"
      BY <1>2, <2>1, <2>5, <3>1 DEF GatesInv
    <3>2. CASE ~(requires /\ consent # "yes")
      BY <1>1, <1>2, <2>1, <3>2 DEF GatesInv
    <3> QED
      BY <3>1, <3>2
  <2> QED
    BY <1>2, <1>4, <2>7, <2>8, <2>9 DEF Inv, Good, DrainInv, SilentStep
<1> QED
  BY <1>3, <1>4

(* Every step of the gates. *)
LEMMA GatesStep ==
  ASSUME Inv, Gates
  PROVE  Inv' /\ SilentStep
<1>1. Good(t) /\ TypeOK /\ GatesInv
  BY InvGood
<1>2. CASE \E throws \in BOOLEAN, answer \in ConsentAnswers : ConsentAsked(answer, throws)
  <2>1. PICK throws \in BOOLEAN, answer \in ConsentAnswers : ConsentAsked(answer, throws)
    BY <1>2
  <2>2. CASE answer = "awaited"
    <3>1. /\ consent = "unasked" /\ consent' = "awaited" /\ ~draining
          /\ UNCHANGED <<t, halted, draining, ringBytes, config, siteLists,
                         consentRequired, written, stored>>
      BY <2>1, <2>2 DEF ConsentAsked
    <3>2. TypeOK' /\ Disciplined(t)' /\ DrainInv'
      BY <1>1, <3>1 DEF TypeOK, Good, Disciplined, DrainInv
    <3>3. GatesInv'
      BY <1>1, <3>1 DEF GatesInv
    <3> QED
      BY <3>1, <3>2, <3>3 DEF Inv, SilentStep
  <2>3. CASE answer # "awaited"
    <3>1. ~draining /\ consent = "unasked" /\ OnConsent(answer = "yes", throws)
      BY <2>1, <2>3 DEF ConsentAsked
    <3>2. (answer = "yes") \in BOOLEAN
      OBVIOUS
    <3> QED
      BY <3>1, <3>2, OnConsentStep
  <2> QED
    BY <2>2, <2>3
<1>3. CASE \E throws \in BOOLEAN, yes \in BOOLEAN : ConsentSettles(yes, throws)
  BY <1>3, OnConsentStep DEF ConsentSettles
<1>4. CASE \E throws \in BOOLEAN, lists \in ListsBrought, requires \in Requiring,
              resize \in [Sizes -> Sizes], cap \in RingSizes \cup {0} :
             Configure(lists, resize, cap, requires, throws)
  BY <1>4, ConfigureStep
<1>5. CASE ConfigRefused
  <2>1. /\ ~draining /\ config = "pending" /\ config' = "done" /\ t' = Off(t)
        /\ UNCHANGED <<halted, draining, ringBytes, siteLists, consentRequired,
                       consent, written, stored>>
    BY <1>5 DEF ConfigRefused
  <2>2. Good(Off(t)) /\ Quiet(t, Off(t)) /\ Off(t).state = "off"
    BY <1>1, OffGood
  <2>3. t.made = <<>> /\ t.state \notin {"open", "ended"}
    BY <1>1, <2>1 DEF GatesInv
  <2>4. t'.made = <<>>
    BY <2>1, <2>2, <2>3 DEF Quiet
  <2>5. TypeOK' /\ Disciplined(t)' /\ DrainInv' /\ GatesInv'
    BY <1>1, <2>1, <2>2, <2>3, <2>4 DEF TypeOK, Good, DrainInv, GatesInv
  <2> QED
    BY <2>1, <2>2, <2>5 DEF Inv, SilentStep, Quiet
<1> QED
  BY <1>2, <1>3, <1>4, <1>5 DEF Gates

-----------------------------------------------------------------------------
(* A request's answer: accepted, it may be sent again, too large, or the   *)
(* session is refused. *)
LEMMA AnswersStep ==
  ASSUME Inv, Answers
  PROVE  Inv' /\ SilentStep
<1>1. Good(t) /\ TypeOK
  BY InvGood
<1>2. /\ ~draining /\ t.pending /\ UNCHANGED Idle
  BY DEF Answers, Accepted, RequestFails, TooLarge, SessionRefused
<1>3. /\ t.inFlight \in 1..Len(t.made) /\ ~t.retryTimer
      /\ t.made \in Seq(Batch) /\ t.made # <<>>
  BY <1>1, <1>2 DEF Good, Disciplined, Transport, NoBatch
<1> DEFINE done == [t EXCEPT !.inFlight = NoBatch, !.pending = FALSE]
<1>4. Idles(t, done)
  <2>1. done \in Transport
    BY <1>1 DEF Good, Transport, NoBatch
  <2> QED
    BY <1>1, <1>3, <2>1 DEF Idles, Good, Transport
<1>5. /\ Good(done) /\ ~done.retryTimer /\ Quiet(t, done)
      /\ done.made = t.made /\ done.made # <<>>
  BY <1>1, <1>3, <1>4, IdlesGood DEF Idles, Good, Quiet
<1> HIDE DEF done
<1>6. ASSUME NEW aged \in BOOLEAN, NEW throws \in BOOLEAN, Accepted(aged, throws)
      PROVE  Good(t') /\ Quiet(t, t')
  <2>1. t' = IF t.made[t.inFlight].final THEN Finish(done)
             ELSE AfterAnswer(done, aged, throws)
    BY <1>6 DEF Accepted, done
  <2>2. /\ Good(Finish(done)) /\ Quiet(done, Finish(done))
        /\ Good(AfterAnswer(done, aged, throws))
        /\ Quiet(done, AfterAnswer(done, aged, throws))
    BY <1>5, FinishGood, AfterAnswerGood
  <2> QED
    BY <1>5, <2>1, <2>2 DEF Quiet
<1>7. ASSUME NEW aged \in BOOLEAN, NEW throws \in BOOLEAN, RequestFails(aged, throws)
      PROVE  Good(t') /\ Quiet(t, t')
  <2>1. t' = Failed(t, aged, throws)
    BY <1>7 DEF RequestFails
  <2> QED
    BY <1>1, <1>3, <2>1, FailedGood DEF Good
<1>8. ASSUME NEW aged \in BOOLEAN, NEW throws \in BOOLEAN, TooLarge(aged, throws)
      PROVE  Good(t') /\ Quiet(t, t')
  <2> DEFINE less == [t EXCEPT !.wire = t.wire \ {t.inFlight}]
  <2>1. t' = Refused(less, t.inFlight, aged, throws)
    BY <1>8 DEF TooLarge
  <2>2. less \in Transport /\ less.inFlight = t.inFlight /\ less.made = t.made
        /\ less.retryTimer = t.retryTimer /\ less.state = t.state
        /\ less.wire \subseteq t.wire
    BY <1>1 DEF Good, Transport
  <2> HIDE DEF less
  <2>3. Good(t') /\ Quiet(less, t')
    BY <1>3, <2>1, <2>2, RefusedGood
  <2> QED
    BY <2>2, <2>3 DEF Quiet
<1>9. ASSUME SessionRefused
      PROVE  Good(t') /\ Quiet(t, t')
  <2>1. t' = Off(done)
    BY <1>9 DEF SessionRefused, done
  <2>2. Good(Off(done)) /\ Quiet(done, Off(done))
    BY <1>5, OffGood
  <2> QED
    BY <1>5, <2>1, <2>2 DEF Quiet
<1>10. Good(t') /\ Quiet(t, t')
  BY <1>6, <1>7, <1>8, <1>9 DEF Answers
<1> QED
  BY <1>2, <1>10, HandlerStep

(* A timer fires: the batch that waits is sent again, or the ring is cut.  *)
LEMMA TimersStep ==
  ASSUME Inv, Timers
  PROVE  Inv' /\ SilentStep
<1>1. Good(t) /\ TypeOK
  BY InvGood
<1>2. ASSUME NEW throws \in BOOLEAN, NEW aged \in BOOLEAN, NEW again \in BOOLEAN,
             RetryTimerFires(throws, aged, again)
      PROVE  Inv' /\ SilentStep
  <2> DEFINE fired == [t EXCEPT !.retryTimer = FALSE]
  <2>1. /\ ~draining /\ t.retryTimer /\ UNCHANGED Idle
        /\ t' = IF throws THEN Failed(fired, aged, again)
                ELSE Request(fired, t.inFlight)
    BY <1>2 DEF RetryTimerFires
  <2>2. /\ fired \in Transport /\ fired.inFlight = t.inFlight
        /\ fired.made = t.made /\ fired.state = t.state /\ fired.wire = t.wire
        /\ ~fired.retryTimer /\ ~fired.pending
    BY <1>1, <2>1 DEF Good, Disciplined, Transport
  <2>3. /\ t.inFlight \in 1..Len(t.made) /\ t.state # "off"
        /\ t.made \in Seq(Batch) /\ t.made # <<>>
    BY <1>1, <2>1 DEF Good, Disciplined, Transport, NoBatch
  <2> HIDE DEF fired
  <2>4. CASE throws
    BY <2>1, <2>2, <2>3, <2>4, FailedGood, HandlerStep DEF Quiet
  <2>5. CASE ~throws
    <3>1. t' = [fired EXCEPT !.inFlight = t.inFlight, !.pending = TRUE,
                             !.wire = fired.wire \cup {t.inFlight}]
      BY <2>1, <2>5 DEF Request
    <3>2. fired.wire \cup {t.inFlight} \in SUBSET Nat
      BY <2>2, <2>3 DEF Transport
    <3>3. /\ t' \in Transport /\ t'.inFlight = t.inFlight /\ t'.pending
          /\ ~t'.retryTimer /\ t'.made = t.made /\ t'.state = t.state
      BY <2>2, <2>3, <3>1, <3>2 DEF Transport
    <3>4. Good(t') /\ Quiet(t, t')
      BY <1>1, <2>3, <3>3 DEF Good, Disciplined, Quiet, NoBatch
    <3> QED
      BY <2>1, <3>4, HandlerStep
  <2> QED
    BY <2>4, <2>5
<1>3. ASSUME NEW throws \in BOOLEAN, FlushTimerFires(throws)
      PROVE  Inv' /\ SilentStep
  <2> DEFINE fired == [t EXCEPT !.flushTimer = FALSE]
  <2>1. /\ ~draining /\ UNCHANGED Idle
        /\ t' = ArmFlushTimer(Pump(fired, throws))
    BY <1>3 DEF FlushTimerFires
  <2>2. Good(fired) /\ Quiet(t, fired)
    BY <1>1 DEF Good, Disciplined, Transport, Quiet, NoBatch
  <2>3. Good(Pump(fired, throws)) /\ Quiet(fired, Pump(fired, throws))
    BY <2>2, PumpGood
  <2>4. Good(t') /\ Quiet(Pump(fired, throws), t')
    BY <2>1, <2>3, ArmGood
  <2>5. Quiet(t, t')
    BY <2>2, <2>3, <2>4 DEF Quiet
  <2> QED
    BY <2>1, <2>4, <2>5, HandlerStep
<1> QED
  BY <1>2, <1>3 DEF Timers

(* A copy of a batch is delivered or lost, drainNow's loop under way or not. *)
LEMMA NetworkStep ==
  ASSUME Inv, Network
  PROVE  Inv' /\ SilentStep
<1>1. Good(t) /\ TypeOK /\ DrainInv
  BY InvGood
<1>2. PICK b \in t.wire : Deliver(b) \/ Lose(b)
  BY DEF Network
<1>3. t' = [t EXCEPT !.wire = t.wire \ {b}] /\ b \in Nat
  BY <1>1, <1>2 DEF Deliver, Lose, Good, Transport
<1>4. Good(t') /\ Quiet(t, t') /\ t'.state = t.state /\ t'.retryTimer = t.retryTimer
  BY <1>1, <1>3 DEF Good, Disciplined, Transport, Quiet, NoBatch
<1>5. /\ UNCHANGED <<config, consentRequired, consent, ringBytes, siteLists>>
      /\ UNCHANGED <<halted, draining, written>>
      /\ stored' \subseteq Nat
  BY <1>1, <1>2, <1>3 DEF Deliver, Lose, Idle, TypeOK
<1> QED
  BY <1>1, <1>4, <1>5, SteadyStep DEF TypeOK, DrainInv

(* A handler throws, the loop's own iteration included. *)
LEMMA FaultsStep ==
  ASSUME Inv, Faults
  PROVE  Inv' /\ SilentStep
<1>1. Good(t) /\ TypeOK
  BY InvGood
<1>2. t' = Off(t) /\ Good(t') /\ Quiet(t, t')
  BY <1>1, OffGood DEF Faults
<1>3. /\ UNCHANGED <<config, consentRequired, consent, ringBytes, siteLists>>
      /\ halted' \in BOOLEAN /\ draining' = FALSE
      /\ written' \in Nat /\ stored' \subseteq Nat
  BY <1>1 DEF Faults, TypeOK
<1> QED
  BY <1>2, <1>3, SteadyStep

-----------------------------------------------------------------------------
(* The invariant is inductive, and no step of a transport that is off      *)
(* builds or sends. *)
LEMMA NextInv ==
  ASSUME Inv, [Next]_vars
  PROVE  Inv' /\ [t.state = "off" => /\ t'.state = "off" /\ t'.made = t.made
                                      /\ t'.wire \subseteq t.wire]_vars
<1>1. CASE Next
  <2>1. Inv' /\ SilentStep
    BY <1>1, RecordingStep, GatesStep, LeavingStep, AnswersStep, TimersStep,
       FaultsStep, NetworkStep DEF Next
  <2> QED
    BY <2>1 DEF SilentStep
<1>2. CASE UNCHANGED vars
  <2>1. Inv'
    BY <1>2 DEF vars, Inv, TypeOK, Disciplined, GatesInv, DrainInv
  <2> QED
    BY <1>2, <2>1
<1> QED
  BY <1>1, <1>2

(* Every reachable state satisfies the inductive invariant. *)
THEOREM Invariance == Spec => []Inv
<1>1. Init => Inv
  BY InitInv
<1>2. Inv /\ [Next]_vars => Inv'
  BY NextInv
<1> QED
  BY <1>1, <1>2, PTL DEF Spec

(* The variables keep their types, whatever the bounds: no handler indexes *)
(* the ring or the batches built out of range. *)
THEOREM TypeCorrect == Spec => []TypeOK
<1>1. Inv => TypeOK
  BY DEF Inv
<1> QED
  BY <1>1, Invariance, PTL

(* A batch in flight has exactly one thing to wake the transport up again. *)
THEOREM OneWakeUpAlways == Spec => []OneWakeUp
<1>1. Inv => OneWakeUp
  BY DEF Inv, TypeOK, Transport, Disciplined, OneWakeUp
<1> QED
  BY <1>1, Invariance, PTL

(* No request is made before the gates the options and the configuration   *)
(* set, in whatever order consent and configuration are answered. *)
THEOREM GatesAlwaysRespected == Spec => []GatesRespected
<1>1. Inv => GatesRespected
  BY DEF Inv, GatesInv, GatesRespected
<1> QED
  BY <1>1, Invariance, PTL

(* Once off, the transport is silent for good. *)
THEOREM SilentForGood == Spec => SilentOnceOff
<1>1. Inv /\ [Next]_vars
        => [t.state = "off" => /\ t'.state = "off" /\ t'.made = t.made
                               /\ t'.wire \subseteq t.wire]_vars
  BY NextInv
<1> QED
  BY <1>1, Invariance, PTL DEF Spec, SilentOnceOff
===============================================================================
