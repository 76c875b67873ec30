--------------------------- MODULE RecordFateProofs ---------------------------
(***************************************************************************)
(* Proofs that HttpBatchTransport accounts for every record, whatever the  *)
(* bounds: each has one fate, which goes only forward (RecordFate), the    *)
(* drops are counted, the batches keep the log's order, the site's lists   *)
(* scrub all that leaves, and nothing that waits is stranded.              *)
(*                                                                         *)
(* Sound says of a transport where its records are.  What changes that is  *)
(* six moves: a frame is appended, some that wait are dropped, all are     *)
(* scrubbed again, a batch is cut (with frames, or the final empty one),   *)
(* a batch is given up, the transport turns off.  A lemma for each says    *)
(* that Sound is kept and no fate goes back (Fated); the rest leaves the   *)
(* records alone (Steady).  A handler is their composition.                *)
(***************************************************************************)
EXTENDS BatchTransportFate, BatchTransportProofs

(* The records an entry of the ring stands for: its own, or those dropped. *)
Names(e) == IF e.kind = "record" THEN {e.seq} ELSE e.lost
(* The records a batch carries or reports, and the batches not given up.   *)
Tells(b) == b.recs \cup b.lost
Live(tr) == DOMAIN tr.made \ tr.refused

(* The ring q of w frames written.  Records are in order; with no drop     *)
(* between two of them there is no hole; Header and Env precede them, End  *)
(* follows everything.                                                     *)
RingOrdered(q, w, ended) ==
  /\ \A i \in DOMAIN q : q[i].kind = "record" => q[i].seq \in 1..w - 2
  /\ \A i, j \in DOMAIN q : i < j /\ q[i].kind = "record" =>
        /\ q[j].kind \notin {"Header", "Env"}
        /\ q[j].kind = "record" => q[i].seq < q[j].seq
  /\ \A i, j \in DOMAIN q : i < j /\ q[i].kind = "record" /\ q[j].kind = "record"
                            /\ (\A k \in i..j : IsFrame(q[k])) =>
        \A k \in i..j : q[k].kind = "record" /\ q[k].seq = q[i].seq + (k - i)
  /\ \A i \in DOMAIN q : i = Len(q) /\ q[i].kind = "record" => q[i].seq = w - 2
  /\ \A i \in DOMAIN q : q[i].kind = "End" => i = Len(q) /\ ended

(* Records with nothing but frames between them are a run.                 *)
LEMMA RingRuns == ASSUME NEW q, NEW w, NEW e, RingOrdered(q, w, e), NEW i \in DOMAIN q,
    NEW j \in DOMAIN q, i < j, q[i].kind = "record", q[j].kind = "record",
    \A k \in i..j : IsFrame(q[k]), NEW k \in i..j
  PROVE q[k].kind = "record" /\ q[k].seq = q[i].seq + (k - i)
  BY DEF RingOrdered

LEMMA Shifted == ASSUME NEW i \in Int, NEW j \in Int, NEW d \in Int
  PROVE /\ \A l \in (i - d)..(j - d) : l + d \in i..j /\ (l + d) - d = l
        /\ \A k \in i..j : k - d \in (i - d)..(j - d) /\ (k - d) - (i - d) = k - i
  OBVIOUS

(* The batches, and the ring after them.                                   *)
BatchesOrdered(tr, w) ==
  /\ \A b \in DOMAIN tr.made : tr.made[b].recs \subseteq 1..w - 2
  /\ \A b, c \in DOMAIN tr.made : b < c =>
        \A m \in tr.made[b].recs, n \in tr.made[c].recs : m < n
  /\ \A b \in DOMAIN tr.made : tr.made[b].recs = Span(tr.made[b].recs)
  /\ \A b \in DOMAIN tr.made, i \in DOMAIN tr.queue : tr.queue[i].kind = "record" =>
        \A m \in tr.made[b].recs : m < tr.queue[i].seq

(* The Header waits in front until the first batch takes it.               *)
HeaderInv(tr, w) ==
  /\ \A b \in DOMAIN tr.made : ("Header" \in tr.made[b].pins) = (b = 1)
                               /\ tr.made[b].hasHeader = (b = 1)
  /\ \A i \in DOMAIN tr.queue : tr.queue[i].kind = "Header" => i = 1 /\ tr.made = <<>>
  /\ tr.made = <<>> /\ tr.state # "off" /\ w >= 1 =>
        1 \in DOMAIN tr.queue /\ tr.queue[1].kind = "Header"
  /\ w = 0 => tr.queue = <<>> /\ tr.made = <<>>

(* A final batch is the last thing a session makes.                        *)
FinalInv(tr, w) ==
  /\ \A b \in DOMAIN tr.made :
       /\ tr.made[b].final => b = Len(tr.made) /\ ~HasFrames(tr.queue) /\ tr.finalSent
       /\ "End" \in tr.made[b].pins => tr.made[b].final
  /\ tr.finalSent => tr.ended
  /\ tr.ended => w >= 2

(* With the site's lists known, what waits and what left is scrubbed.      *)
AllScrubbed(tr, s) ==
  s => /\ \A i \in DOMAIN tr.queue : tr.queue[i].scrubbed
       /\ \A b \in DOMAIN tr.made : tr.made[b].scrubbed

(* Every record is in one place of those that still stand for it.          *)
Placed(tr, w) ==
  /\ \A i \in DOMAIN tr.queue : Names(tr.queue[i]) \subseteq 1..w - 2
  /\ \A b \in Live(tr) : Tells(tr.made[b]) \subseteq 1..w - 2
  /\ \A i, j \in DOMAIN tr.queue : i # j => Names(tr.queue[i]) \cap Names(tr.queue[j]) = {}
  /\ \A b, c \in Live(tr) : b # c => Tells(tr.made[b]) \cap Tells(tr.made[c]) = {}
  /\ \A b \in Live(tr) : tr.made[b].recs \cap tr.made[b].lost = {}
  /\ \A i \in DOMAIN tr.queue, b \in Live(tr) : Names(tr.queue[i]) \cap Tells(tr.made[b]) = {}
  /\ tr.state # "off" => \A n \in 1..w - 2 :
        \/ \E i \in DOMAIN tr.queue : n \in Names(tr.queue[i])
        \/ \E b \in Live(tr) : n \in Tells(tr.made[b])

(* What was given up was built, and is not in flight.                      *)
GivenUp(tr) == tr.refused \subseteq DOMAIN tr.made /\ tr.inFlight \notin tr.refused

(* The records dropped, and how many the transport says they are.          *)
Dropped(tr, w) ==
  {n \in 1..w - 2 : \/ \E i \in DOMAIN tr.queue : n \in tr.queue[i].lost
                    \/ \E b \in Live(tr) : n \in tr.made[b].lost}
Counted(tr, w) == tr.state # "off" => tr.droppedRecords = Cardinality(Dropped(tr, w))

(* A transport of w frames written, with (s) or without the site's lists.  *)
Sound(tr, w, s) ==
  /\ RingOrdered(tr.queue, w, tr.ended) /\ BatchesOrdered(tr, w)
  /\ HeaderInv(tr, w) /\ FinalInv(tr, w) /\ AllScrubbed(tr, s)
  /\ Placed(tr, w) /\ GivenUp(tr) /\ Counted(tr, w)

(* A frame that can be sent has the timer armed for it.                    *)
Armed(tr) == CanSend(tr) /\ HasFrames(tr.queue) => tr.flushTimer

RecordsInv ==
  /\ Sound(t, written, siteLists)
  /\ written <= MaxSeq + 2 /\ (halted => written >= 2)
  /\ draining => Loops(t)
  /\ ~draining => Armed(t)

(* The records a transport holds, and those a batch not given up carries.  *)
Holding(tr) == {n \in Nat : \E i \in DOMAIN tr.queue :
                  tr.queue[i].kind = "record" /\ tr.queue[i].seq = n}
Shipped(tr) == {n \in Nat : \E b \in Live(tr) : n \in tr.made[b].recs}

(* From a to b, no record of the first w frames comes back into the ring,  *)
(* none but those that waited is sent, and turning off sends nothing.      *)
Fated(a, b, w) ==
  /\ \A n \in 1..w - 2 : /\ n \in Holding(b) => n \in Holding(a)
                         /\ n \in Shipped(b) => n \in Shipped(a) \cup Holding(a)
  /\ b.state = "off" => b.made = a.made /\ a.refused \subseteq b.refused
-----------------------------------------------------------------------------
(* What the fields of a transport range over.                              *)
LEMMA Fields == ASSUME NEW tr \in Transport
  PROVE /\ tr.queue \in Seq(Entry) /\ DOMAIN tr.queue = 1..Len(tr.queue) /\ Len(tr.queue) \in Nat
        /\ tr.made \in Seq(Batch) /\ DOMAIN tr.made = 1..Len(tr.made) /\ Len(tr.made) \in Nat
        /\ tr.ended \in BOOLEAN /\ tr.finalSent \in BOOLEAN /\ tr.inFlight \in Nat
        /\ tr.droppedRecords \in Int /\ tr.refused \in SUBSET Nat
  BY DEF Transport

(* Of an entry of the ring, and of a batch.                                *)
EntryLike(e) ==
  /\ e.kind \in Pinned \cup {"record", "drop"} /\ e.seq \in Nat /\ e.lost \in SUBSET Nat
  /\ e.kind # "drop" => e.lost = {}
  /\ e.kind = "drop" => e.scrubbed
  /\ e.scrubbed \in BOOLEAN
(* What the fields of an entry range over, whichever kind it is.           *)
LEMMA EntryIs == ASSUME NEW e \in Entry PROVE EntryLike(e)
<1>1. CASE e \in [kind : Pinned \cup {"record"}, seq : Nat, size : Sizes,
                  scrubbed : BOOLEAN, lost : {{}}]
  BY <1>1 DEF EntryLike, Pinned
<1>2. CASE e \in [kind : {"drop"}, seq : {0}, size : {0}, scrubbed : {TRUE},
                  lost : SUBSET Nat]
  <2>1. e.kind = "drop" /\ e.seq = 0 /\ e.scrubbed /\ e.scrubbed \in BOOLEAN /\ e.lost \in SUBSET Nat
    BY <1>2
  <2>. QED BY <2>1 DEF EntryLike
<1>. QED BY <1>1, <1>2 DEF Entry
(* So of those of the ring.                                                *)
LEMMA EntriesAre == ASSUME NEW tr \in Transport, NEW i \in DOMAIN tr.queue
  PROVE EntryLike(tr.queue[i]) /\ Names(tr.queue[i]) \in SUBSET Nat
<1>1. tr.queue[i] \in Entry
  BY DEF Transport
<1>2. EntryLike(tr.queue[i])
  BY <1>1, EntryIs
<1>. QED BY <1>2 DEF EntryLike, Names
(* And of the batches built.                                               *)
LEMMA BatchesAre == ASSUME NEW tr \in Transport, NEW b \in DOMAIN tr.made
  PROVE /\ tr.made[b] \in Batch /\ tr.made[b].recs \in SUBSET Nat /\ tr.made[b].lost \in SUBSET Nat
        /\ tr.made[b].hasHeader \in BOOLEAN /\ tr.made[b].final \in BOOLEAN
        /\ tr.made[b].scrubbed \in BOOLEAN
<1>1. tr.made[b] \in Batch
  BY DEF Transport
<1>. QED BY <1>1 DEF Batch

(* b differs from a in none of the fields that say where records are.      *)
Steady(a, b) ==
  /\ b.queue = a.queue /\ b.made = a.made /\ b.refused = a.refused
  /\ b.droppedRecords = a.droppedRecords
  /\ b.ended = a.ended /\ b.finalSent = a.finalSent
  /\ b.inFlight \notin a.refused
  /\ a.state = "off" => b.state = "off"
(* Such a step keeps the records accounted for.                            *)
LEMMA SteadySound == ASSUME NEW a, NEW b, NEW w, NEW s, Sound(a, w, s), Steady(a, b)
  PROVE Sound(b, w, s) /\ Fated(a, b, w)
<1>1. RingOrdered(b.queue, w, b.ended) /\ BatchesOrdered(b, w)
  BY DEF Sound, Steady, BatchesOrdered
<1>2. HeaderInv(b, w) /\ FinalInv(b, w) /\ AllScrubbed(b, s)
  BY DEF Sound, Steady, HeaderInv, FinalInv, AllScrubbed
<1>3. Live(b) = Live(a)
  BY DEF Steady, Live
<1>4. Placed(b, w) /\ GivenUp(b)
  BY <1>3 DEF Sound, Steady, Placed, GivenUp
<1>5. Dropped(b, w) = Dropped(a, w)
  BY <1>3 DEF Steady, Dropped
<1>6. Counted(b, w)
  BY <1>5 DEF Sound, Steady, Counted
<1>7. Holding(b) = Holding(a) /\ Shipped(b) = Shipped(a)
  BY <1>3 DEF Steady, Holding, Shipped
<1>8. Fated(a, b, w)
  BY <1>7 DEF Fated, Steady
<1>. QED BY <1>1, <1>2, <1>4, <1>6, <1>8 DEF Sound

(* A step after which a is sound, and no fate went back; not one that      *)
(* turns off.                                                              *)
Moved(a, b, w, s) == Sound(b, w, s) /\ Fated(a, b, w) /\ (b.state = "off" => a.state = "off")
(* Two steps after one another.                                            *)
LEMMA MovedThen == ASSUME NEW a, NEW b, NEW c, NEW w, NEW s, Moved(a, b, w, s), Moved(b, c, w, s)
  PROVE Moved(a, c, w, s)
  BY DEF Moved, Fated
(* The same of fates alone, where the first step builds nothing.           *)
LEMMA FatedThen == ASSUME NEW a, NEW b, NEW c, NEW w, Fated(a, b, w), Fated(b, c, w),
    b.made = a.made, a.refused \subseteq b.refused
  PROVE Fated(a, c, w)
  BY DEF Fated
(* A steady step is one of these.                                          *)
LEMMA SteadyMoved == ASSUME NEW a, NEW b, NEW w, NEW s, Sound(a, w, s), Steady(a, b),
    b.state = "off" => a.state = "off"
  PROVE Moved(a, b, w, s)
  BY SteadySound DEF Moved

-----------------------------------------------------------------------------
(* What changes where records are, in six ways: some of those that wait    *)
(* are dropped, or all are scrubbed again; one is appended; a batch is     *)
(* cut; a batch is given up, and its drop waits in front.                  *)

(* b is a with entries that stand for the same records.                    *)
Recast(a, b) ==
  /\ DOMAIN b.queue = DOMAIN a.queue /\ Len(b.queue) = Len(a.queue)
  /\ \A i \in DOMAIN a.queue :
       \/ /\ b.queue[i].kind = a.queue[i].kind /\ b.queue[i].seq = a.queue[i].seq
          /\ b.queue[i].lost = a.queue[i].lost
       \/ /\ a.queue[i].kind = "record" /\ b.queue[i].kind = "drop"
          /\ b.queue[i].lost = {a.queue[i].seq}
  /\ b.made = a.made /\ b.refused = a.refused /\ b.inFlight = a.inFlight
  /\ b.ended = a.ended /\ b.finalSent = a.finalSent /\ b.state = a.state

(* Entries that stand for the same records keep them accounted for.        *)
LEMMA RecastSound == ASSUME NEW a \in Transport, NEW b \in Transport, NEW w, NEW s, NEW u,
    Sound(a, w, s), Recast(a, b), AllScrubbed(b, u), Counted(b, w)
  PROVE Moved(a, b, w, u)
<1>1. \A i \in DOMAIN a.queue : /\ Names(b.queue[i]) = Names(a.queue[i])
                                /\ b.queue[i].kind # "drop" => b.queue[i].kind = a.queue[i].kind
                                                            /\ b.queue[i].seq = a.queue[i].seq
  <2>1. ASSUME NEW i \in DOMAIN a.queue
        PROVE Names(b.queue[i]) = Names(a.queue[i])
    BY DEF Recast, Names
  <2>2. ASSUME NEW i \in DOMAIN a.queue, b.queue[i].kind # "drop"
        PROVE b.queue[i].kind = a.queue[i].kind /\ b.queue[i].seq = a.queue[i].seq
    BY <2>2 DEF Recast
  <2>. QED BY <2>1, <2>2
<1>2. /\ DOMAIN b.queue = DOMAIN a.queue /\ Len(b.queue) = Len(a.queue)
      /\ b.made = a.made /\ b.refused = a.refused /\ b.inFlight = a.inFlight
      /\ b.ended = a.ended /\ b.finalSent = a.finalSent /\ b.state = a.state
  BY DEF Recast
<1>3. RingOrdered(b.queue, w, b.ended)
  <2>1. RingOrdered(a.queue, w, a.ended)
    BY DEF Sound
  <2>2. ASSUME NEW i \in DOMAIN b.queue, NEW j \in DOMAIN b.queue, i < j, b.queue[i].kind = "record",
               b.queue[j].kind = "record", \A k \in i..j : IsFrame(b.queue[k]), NEW k \in i..j
        PROVE b.queue[k].kind = "record" /\ b.queue[k].seq = b.queue[i].seq + (k - i)
    <3>1. \A l \in i..j : l \in DOMAIN a.queue
      BY <1>2, Fields
    <3>2. \A l \in i..j : a.queue[l].kind = b.queue[l].kind /\ a.queue[l].seq = b.queue[l].seq
      BY <1>1, <2>2, <3>1 DEF IsFrame
    <3>3. \A l \in i..j : IsFrame(a.queue[l])
      BY <2>2, <3>2 DEF IsFrame
    <3>4. i \in DOMAIN a.queue /\ j \in DOMAIN a.queue /\ a.queue[i].kind = "record" /\ a.queue[j].kind = "record"
      BY <1>1, <1>2, <2>2
    <3>5. a.queue[k].kind = "record" /\ a.queue[k].seq = a.queue[i].seq + (k - i)
      BY <2>1, <2>2, <3>3, <3>4 DEF RingOrdered
    <3>. QED BY <1>1, <2>2, <3>2, <3>4, <3>5
  <2>. QED BY <1>1, <1>2, <2>1, <2>2, SMTT(60) DEF RingOrdered
<1>4. BatchesOrdered(b, w)
  BY <1>1, <1>2 DEF Sound, BatchesOrdered
<1>5. HeaderInv(b, w)
  <2>1. 1 \in DOMAIN a.queue /\ a.queue[1].kind = "Header" => b.queue[1].kind = "Header"
    BY DEF Recast
  <2>2. a.queue = <<>> => b.queue = <<>>
    BY <1>2, Fields
  <2>. QED BY <1>1, <1>2, <2>1, <2>2 DEF Sound, HeaderInv
<1>6. FinalInv(b, w)
  <2>1. HasFrames(b.queue) => HasFrames(a.queue)
    BY <1>1, <1>2 DEF HasFrames, IsFrame
  <2>. QED BY <1>2, <2>1 DEF Sound, FinalInv
<1>7. Live(b) = Live(a)
  BY <1>2 DEF Live
<1>8. Placed(b, w) /\ GivenUp(b)
  BY <1>1, <1>2, <1>7 DEF Sound, Placed, GivenUp
<1>9. Fated(a, b, w)
  <2>1. Shipped(b) = Shipped(a)
    BY <1>2, <1>7 DEF Shipped
  <2>2. Holding(b) \subseteq Holding(a)
    BY <1>1, <1>2 DEF Holding
  <2>. QED BY <1>2, <2>1, <2>2 DEF Fated
<1>. QED BY <1>2, <1>3, <1>4, <1>5, <1>6, <1>8, <1>9 DEF Sound, Moved

(* The fields of a drop marker.                                            *)
LEMMA DropIs == ASSUME NEW S
  PROVE Drop(S).kind = "drop" /\ Drop(S).lost = S /\ Drop(S).scrubbed
  BY DEF Drop

(* evictToCap drops some, and counts each.                                 *)
LEMMA EvictSound == ASSUME NEW a \in Transport, NEW w \in Nat, NEW s, NEW cap, Sound(a, w, s)
  PROVE Moved(a, EvictToCap(a, cap), w, s)
<1> DEFINE b == EvictToCap(a, cap)
           q == a.queue
           out == Evicted(q, cap)
           gone == {q[i].seq : i \in out}
<1>1. b \in Transport
  BY EvictType
<1>2. /\ b.queue = [i \in DOMAIN q |-> IF i \in out THEN Drop({q[i].seq}) ELSE q[i]]
      /\ b.droppedRecords = a.droppedRecords + Cardinality(out)
      /\ b.made = a.made /\ b.refused = a.refused /\ b.inFlight = a.inFlight
      /\ b.ended = a.ended /\ b.finalSent = a.finalSent /\ b.state = a.state
  BY DEF EvictToCap, Transport
<1>3. out \subseteq DOMAIN q /\ \A i \in out : q[i].kind = "record"
  BY DEF Evicted, RecordsAt
<1> HIDE DEF b, out
<1>4. /\ DOMAIN b.queue = DOMAIN q /\ Len(b.queue) = Len(q)
      /\ \A i \in out : b.queue[i] = Drop({q[i].seq})
      /\ \A i \in DOMAIN q : i \notin out => b.queue[i] = q[i]
  BY <1>1, <1>2, <1>3, Fields
<1>5. Recast(a, b)
  <2>1. ASSUME NEW i \in out PROVE b.queue[i].kind = "drop" /\ b.queue[i].lost = {q[i].seq}
    <3>1. b.queue[i] = Drop({q[i].seq})
      BY <1>4
    <3>. QED BY <3>1, DropIs
  <2>. QED BY <1>2, <1>3, <1>4, <2>1 DEF Recast
<1>6. AllScrubbed(b, s)
  <2>1. ASSUME NEW i \in DOMAIN q, s PROVE b.queue[i].scrubbed
    <3>1. CASE i \in out
      BY <1>4, <3>1, DropIs, ZenonT(60)
    <3>2. CASE i \notin out
      BY <1>4, <2>1, <3>2 DEF Sound, AllScrubbed
    <3>. QED BY <3>1, <3>2
  <2>. QED BY <1>2, <1>4, <2>1 DEF Sound, AllScrubbed
<1>7. Counted(b, w)
  <2>1. IsFiniteSet(out)
    <3>1. out \in SUBSET (1..Len(q)) /\ Len(q) \in Int
      BY <1>3, Fields
    <3>2. IsFiniteSet(1..Len(q))
      BY <3>1, FS_Interval
    <3>. QED BY <3>1, <3>2, FS_Subset
  <2>2. [i \in out |-> q[i].seq] \in Bijection(out, gone)
    <3>1. \A i, j \in out : i # j => q[i].seq # q[j].seq
      BY <1>3, Fields, ZenonT(60) DEF Sound, Placed, Names
    <3> DEFINE f == [i \in out |-> q[i].seq]
    <3>2. f \in Injection(out, gone)
      BY <3>1 DEF Injection, IsInjective
    <3>3. f \in Surjection(out, gone)
      BY DEF Surjection
    <3>. QED BY <3>2, <3>3 DEF Bijection
  <2>3. IsFiniteSet(gone) /\ Cardinality(gone) = Cardinality(out)
    BY <2>1, <2>2, FS_Bijection DEF ExistsBijection
  <2>4. gone \subseteq 1..w - 2
    BY <1>3 DEF Sound, RingOrdered
  <2>5. Live(b) = Live(a) /\ b.made = a.made
    BY <1>2 DEF Live
  <2>6. Dropped(b, w) = Dropped(a, w) \cup gone
    <3>1. ASSUME NEW i \in DOMAIN q
          PROVE IF i \in out THEN b.queue[i].lost = {q[i].seq} /\ q[i].lost = {} ELSE b.queue[i].lost = q[i].lost
      <4>1. CASE i \in out
        <5>1. b.queue[i].lost = {q[i].seq}
          BY <1>4, <4>1, DropIs
        <5>2. q[i].lost = {}
          BY <1>3, <4>1, EntriesAre DEF EntryLike
        <5>. QED BY <4>1, <5>1, <5>2
      <4>2. CASE i \notin out
        BY <1>4, <4>2
      <4>. QED BY <4>1, <4>2
    <3>2. ASSUME NEW n \in Dropped(b, w) PROVE n \in Dropped(a, w) \cup gone
      BY <1>4, <2>5, <3>1 DEF Dropped
    <3>3. ASSUME NEW n \in Dropped(a, w) PROVE n \in Dropped(b, w)
      BY <1>4, <2>5, <3>1 DEF Dropped
    <3>4. ASSUME NEW i \in out PROVE q[i].seq \in Dropped(b, w)
      BY <1>3, <1>4, <2>4, <3>1 DEF Dropped
    <3>. QED BY <3>2, <3>3, <3>4
  <2>7. Dropped(a, w) \cap gone = {}
    <3>1. ASSUME NEW i \in out, q[i].seq \in Dropped(a, w) PROVE FALSE
      <4>1. q[i].seq \in Names(q[i]) /\ q[i].lost = {}
        BY <1>3, EntriesAre DEF Names, EntryLike
      <4>2. CASE \E j \in DOMAIN q : q[i].seq \in q[j].lost
        <5>1. PICK j \in DOMAIN q : q[i].seq \in q[j].lost
          BY <4>2
        <5>2. j # i /\ q[i].seq \in Names(q[j])
          BY <4>1, <5>1, EntriesAre DEF Names, EntryLike
        <5>. QED BY <1>3, <4>1, <5>2 DEF Sound, Placed
      <4>3. CASE \E c \in Live(a) : q[i].seq \in a.made[c].lost
        BY <1>3, <4>1, <4>3 DEF Sound, Placed, Tells
      <4>. QED BY <3>1, <4>2, <4>3 DEF Dropped
    <3>. QED BY <3>1
  <2>8. IsFiniteSet(Dropped(a, w))
    BY FS_Interval, FS_Subset, 1 \in Int, w - 2 \in Int DEF Dropped
  <2>9. Cardinality(Dropped(a, w) \cup gone) = Cardinality(Dropped(a, w)) + Cardinality(gone)
    <3>1. Cardinality(Dropped(a, w) \cup gone) = Cardinality(Dropped(a, w)) + Cardinality(gone) - Cardinality({})
      BY <2>3, <2>7, <2>8, FS_Union
    <3>. QED BY <2>3, <2>8, <3>1, FS_EmptySet, FS_CardinalityType
  <2>. QED BY <1>2, <2>3, <2>6, <2>9 DEF Sound, Counted
<1>8. Moved(a, b, w, s)
  BY <1>1, <1>5, <1>6, <1>7, RecastSound
<1>. QED BY <1>8 DEF b

(* rewriteHeld scrubs what is held, whether the lists were known or not.   *)
LEMMA RewriteSound == ASSUME NEW a \in Transport, NEW w, NEW s, NEW resize \in [Sizes -> Sizes],
    Sound(a, w, s), a.made = <<>>
  PROVE Moved(a, Rewrite(a, resize), w, TRUE)
<1> DEFINE b == Rewrite(a, resize)
           q == a.queue
<1>1. b = [a EXCEPT !.queue = [i \in DOMAIN q |-> Rescrubbed(q[i], resize)]]
  BY DEF Rewrite
<1>2. /\ b.queue = [i \in DOMAIN q |-> Rescrubbed(q[i], resize)]
      /\ b.droppedRecords = a.droppedRecords
      /\ b.made = a.made /\ b.refused = a.refused /\ b.inFlight = a.inFlight
      /\ b.ended = a.ended /\ b.finalSent = a.finalSent /\ b.state = a.state
  BY <1>1 DEF Transport
<1>3. ASSUME NEW e \in Entry
      PROVE LET r == Rescrubbed(e, resize)
            IN r \in Entry /\ r.kind = e.kind /\ r.seq = e.seq /\ r.lost = e.lost /\ r.scrubbed
  <2>1. CASE e \in [kind : Pinned \cup {"record"}, seq : Nat, size : Sizes,
                    scrubbed : BOOLEAN, lost : {{}}]
    <3>1. resize[e.size] \in Sizes
      BY <2>1
    <3>2. [e EXCEPT !.scrubbed = TRUE, !.size = resize[e.size]] \in Entry
      BY <2>1, <3>1 DEF Entry
    <3>3. IsFrame(e)
      BY <2>1 DEF IsFrame, Pinned
    <3>. QED BY <2>1, <3>2, <3>3 DEF Rescrubbed
  <2>2. CASE e.kind = "drop"
    BY <2>2, EntryIs DEF Rescrubbed, IsFrame, EntryLike
  <2>. QED BY <2>1, <2>2 DEF Entry
<1>4. \A i \in DOMAIN q : q[i] \in Entry
  BY Fields
<1> HIDE DEF b
<1>5. /\ DOMAIN b.queue = DOMAIN q
      /\ \A i \in DOMAIN q : b.queue[i] \in Entry
      /\ \A i \in DOMAIN q : b.queue[i].kind = q[i].kind /\ b.queue[i].seq = q[i].seq
                          /\ b.queue[i].lost = q[i].lost /\ b.queue[i].scrubbed
  BY <1>2, <1>3, <1>4
<1>6. b.queue \in Seq(Entry) /\ Len(b.queue) = Len(q)
  <2>1. b.queue \in [1..Len(q) -> Entry]
    BY <1>2, <1>5, Fields
  <2>2. Len(q) \in Nat
    BY Fields
  <2>3. b.queue \in Seq(Entry)
    BY <2>1, <2>2, SeqDef
  <2>. QED BY <1>5, <2>2, <2>3, Fields
<1>7. b \in Transport
  BY <1>1, <1>2, <1>6 DEF Transport
<1>8. Recast(a, b)
  BY <1>2, <1>5, <1>6 DEF Recast
<1>9. AllScrubbed(b, TRUE)
  <2>1. DOMAIN b.made = {}
    BY <1>2
  <2>. QED BY <1>5, <2>1 DEF AllScrubbed
<1>10. Counted(b, w)
  <2>1. Dropped(b, w) = Dropped(a, w)
    BY <1>2, <1>5 DEF Dropped, Live
  <2>. QED BY <1>2, <2>1 DEF Sound, Counted
<1>11. Moved(a, b, w, TRUE)
  BY <1>7, <1>8, <1>9, <1>10, RecastSound
<1>. QED BY <1>11 DEF b

(* An entry that comes when w frames were written, and makes them v.       *)
Arrives(e, w, v) ==
  /\ EntryLike(e) /\ v \in {w, w + 1} /\ v > 0
  /\ Names(e) \cap (1..w - 2) = {} /\ 1..v - 2 = (1..w - 2) \cup Names(e)
  /\ e.kind = "record" => e.seq = w - 1 /\ v = w + 1
  /\ e.kind \in {"Header", "Env"} => w < 2
  /\ e.kind = "Header" <=> w = 0

(* b is a with e at the end of its ring.                                   *)
Extends(a, b, e) ==
  /\ b.queue = Append(a.queue, e)
  /\ b.droppedRecords = a.droppedRecords + Cardinality(e.lost)
  /\ b.made = a.made /\ b.refused = a.refused /\ b.inFlight = a.inFlight
  /\ b.ended = a.ended /\ b.finalSent = a.finalSent /\ b.state = a.state

(* A frame or a drop that comes joins those accounted for.                 *)
LEMMA ExtendsSound == ASSUME NEW a \in Transport, NEW b, NEW w \in Nat, NEW v \in Nat, NEW s,
    NEW e, Sound(a, w, s), Extends(a, b, e), Arrives(e, w, v), a.state # "off",
    ~a.finalSent, \A i \in DOMAIN a.queue : a.queue[i].kind # "End",
    e.kind = "End" => a.ended, s => e.scrubbed, a.ended => v >= 2
  PROVE Sound(b, v, s) /\ Fated(a, b, w)
<1> DEFINE q == a.queue
           r == b.queue
           n == Len(q)
<1>0. /\ b.made = a.made /\ b.refused = a.refused /\ b.inFlight = a.inFlight
      /\ b.ended = a.ended /\ b.finalSent = a.finalSent /\ b.state = a.state
      /\ Live(b) = Live(a)
  BY DEF Extends, Live
<1>1. /\ n \in Nat /\ DOMAIN q = 1..n /\ DOMAIN r = 1..n + 1 /\ Len(r) = n + 1
      /\ r[n + 1] = e /\ \A i \in 1..n : r[i] = q[i]
  BY Fields DEF Extends
<1>2. /\ RingOrdered(q, w, a.ended) /\ BatchesOrdered(a, w) /\ HeaderInv(a, w)
      /\ FinalInv(a, w) /\ AllScrubbed(a, s) /\ Placed(a, w) /\ GivenUp(a) /\ Counted(a, w)
  BY DEF Sound
<1>3. ~HasFrames(q) \/ w > 0
  BY <1>1, <1>2 DEF HeaderInv, HasFrames
<1>4. 1..w - 2 \subseteq 1..v - 2
  BY DEF Arrives
<1> HIDE DEF q, r, n
<1>5. RingOrdered(r, v, b.ended)
  <2>1. ASSUME NEW i \in DOMAIN r, r[i].kind = "record"
        PROVE r[i].seq \in 1..v - 2 /\ (i = Len(r) => r[i].seq = v - 2)
    <3>1. CASE i = n + 1
      BY <1>1, <2>1, <3>1 DEF Arrives, Names
    <3>2. CASE i # n + 1
      <4>1. i \in DOMAIN q /\ q[i] = r[i] /\ i # Len(r)
        BY <1>1, <3>2
      <4>2. q[i].seq \in 1..w - 2
        BY <1>2, <2>1, <4>1 DEF RingOrdered
      <4>. QED BY <1>4, <4>1, <4>2
    <3>. QED BY <3>1, <3>2
  <2>2. ASSUME NEW i \in DOMAIN r, NEW j \in DOMAIN r, i < j, r[i].kind = "record"
        PROVE /\ r[j].kind \notin {"Header", "Env"}
              /\ r[j].kind = "record" => r[i].seq < r[j].seq
    <3>1. i \in DOMAIN q /\ q[i].kind = "record" /\ r[i] = q[i]
      BY <1>1, <2>2
    <3>2. CASE j = n + 1
      <4>1. q[i].seq \in 1..w - 2
        BY <1>2, <3>1 DEF RingOrdered
      <4>2. w >= 2
        BY <4>1
      <4>3. r[j] = e
        BY <1>1, <3>2
      <4>. QED BY <3>1, <4>1, <4>2, <4>3 DEF Arrives
    <3>3. CASE j # n + 1
      BY <1>1, <1>2, <2>2, <3>1, <3>3 DEF RingOrdered
    <3>. QED BY <3>2, <3>3
  <2>3. ASSUME NEW i \in DOMAIN r, NEW j \in DOMAIN r, i < j, r[i].kind = "record",
               r[j].kind = "record", \A k \in i..j : IsFrame(r[k]), NEW k \in i..j
        PROVE r[k].kind = "record" /\ r[k].seq = r[i].seq + (k - i)
    <3>1. i \in DOMAIN q /\ i \in 1..n /\ q[i].kind = "record" /\ r[i] = q[i] /\ i \in Nat /\ j \in Nat
      BY <1>1, <2>3
    <3>2. CASE j # n + 1
      <4>1. j \in DOMAIN q /\ \A l \in i..j : l \in 1..n
        BY <1>1, <3>1, <3>2
      <4>2. \A l \in i..j : IsFrame(q[l]) /\ r[l] = q[l]
        BY <1>1, <2>3, <4>1
      <4>3. q[j].kind = "record" /\ k \in 1..n
        BY <1>1, <2>3, <4>1
      <4>4. q[k].kind = "record" /\ q[k].seq = q[i].seq + (k - i)
        BY <1>2, <2>3, <3>1, <4>1, <4>2, <4>3 DEF RingOrdered
      <4>. QED BY <1>1, <3>1, <4>3, <4>4
    <3>3. CASE j = n + 1
      <4>1. e.kind = "record" /\ e.seq = w - 1 /\ r[n + 1] = e
        BY <1>1, <2>3, <3>3 DEF Arrives
      <4>2. i \in 1..n /\ n \in DOMAIN q /\ n \in i..j /\ r[n] = q[n]
        BY <1>1, <3>1, <3>3
      <4>3. q[n].kind = "record"
        <5>1. IsFrame(q[n]) /\ q[n].kind # "End" /\ q[n].kind \in Pinned \cup {"record", "drop"}
          BY <2>3, <4>2, EntriesAre DEF q, EntryLike
        <5>2. i < n => q[n].kind \notin {"Header", "Env"}
          BY <1>2, <3>1, <4>2 DEF RingOrdered
        <5>. QED BY <3>1, <4>2, <5>1, <5>2 DEF IsFrame, Pinned
      <4>4. q[n].seq = w - 2
        BY <1>2, <4>2, <4>3 DEF RingOrdered, n
      <4>5. \A l \in i..n : q[l].kind = "record" /\ q[l].seq = q[i].seq + (l - i)
        <5>1. CASE i = n
          <6>1. q[i].seq \in Nat
            BY <1>2, <3>1 DEF RingOrdered
          <6>2. \A l \in i..n : l = i /\ l - i = 0
            BY <3>1, <5>1
          <6>. QED BY <3>1, <6>1, <6>2
        <5>2. CASE i < n
          <6>1. \A l \in i..n : l \in i..j /\ r[l] = q[l]
            BY <1>1, <3>1, <3>3
          <6>2. \A l \in i..n : IsFrame(q[l])
            BY <2>3, <6>1
          <6>. QED BY <1>2, <3>1, <4>2, <4>3, <5>2, <6>2 DEF RingOrdered
        <5>. QED BY <3>1, <5>1, <5>2, <4>2
      <4>6. CASE k = n + 1
        <5>1. q[n].seq = q[i].seq + (n - i)
          BY <4>2, <4>5, <3>1, <1>1
        <5>2. q[i].seq \in Nat
          BY <1>2, <3>1 DEF RingOrdered
        <5>3. w - 1 = q[i].seq + ((n + 1) - i)
          <6>1. n \in Int /\ i \in Int
            BY <1>1, <3>1
          <6>2. w - 2 = q[i].seq + (n - i)
            BY <4>4, <5>1
          <6>. QED BY <5>2, <6>1, <6>2
        <5>. QED BY <3>1, <4>1, <4>6, <5>3
      <4>7. CASE k # n + 1
        <5>1. k \in i..n /\ r[k] = q[k]
          BY <1>1, <2>3, <3>1, <3>3, <4>7
        <5>. QED BY <3>1, <4>5, <5>1
      <4>. QED BY <4>6, <4>7
    <3>. QED BY <3>2, <3>3
  <2>4. ASSUME NEW i \in DOMAIN r, r[i].kind = "End" PROVE i = Len(r) /\ b.ended
    <3>1. i = n + 1
      BY <1>1, <2>4 DEF q
    <3>. QED BY <1>0, <1>1, <2>4, <3>1
  <2>. QED BY <2>1, <2>2, <2>3, <2>4 DEF RingOrdered
<1>6. BatchesOrdered(b, v)
  <2>1. ASSUME NEW c \in DOMAIN b.made, NEW i \in DOMAIN r, r[i].kind = "record", NEW m \in b.made[c].recs
        PROVE m < r[i].seq
    <3>1. m \in 1..w - 2
      BY <1>0, <1>2 DEF BatchesOrdered
    <3>2. CASE i = n + 1
      BY <1>1, <2>1, <3>1, <3>2 DEF Arrives
    <3>3. CASE i # n + 1
      BY <1>0, <1>1, <1>2, <2>1, <3>3 DEF BatchesOrdered, q
    <3>. QED BY <3>2, <3>3
  <2>2. \A c \in DOMAIN b.made : b.made[c].recs \subseteq 1..v - 2
    BY <1>0, <1>2, <1>4 DEF BatchesOrdered
  <2>. QED BY <1>0, <1>2, <2>1, <2>2 DEF BatchesOrdered, r
<1>7. HeaderInv(b, v)
  <2>1. ASSUME NEW i \in DOMAIN r, r[i].kind = "Header" PROVE i = 1 /\ b.made = <<>>
    <3>1. CASE i = n + 1
      <4>1. w = 0
        BY <1>1, <2>1, <3>1 DEF Arrives
      <4>2. q = <<>> /\ a.made = <<>>
        BY <1>2, <4>1 DEF HeaderInv, q
      <4>. QED BY <1>0, <1>1, <3>1, <4>2 DEF n
    <3>2. CASE i # n + 1
      BY <1>0, <1>1, <1>2, <2>1, <3>2 DEF HeaderInv, q
    <3>. QED BY <3>1, <3>2
  <2>2. ASSUME b.made = <<>> PROVE 1 \in DOMAIN r /\ r[1].kind = "Header"
    <3>1. CASE w = 0
      <4>1. q = <<>> /\ n = 0
        BY <1>2, <3>1 DEF HeaderInv, q, n
      <4>. QED BY <1>1, <3>1, <4>1 DEF Arrives
    <3>2. CASE w # 0
      BY <1>0, <1>1, <1>2, <2>2, <3>2 DEF HeaderInv, q
    <3>. QED BY <3>1, <3>2
  <2>3. v # 0
    BY DEF Arrives
  <2>. QED BY <1>0, <1>2, <2>1, <2>2, <2>3 DEF HeaderInv, r
<1>8. FinalInv(b, v)
  BY <1>0, <1>2 DEF FinalInv
<1>9. AllScrubbed(b, s)
  <2>1. ASSUME s, NEW i \in DOMAIN r PROVE r[i].scrubbed
    <3>1. CASE i = n + 1
      <4>1. r[i] = e
        BY <1>1, <3>1
      <4>. QED BY <2>1, <4>1, Zenon
    <3>2. CASE i # n + 1
      <4>1. r[i] = q[i] /\ i \in DOMAIN q
        BY <1>1, <3>2
      <4>2. q[i].scrubbed
        BY <1>2, <2>1, <4>1 DEF AllScrubbed, q
      <4>. QED BY <4>1, <4>2, Zenon
    <3>. QED BY <3>1, <3>2
  <2>. QED BY <1>0, <1>2, <2>1 DEF AllScrubbed, r
<1>10. Placed(b, v) /\ GivenUp(b)
  <2>1. \A i \in DOMAIN q : Names(q[i]) \subseteq 1..w - 2
    BY <1>2 DEF Placed, q
  <2>2. \A c \in Live(a) : Tells(a.made[c]) \subseteq 1..w - 2
    BY <1>2 DEF Placed
  <2>3. ASSUME NEW i \in DOMAIN r PROVE Names(r[i]) \subseteq 1..v - 2
    BY <1>1, <1>4, <2>1 DEF Arrives
  <2>4. ASSUME NEW i \in DOMAIN r, NEW j \in DOMAIN r, i # j PROVE Names(r[i]) \cap Names(r[j]) = {}
    <3>1. CASE i \in 1..n /\ j \in 1..n
      BY <1>1, <1>2, <2>4, <3>1 DEF Placed, q
    <3>2. CASE i \in 1..n /\ j = n + 1
      BY <1>1, <2>1, <3>2 DEF Arrives
    <3>3. CASE j \in 1..n /\ i = n + 1
      BY <1>1, <2>1, <3>3 DEF Arrives
    <3>. QED BY <1>1, <2>4, <3>1, <3>2, <3>3
  <2>5. ASSUME NEW i \in DOMAIN r, NEW c \in Live(a) PROVE Names(r[i]) \cap Tells(a.made[c]) = {}
    <3>1. CASE i \in 1..n
      BY <1>1, <1>2, <3>1 DEF Placed, q
    <3>2. CASE i = n + 1
      BY <1>1, <2>2, <3>2 DEF Arrives
    <3>. QED BY <1>1, <3>1, <3>2
  <2>6. ASSUME NEW m \in 1..v - 2
        PROVE (\E i \in DOMAIN r : m \in Names(r[i])) \/ \E c \in Live(a) : m \in Tells(a.made[c])
    <3>1. CASE m \in 1..w - 2
      <4>1. CASE \E i \in DOMAIN q : m \in Names(q[i])
        <5>1. PICK i \in DOMAIN q : m \in Names(q[i])
          BY <4>1
        <5>2. i \in DOMAIN r /\ r[i] = q[i]
          BY <1>1
        <5>. QED BY <5>1, <5>2
      <4>. QED BY <1>2, <3>1, <4>1 DEF Placed, q
    <3>2. CASE m \in Names(e)
      <4>1. n + 1 \in DOMAIN r /\ r[n + 1] = e
        BY <1>1
      <4>. QED BY <3>2, <4>1
    <3>. QED BY <3>1, <3>2 DEF Arrives
  <2>7. \A c \in Live(a) : Tells(a.made[c]) \subseteq 1..v - 2
    BY <1>4, <2>2
  <2>. QED BY <1>0, <1>2, <2>3, <2>4, <2>5, <2>6, <2>7 DEF Placed, GivenUp, r
<1>11. Counted(b, v)
  <2>1. Dropped(b, v) = Dropped(a, w) \cup e.lost
    <3>1. e.lost \subseteq 1..v - 2
      BY DEF Arrives, EntryLike, Names
    <3>2. ASSUME NEW m \in Dropped(b, v) PROVE m \in Dropped(a, w) \cup e.lost
      <4>1. CASE \E i \in DOMAIN r : m \in r[i].lost
        <5>1. PICK i \in DOMAIN r : m \in r[i].lost
          BY <4>1
        <5>2. CASE i = n + 1
          BY <1>1, <5>1, <5>2
        <5>3. CASE i # n + 1
          <6>1. i \in DOMAIN q /\ r[i] = q[i]
            BY <1>1, <5>3
          <6>2. m \in Names(q[i])
            BY <5>1, <6>1, EntriesAre DEF Names, EntryLike, q
          <6>3. m \in 1..w - 2
            BY <1>2, <6>1, <6>2 DEF Placed, q
          <6>. QED BY <5>1, <6>1, <6>3 DEF Dropped, q
        <5>. QED BY <5>2, <5>3
      <4>2. CASE \E c \in Live(a) : m \in a.made[c].lost
        <5>1. m \in 1..w - 2
          BY <1>2, <4>2 DEF Placed, Tells
        <5>. QED BY <4>2, <5>1 DEF Dropped
      <4>. QED BY <1>0, <4>1, <4>2 DEF Dropped, r
    <3>3. ASSUME NEW m \in Dropped(a, w) PROVE m \in Dropped(b, v)
      <4>1. CASE \E i \in DOMAIN q : m \in q[i].lost
        <5>1. PICK i \in DOMAIN q : m \in q[i].lost
          BY <4>1
        <5>2. i \in DOMAIN r /\ r[i] = q[i]
          BY <1>1
        <5>. QED BY <1>4, <5>1, <5>2 DEF Dropped, r
      <4>2. CASE \E c \in Live(a) : m \in a.made[c].lost
        BY <1>0, <1>4, <4>2 DEF Dropped
      <4>. QED BY <4>1, <4>2 DEF Dropped, q
    <3>4. ASSUME NEW m \in e.lost PROVE m \in Dropped(b, v)
      <4>1. n + 1 \in DOMAIN r /\ m \in r[n + 1].lost
        BY <1>1
      <4>. QED BY <3>1, <4>1 DEF Dropped, r
    <3>. QED BY <3>2, <3>3, <3>4
  <2>2. Dropped(a, w) \cap e.lost = {}
    BY DEF Dropped, Arrives, EntryLike, Names
  <2>3. IsFiniteSet(Dropped(a, w)) /\ IsFiniteSet(e.lost)
    <3>1. Dropped(a, w) \in SUBSET (1..v - 2) /\ e.lost \in SUBSET (1..v - 2) /\ v - 2 \in Int
      BY <1>4 DEF Dropped, Arrives, EntryLike, Names
    <3>2. IsFiniteSet(1..v - 2)
      BY <3>1, FS_Interval
    <3>. QED BY <3>1, <3>2, FS_Subset
  <2>4. Cardinality(Dropped(a, w) \cup e.lost) = Cardinality(Dropped(a, w)) + Cardinality(e.lost)
    <3>1. Cardinality(Dropped(a, w) \cup e.lost) = Cardinality(Dropped(a, w)) + Cardinality(e.lost) - Cardinality({})
      BY <2>2, <2>3, FS_Union
    <3>. QED BY <2>3, <3>1, FS_EmptySet, FS_CardinalityType
  <2>. QED BY <1>2, <2>1, <2>4 DEF Counted, Extends
<1>12. Fated(a, b, w)
  <2>1. Shipped(b) = Shipped(a)
    BY <1>0 DEF Shipped
  <2>2. ASSUME NEW m \in 1..w - 2, m \in Holding(b) PROVE m \in Holding(a)
    <3>1. PICK i \in DOMAIN r : r[i].kind = "record" /\ r[i].seq = m
      BY <2>2 DEF Holding, r
    <3>2. i # n + 1
      BY <1>1, <3>1 DEF Arrives
    <3>3. i \in DOMAIN q /\ q[i] = r[i] /\ m \in Nat
      BY <1>1, <3>2
    <3>. QED BY <3>1, <3>3 DEF Holding, q
  <2>. QED BY <1>0, <2>1, <2>2 DEF Fated
<1>. QED BY <1>5, <1>6, <1>7, <1>8, <1>9, <1>10, <1>11, <1>12 DEF Sound, q, r

(* b is a with the first k entries of its ring in a new batch x.           *)
Collects(q, k, x) ==
  /\ x \in Batch
  /\ x.recs = {q[i].seq : i \in {j \in 1..k : q[j].kind = "record"}}
  /\ x.lost = UNION {q[i].lost : i \in 1..k}
  /\ x.recs = Span(x.recs)
Cuts(a, b, k, x) ==
  /\ DOMAIN b.queue = 1..Len(a.queue) - k /\ Len(b.queue) = Len(a.queue) - k
  /\ \A i \in 1..Len(a.queue) - k : b.queue[i] = a.queue[i + k]
  /\ b.made = Append(a.made, x) /\ b.finalSent = (a.finalSent \/ x.final)
  /\ b.droppedRecords = a.droppedRecords /\ b.refused = a.refused
  /\ b.inFlight = a.inFlight /\ b.ended = a.ended /\ b.state = a.state

(* What a batch takes from the front it carries or reports.                *)
LEMMA CutsSound == ASSUME NEW a \in Transport, NEW b, NEW w \in Nat, NEW s, NEW x, NEW k \in 0..Len(a.queue),
    Sound(a, w, s), Cuts(a, b, k, x), Collects(a.queue, k, x), a.state # "off",
    w >= 1, \A c \in DOMAIN a.made : ~a.made[c].final,
    ("Header" \in x.pins) = (a.made = <<>>), x.hasHeader = (a.made = <<>>),
    a.made = <<>> => k >= 1,
    x.final => k = Len(a.queue) /\ a.ended, "End" \in x.pins => x.final, s => x.scrubbed
  PROVE Moved(a, b, w, s)
<1> DEFINE q == a.queue
           r == b.queue
           n == Len(q)
           p == Len(a.made) + 1
<1>0. /\ b.refused = a.refused /\ b.inFlight = a.inFlight /\ b.ended = a.ended /\ b.state = a.state
      /\ b.finalSent = (a.finalSent \/ x.final) /\ b.droppedRecords = a.droppedRecords
  BY DEF Cuts
<1>1. /\ n \in Nat /\ DOMAIN q = 1..n /\ k \in 0..n /\ Len(r) = n - k /\ DOMAIN r = 1..n - k
      /\ \A i \in DOMAIN r : r[i] = q[i + k]
  BY Fields DEF Cuts
<1>2. /\ p \in Nat \ {0} /\ DOMAIN a.made = 1..p - 1 /\ Len(b.made) = p /\ DOMAIN b.made = 1..p
      /\ b.made[p] = x /\ \A c \in DOMAIN a.made : b.made[c] = a.made[c]
      /\ a.made = <<>> <=> p = 1
  <2> DEFINE m == a.made
  <2>1. m \in Seq(Batch) /\ b.made = Append(m, x) /\ x \in Batch /\ p = Len(m) + 1
    BY Fields DEF Cuts, Collects
  <2> HIDE DEF m, p
  <2>2. /\ p \in Nat \ {0} /\ DOMAIN m = 1..p - 1 /\ Len(b.made) = p /\ DOMAIN b.made = 1..p
        /\ b.made[p] = x /\ (\A c \in DOMAIN m : b.made[c] = m[c]) /\ (m = <<>> <=> p = 1)
    BY <2>1
  <2>. QED BY <2>2 DEF m
<1>3. /\ RingOrdered(q, w, a.ended) /\ BatchesOrdered(a, w) /\ HeaderInv(a, w)
      /\ FinalInv(a, w) /\ AllScrubbed(a, s) /\ Placed(a, w) /\ GivenUp(a) /\ Counted(a, w)
  BY DEF Sound
<1>4. /\ Live(b) = Live(a) \cup {p} /\ p \notin Live(a)
      /\ \A c \in Live(a) : b.made[c] = a.made[c]
  BY <1>0, <1>2, <1>3 DEF GivenUp, Live
<1>5. /\ \A i \in DOMAIN r : i + k \in DOMAIN q /\ i + k > k /\ i + k \in Nat /\ i \in Nat
      /\ \A i \in 1..k : i \in DOMAIN q /\ i \in Nat
      /\ \A i \in DOMAIN q : i \in 1..k \/ (i - k \in DOMAIN r /\ r[i - k] = q[i])
  <2>1. \A i \in DOMAIN r : i + k \in DOMAIN q /\ i + k > k /\ i + k \in Nat /\ i \in Nat
    BY <1>1
  <2>2. \A i \in 1..k : i \in DOMAIN q /\ i \in Nat
    BY <1>1
  <2>3. ASSUME NEW i \in DOMAIN q, i \notin 1..k PROVE i - k \in DOMAIN r /\ r[i - k] = q[i]
    <3>1. i - k \in DOMAIN r /\ (i - k) + k = i
      BY <1>1, <2>3
    <3>. QED BY <1>1, <3>1
  <2>. QED BY <2>1, <2>2, <2>3
<1>6. /\ x.recs \in SUBSET Nat /\ x.lost \in SUBSET Nat
      /\ \A m \in x.recs : \E i \in 1..k : q[i].kind = "record" /\ q[i].seq = m
      /\ \A i \in 1..k : q[i].kind = "record" => q[i].seq \in x.recs
      /\ \A m \in x.lost : \E i \in 1..k : m \in q[i].lost
      /\ \A i \in 1..k : q[i].lost \subseteq x.lost
  BY DEF Collects, Batch
<1>7. /\ \A m \in Tells(x) : \E i \in 1..k : m \in Names(q[i])
      /\ \A i \in 1..k : Names(q[i]) \subseteq Tells(x)
  <2>1. ASSUME NEW i \in 1..k PROVE Names(q[i]) \subseteq Tells(x)
    BY <1>6 DEF Names, Tells
  <2>2. ASSUME NEW m \in x.recs PROVE \E i \in 1..k : m \in Names(q[i])
    BY <1>6 DEF Names
  <2>3. ASSUME NEW m \in x.lost PROVE \E i \in 1..k : m \in Names(q[i])
    <3>1. PICK i \in 1..k : m \in q[i].lost
      BY <1>6
    <3>2. m \in Names(q[i])
      BY <1>5, <3>1, EntriesAre DEF Names, EntryLike
    <3>. QED BY <3>2
  <2>. QED BY <2>1, <2>2, <2>3 DEF Tells
<1> HIDE DEF q, r, n, p
<1>8. RingOrdered(r, w, b.ended)
  <2>1. ASSUME NEW i \in DOMAIN r, r[i].kind = "record"
        PROVE r[i].seq \in 1..w - 2 /\ (i = Len(r) => r[i].seq = w - 2)
    <3>1. r[i] = q[i + k] /\ i + k \in DOMAIN q /\ (i = Len(r) => i + k = n)
      BY <1>1, <1>5
    <3>. QED BY <1>3, <2>1, <3>1 DEF RingOrdered, n
  <2>2. ASSUME NEW i \in DOMAIN r, NEW j \in DOMAIN r, i < j, r[i].kind = "record"
        PROVE /\ r[j].kind \notin {"Header", "Env"}
              /\ r[j].kind = "record" => r[i].seq < r[j].seq
    <3>1. r[i] = q[i + k] /\ r[j] = q[j + k] /\ i + k \in DOMAIN q /\ j + k \in DOMAIN q /\ i + k < j + k
      BY <1>1, <1>5, <2>2
    <3>. QED BY <1>3, <2>2, <3>1 DEF RingOrdered
  <2>3. ASSUME NEW i \in DOMAIN r, NEW j \in DOMAIN r, i < j, r[i].kind = "record",
               r[j].kind = "record", \A l \in i..j : IsFrame(r[l]), NEW l \in i..j
        PROVE r[l].kind = "record" /\ r[l].seq = r[i].seq + (l - i)
    <3>1. r[i] = q[i + k] /\ r[j] = q[j + k] /\ i + k \in DOMAIN q /\ j + k \in DOMAIN q /\ i + k < j + k
      BY <1>1, <1>5, <2>3
    <3>2. ASSUME NEW h \in (i + k)..(j + k) PROVE IsFrame(q[h])
      <4>1. h - k \in i..j /\ h - k \in DOMAIN r /\ (h - k) + k = h
        BY <1>1
      <4>2. r[h - k] = q[h]
        BY <1>1, <4>1
      <4>. QED BY <2>3, <4>1, <4>2
    <3>3. l \in DOMAIN r /\ l + k \in (i + k)..(j + k) /\ (l + k) - (i + k) = l - i
      BY <1>1
    <3>4. q[l + k].kind = "record" /\ q[l + k].seq = q[i + k].seq + ((l + k) - (i + k))
      BY <1>3, <2>3, <3>1, <3>2, <3>3 DEF RingOrdered
    <3>. QED BY <1>1, <3>1, <3>3, <3>4
  <2>4. ASSUME NEW i \in DOMAIN r, r[i].kind = "End" PROVE i = Len(r) /\ b.ended
    <3>1. r[i] = q[i + k] /\ i + k \in DOMAIN q
      BY <1>1, <1>5
    <3>2. i + k = n /\ a.ended
      BY <1>3, <2>4, <3>1 DEF RingOrdered, n
    <3>. QED BY <1>0, <1>1, <3>2
  <2>. QED BY <2>1, <2>2, <2>3, <2>4 DEF RingOrdered
<1>9. BatchesOrdered(b, w)
  <2>1. x.recs \subseteq 1..w - 2
    BY <1>3, <1>5, <1>6, SMTT(60) DEF RingOrdered
  <2>2. ASSUME NEW c \in DOMAIN a.made, NEW m \in a.made[c].recs, NEW l \in x.recs PROVE m < l
    <3>1. PICK i \in 1..k : q[i].kind = "record" /\ q[i].seq = l
      BY <1>6
    <3>. QED BY <1>3, <1>5, <3>1 DEF BatchesOrdered, q
  <2>3. ASSUME NEW i \in DOMAIN r, r[i].kind = "record", NEW m \in x.recs PROVE m < r[i].seq
    <3>1. PICK j \in 1..k : q[j].kind = "record" /\ q[j].seq = m
      BY <1>6
    <3>2. r[i] = q[i + k] /\ i + k \in DOMAIN q /\ j \in DOMAIN q /\ j < i + k
      BY <1>1, <1>5
    <3>. QED BY <1>3, <2>3, <3>1, <3>2 DEF RingOrdered
  <2>4. ASSUME NEW i \in DOMAIN r, r[i].kind = "record", NEW c \in DOMAIN a.made, NEW m \in a.made[c].recs
        PROVE m < r[i].seq
    <3>1. r[i] = q[i + k] /\ i + k \in DOMAIN q
      BY <1>1, <1>5
    <3>. QED BY <1>3, <2>4, <3>1 DEF BatchesOrdered, q
  <2>5. \A c \in DOMAIN b.made : c = p \/ (c \in DOMAIN a.made /\ b.made[c] = a.made[c])
    BY <1>2
  <2>6. \A c, d \in DOMAIN b.made : c < d => c \in DOMAIN a.made
    BY <1>2
  <2>7. ASSUME NEW c \in DOMAIN b.made
        PROVE b.made[c].recs \subseteq 1..w - 2 /\ b.made[c].recs = Span(b.made[c].recs)
    <3>1. CASE c = p
      BY <1>2, <2>1, <3>1 DEF Collects
    <3>2. CASE c # p
      BY <1>3, <2>5, <3>2 DEF BatchesOrdered
    <3>. QED BY <3>1, <3>2
  <2>8. ASSUME NEW c \in DOMAIN b.made, NEW d \in DOMAIN b.made, c < d,
               NEW m \in b.made[c].recs, NEW l \in b.made[d].recs
        PROVE m < l
    <3>1. c \in DOMAIN a.made /\ m \in a.made[c].recs
      BY <2>5, <2>6, <2>8, <1>2
    <3>2. CASE d = p
      BY <1>2, <2>2, <2>8, <3>1, <3>2
    <3>3. CASE d # p
      BY <1>3, <2>5, <2>8, <3>1, <3>3 DEF BatchesOrdered
    <3>. QED BY <3>2, <3>3
  <2>9. ASSUME NEW c \in DOMAIN b.made, NEW i \in DOMAIN r, r[i].kind = "record", NEW m \in b.made[c].recs
        PROVE m < r[i].seq
    BY <1>2, <2>3, <2>4, <2>5, <2>9
  <2>. QED BY <2>7, <2>8, <2>9 DEF BatchesOrdered, r
<1>10. HeaderInv(b, w)
  <2>1. ASSUME NEW c \in DOMAIN b.made
        PROVE ("Header" \in b.made[c].pins) = (c = 1) /\ b.made[c].hasHeader = (c = 1)
    <3>1. CASE c = p
      BY <1>2, <3>1
    <3>2. CASE c # p
      BY <1>2, <1>3, <3>2 DEF HeaderInv
    <3>. QED BY <3>1, <3>2
  <2>2. ASSUME NEW i \in DOMAIN r, r[i].kind = "Header" PROVE FALSE
    <3>1. r[i] = q[i + k] /\ i + k \in DOMAIN q
      BY <1>1, <1>5
    <3>2. i + k = 1 /\ a.made = <<>>
      BY <1>3, <2>2, <3>1 DEF HeaderInv, q
    <3>. QED BY <1>1, <3>2
  <2>3. b.made # <<>>
    BY <1>2
  <2>. QED BY <2>1, <2>2, <2>3 DEF HeaderInv, r
<1>11. FinalInv(b, w)
  <2>1. ASSUME NEW c \in DOMAIN b.made, b.made[c].final
        PROVE c = Len(b.made) /\ ~HasFrames(r) /\ b.finalSent
    <3>1. c = p /\ x.final
      BY <1>2, <2>1
    <3>2. DOMAIN r = {}
      BY <1>1, <3>1 DEF n, q
    <3>. QED BY <1>0, <1>2, <3>1, <3>2 DEF HasFrames
  <2>2. ASSUME NEW c \in DOMAIN b.made, "End" \in b.made[c].pins PROVE b.made[c].final
    <3>1. CASE c = p
      BY <1>2, <2>2, <3>1
    <3>2. CASE c # p
      BY <1>2, <1>3, <2>2, <3>2 DEF FinalInv
    <3>. QED BY <3>1, <3>2
  <2>. QED BY <1>0, <1>3, <2>1, <2>2 DEF FinalInv, r
<1>12. AllScrubbed(b, s)
  <2>1. ASSUME s, NEW i \in DOMAIN r PROVE r[i].scrubbed
    <3>1. r[i] = q[i + k] /\ i + k \in DOMAIN q
      BY <1>1, <1>5
    <3>2. q[i + k].scrubbed
      BY <1>3, <2>1, <3>1 DEF AllScrubbed, q
    <3>. QED BY <3>1, <3>2, Zenon
  <2>2. ASSUME s, NEW c \in DOMAIN b.made PROVE b.made[c].scrubbed
    <3>1. CASE c = p
      <4>1. b.made[c] = x
        BY <1>2, <3>1
      <4>. QED BY <2>2, <4>1, Zenon
    <3>2. CASE c # p
      <4>1. c \in DOMAIN a.made /\ b.made[c] = a.made[c]
        BY <1>2, <3>2
      <4>2. a.made[c].scrubbed
        BY <1>3, <2>2, <4>1 DEF AllScrubbed
      <4>. QED BY <4>1, <4>2, Zenon
    <3>. QED BY <3>1, <3>2
  <2>. QED BY <2>1, <2>2 DEF AllScrubbed, r
<1>13. \A i \in DOMAIN q : Names(q[i]) \subseteq 1..w - 2
  BY <1>3 DEF Placed, q
<1>14. \A i, j \in DOMAIN q : i # j => Names(q[i]) \cap Names(q[j]) = {}
  BY <1>3 DEF Placed, q
<1>15. \A i \in DOMAIN q, c \in Live(a) : Names(q[i]) \cap Tells(a.made[c]) = {}
  BY <1>3 DEF Placed, q
<1>16. Placed(b, w)
  <2>1. Tells(x) \subseteq 1..w - 2
    BY <1>5, <1>7, <1>13
  <2>2. ASSUME NEW c \in Live(a) PROVE Tells(x) \cap Tells(a.made[c]) = {}
    BY <1>5, <1>7, <1>15
  <2>3. x.recs \cap x.lost = {}
    <3>1. ASSUME NEW m \in x.recs, m \in x.lost PROVE FALSE
      <4>1. PICK i \in 1..k : q[i].kind = "record" /\ q[i].seq = m
        BY <1>6
      <4>2. PICK j \in 1..k : m \in q[j].lost
        BY <1>6, <3>1
      <4>3. q[i].lost = {}
        BY <1>5, <4>1, EntriesAre DEF EntryLike, q
      <4>4. q[j].kind # "record"
        BY <1>5, <4>2, EntriesAre DEF EntryLike, q
      <4>5. i # j /\ m \in Names(q[i]) /\ m \in Names(q[j])
        BY <4>1, <4>2, <4>3, <4>4 DEF Names
      <4>. QED BY <1>5, <1>14, <4>5
    <3>. QED BY <3>1
  <2>4. ASSUME NEW i \in DOMAIN r PROVE Names(r[i]) \subseteq 1..w - 2
    BY <1>1, <1>5, <1>13
  <2>5. ASSUME NEW i \in DOMAIN r, NEW j \in DOMAIN r, i # j PROVE Names(r[i]) \cap Names(r[j]) = {}
    <3>1. i + k # j + k /\ i + k \in DOMAIN q /\ j + k \in DOMAIN q
      BY <1>1, <1>5, <2>5
    <3>. QED BY <1>1, <1>14, <3>1
  <2>6. ASSUME NEW i \in DOMAIN r, NEW c \in Live(b) PROVE Names(r[i]) \cap Tells(b.made[c]) = {}
    <3>1. i + k \in DOMAIN q /\ r[i] = q[i + k] /\ i + k > k
      BY <1>1, <1>5
    <3>2. CASE c = p
      <4>1. \A j \in 1..k : j # i + k
        BY <1>1, <1>5
      <4>2. \A j \in 1..k : Names(q[j]) \cap Names(q[i + k]) = {}
        BY <1>5, <1>14, <3>1, <4>1
      <4>3. Tells(b.made[c]) = Tells(x)
        BY <1>2, <3>2
      <4>. QED BY <1>7, <3>1, <4>2, <4>3
    <3>3. CASE c # p
      BY <1>4, <1>15, <3>1, <3>3
    <3>. QED BY <3>2, <3>3
  <2>7. ASSUME NEW m \in 1..w - 2, b.state # "off"
        PROVE (\E i \in DOMAIN r : m \in Names(r[i])) \/ \E c \in Live(b) : m \in Tells(b.made[c])
    <3>1. CASE \E i \in DOMAIN q : m \in Names(q[i])
      <4>1. PICK i \in DOMAIN q : m \in Names(q[i])
        BY <3>1
      <4>2. CASE i \in 1..k
        BY <1>2, <1>4, <1>7, <4>1, <4>2
      <4>3. CASE i \notin 1..k
        BY <1>5, <4>1, <4>3
      <4>. QED BY <4>2, <4>3
    <3>2. CASE \E c \in Live(a) : m \in Tells(a.made[c])
      BY <1>4, <3>2
    <3>. QED BY <1>0, <1>3, <2>7, <3>1, <3>2 DEF Placed, q
  <2>8. ASSUME NEW c \in Live(b)
        PROVE Tells(b.made[c]) \subseteq 1..w - 2 /\ b.made[c].recs \cap b.made[c].lost = {}
    <3>1. CASE c = p
      BY <1>2, <2>1, <2>3, <3>1
    <3>2. CASE c # p
      BY <1>3, <1>4, <3>2 DEF Placed
    <3>. QED BY <3>1, <3>2
  <2>9. ASSUME NEW c \in Live(b), NEW d \in Live(b), c # d PROVE Tells(b.made[c]) \cap Tells(b.made[d]) = {}
    <3>1. CASE c = p
      BY <1>2, <1>4, <2>2, <2>9, <3>1
    <3>2. CASE d = p
      BY <1>2, <1>4, <2>2, <2>9, <3>2
    <3>3. CASE c # p /\ d # p
      BY <1>3, <1>4, <2>9, <3>3 DEF Placed
    <3>. QED BY <3>1, <3>2, <3>3
  <2>. QED BY <2>4, <2>5, <2>6, <2>7, <2>8, <2>9 DEF Placed, r
<1>17. GivenUp(b)
  BY <1>0, <1>2, <1>3 DEF GivenUp
<1>18. Counted(b, w)
  <2>1. ASSUME NEW m \in Dropped(a, w) PROVE m \in Dropped(b, w)
    <3>1. CASE \E i \in DOMAIN q : m \in q[i].lost
      <4>1. PICK i \in DOMAIN q : m \in q[i].lost
        BY <3>1
      <4>2. CASE i \in 1..k
        <5>1. p \in Live(b) /\ m \in b.made[p].lost
          BY <1>2, <1>4, <1>6, <4>1, <4>2
        <5>. QED BY <5>1 DEF Dropped
      <4>3. CASE i \notin 1..k
        <5>1. i - k \in DOMAIN r /\ m \in r[i - k].lost
          BY <1>5, <4>1, <4>3
        <5>. QED BY <5>1 DEF Dropped, r
      <4>. QED BY <4>2, <4>3
    <3>2. CASE \E c \in Live(a) : m \in a.made[c].lost
      BY <1>4, <3>2 DEF Dropped
    <3>. QED BY <3>1, <3>2 DEF Dropped, q
  <2>2. ASSUME NEW m \in Dropped(b, w) PROVE m \in Dropped(a, w)
    <3>1. CASE \E i \in DOMAIN r : m \in r[i].lost
      <4>1. PICK i \in DOMAIN r : m \in r[i].lost
        BY <3>1
      <4>2. i + k \in DOMAIN q /\ m \in q[i + k].lost
        BY <1>1, <1>5, <4>1
      <4>. QED BY <4>2 DEF Dropped, q
    <3>2. CASE \E c \in Live(b) : m \in b.made[c].lost
      <4>1. PICK c \in Live(b) : m \in b.made[c].lost
        BY <3>2
      <4>2. CASE c = p
        <5>1. PICK i \in 1..k : m \in q[i].lost
          BY <1>2, <1>6, <4>1, <4>2
        <5>. QED BY <1>5, <5>1 DEF Dropped, q
      <4>3. CASE c # p
        <5>1. c \in Live(a) /\ m \in a.made[c].lost
          BY <1>4, <4>1, <4>3
        <5>. QED BY <5>1 DEF Dropped
      <4>. QED BY <4>2, <4>3
    <3>. QED BY <3>1, <3>2 DEF Dropped, r
  <2>3. Dropped(b, w) = Dropped(a, w)
    BY <2>1, <2>2
  <2>. QED BY <1>0, <1>3, <2>3 DEF Counted
<1>19. Fated(a, b, w)
  <2>1. ASSUME NEW m \in 1..w - 2, m \in Holding(b) PROVE m \in Holding(a)
    <3>1. PICK i \in DOMAIN r : r[i].kind = "record" /\ r[i].seq = m
      BY <2>1 DEF Holding, r
    <3>2. i + k \in DOMAIN q /\ q[i + k].kind = "record" /\ q[i + k].seq = m
      BY <1>1, <1>5, <3>1
    <3>. QED BY <3>2 DEF Holding, q
  <2>2. ASSUME NEW m \in 1..w - 2, m \in Shipped(b) PROVE m \in Shipped(a) \cup Holding(a)
    <3>1. PICK c \in Live(b) : m \in b.made[c].recs
      BY <2>2 DEF Shipped
    <3>2. CASE c = p
      <4>1. PICK i \in 1..k : q[i].kind = "record" /\ q[i].seq = m
        BY <1>2, <1>6, <3>1, <3>2
      <4>. QED BY <1>5, <4>1 DEF Holding, q
    <3>3. CASE c # p
      <4>1. c \in Live(a) /\ m \in a.made[c].recs
        BY <1>4, <3>1, <3>3
      <4>. QED BY <4>1 DEF Shipped
    <3>. QED BY <3>2, <3>3
  <2>. QED BY <1>0, <2>1, <2>2 DEF Fated
<1>. QED BY <1>0, <1>8, <1>9, <1>10, <1>11, <1>12, <1>16, <1>17, <1>18, <1>19 DEF Sound, Moved, q, r

(* takeBatch takes a beginning of the ring.                                *)
LEMMA TakenPrefix == ASSUME NEW q \in Seq(Entry)
  PROVE LET k == Cardinality(Taken(q)) IN k \in 0..Len(q) /\ Taken(q) = 1..k
<1> DEFINE T == Taken(q)
           k == Cardinality(T)
<1>1. Len(q) \in Nat /\ DOMAIN q = 1..Len(q)
  OBVIOUS
<1>2. T \in SUBSET (1..Len(q)) /\ \A j \in T : 1..j \subseteq T
  BY <1>1 DEF Taken
<1>3. IsFiniteSet(1..Len(q)) /\ Cardinality(1..Len(q)) = Len(q)
  <2>1. 1 \in Int /\ Len(q) \in Int
    BY <1>1
  <2>2. /\ IsFiniteSet(1..Len(q))
        /\ Cardinality(1..Len(q)) = IF 1 > Len(q) THEN 0 ELSE Len(q) - 1 + 1
    BY <2>1, FS_Interval
  <2>3. \A n \in Nat : (IF 1 > n THEN 0 ELSE n - 1 + 1) = n
    OBVIOUS
  <2>. QED BY <1>1, <2>2, <2>3, Zenon
<1>4. IsFiniteSet(T) /\ k \in 0..Len(q)
  BY <1>2, <1>3, FS_Subset, FS_CardinalityType
<1> HIDE DEF T
<1>5. ASSUME NEW j \in T PROVE j \in 1..k
  <2>1. j \in Nat /\ j >= 1
    BY <1>2
  <2>2. Cardinality(1..j) = j
    <3>1. Cardinality(1..j) = IF 1 > j THEN 0 ELSE j - 1 + 1
      BY <2>1, FS_Interval
    <3>. QED BY <2>1, <3>1
  <2>3. Cardinality(1..j) <= k
    BY <1>2, <1>4, FS_Subset
  <2>. QED BY <1>4, <2>1, <2>2, <2>3
<1>6. IsFiniteSet(1..k) /\ Cardinality(1..k) = k
  <2>1. k \in Int /\ 1 \in Int
    BY <1>4
  <2>2. Cardinality(1..k) = IF 1 > k THEN 0 ELSE k - 1 + 1
    BY <2>1, FS_Interval
  <2>. QED BY <1>4, <2>1, <2>2, FS_Interval
<1>7. T = 1..k
  BY <1>5, <1>6, FS_Subset
<1>. QED BY <1>4, <1>7 DEF T

(* A record is in the range it declares.                                   *)
LEMMA InSpan == ASSUME NEW S, NEW m \in 1..MaxSeq, m \in S PROVE m \in Span(S)
<1>1. m <= m
  BY MaxSeqAssumption
<1>. QED BY <1>1 DEF Span
(* So the records of a batch are a run without holes.                      *)
LEMMA TakenRun == ASSUME NEW q \in Seq(Entry), NEW w \in Nat, NEW e \in BOOLEAN, RingOrdered(q, w, e),
    w <= MaxSeq + 2, NEW k \in 0..Len(q), Taken(q) = 1..k
  PROVE LET S == {q[i].seq : i \in {j \in 1..k : q[j].kind = "record"}} IN S = Span(S)
<1> DEFINE S == {q[i].seq : i \in {j \in 1..k : q[j].kind = "record"}}
<1>1. Len(q) \in Nat /\ DOMAIN q = 1..Len(q) /\ MaxSeq \in Nat
  BY MaxSeqAssumption
<1>2. \A i \in 1..k : i \in DOMAIN q /\ Takes(q, i)
  BY <1>1 DEF Taken
<1>3. ASSUME NEW m \in S PROVE m \in Span(S)
  <2>1. PICK i \in 1..k : q[i].kind = "record" /\ q[i].seq = m
    BY <1>3
  <2>2. m \in 1..w - 2
    BY <1>2, <2>1 DEF RingOrdered
  <2>3. m \in 1..MaxSeq
    BY <1>1, <2>2
  <2>. QED BY <1>3, <2>3, InSpan
<1>4. ASSUME NEW m \in Span(S) PROVE m \in S
  <2>1. m \in 1..MaxSeq /\ \E first, last \in S : first <= m /\ m <= last
    BY DEF Span
  <2>2. PICK i \in 1..k, j \in 1..k :
          /\ q[i].kind = "record" /\ q[j].kind = "record"
          /\ q[i].seq <= m /\ m <= q[j].seq
    BY <2>1
  <2>3. i \in DOMAIN q /\ j \in DOMAIN q /\ i \in Nat /\ j \in Nat
    BY <1>1, <1>2
  <2>4. q[i].seq \in Nat /\ q[j].seq \in Nat /\ m \in Nat
    <3>1. q[i].seq \in 1..w - 2 /\ q[j].seq \in 1..w - 2
      BY <2>2, <2>3, Zenon DEF RingOrdered
    <3>2. \A x \in 1..w - 2 : x \in Nat
      OBVIOUS
    <3>3. \A x \in 1..MaxSeq : x \in Nat
      OBVIOUS
    <3>. QED BY <2>1, <3>1, <3>2, <3>3, Zenon
  <2>5. CASE i = j
    <3>1. m = q[i].seq
      BY <2>2, <2>4, <2>5
    <3>. QED BY <2>2, <3>1
  <2>6. CASE j < i
    <3>1. q[j].seq < q[i].seq
      BY <2>2, <2>3, <2>6 DEF RingOrdered
    <3>. QED BY <2>2, <2>4, <3>1
  <2>7. CASE i < j
    <3>1. ASSUME NEW l \in i..j PROVE IsFrame(q[l])
      <4>1. CASE l = i
        BY <2>2, <4>1 DEF IsFrame
      <4>2. CASE l # i
        <5>1. l \in 1..k /\ i < l /\ l \in DOMAIN q
          BY <1>1, <1>2, <2>3, <4>2
        <5>2. i \in FramesBefore(q, l)
          BY <2>2, <2>3, <5>1 DEF FramesBefore, IsFrame
        <5>. QED BY <1>2, <2>2, <5>1, <5>2 DEF Takes
      <4>. QED BY <4>1, <4>2
    <3>2. \A l \in i..j : q[l].kind = "record" /\ q[l].seq = q[i].seq + (l - i)
      BY <2>2, <2>3, <2>7, <3>1 DEF RingOrdered
    <3> DEFINE l == i + (m - q[i].seq)
    <3>3. q[j].seq = q[i].seq + (j - i)
      <4>1. j \in i..j
        BY <2>3, <2>7
      <4>. QED BY <3>2, <4>1
    <3>4. l \in i..j /\ l - i = m - q[i].seq
      <4>1. PICK u, v : u = q[i].seq /\ v = q[j].seq
        OBVIOUS
      <4>2. /\ i \in Int /\ j \in Int /\ m \in Int /\ u \in Int /\ v \in Int
            /\ u <= m /\ m <= v /\ v = u + (j - i)
        BY <2>2, <2>3, <2>4, <3>3, <4>1
      <4>3. i + (m - u) \in i..j /\ (i + (m - u)) - i = m - u
        BY <4>2
      <4>. QED BY <4>1, <4>3, Zenon
    <3>5. q[l].kind = "record" /\ q[l].seq = q[i].seq + (l - i)
      BY <3>2, <3>4
    <3>6. q[l].seq = m
      BY <2>4, <3>4, <3>5
    <3>7. l \in 1..k
      BY <2>3, <3>4
    <3>. QED BY <3>5, <3>6, <3>7
  <2>. QED BY <2>3, <2>5, <2>6, <2>7
<1> HIDE DEF S
<1>5. S = Span(S)
  BY <1>3, <1>4
<1>. QED BY <1>5 DEF S

(* The first frame is always taken, so the first batch takes the Header.   *)
LEMMA TakesFirst == ASSUME NEW q \in Seq(Entry), 1 \in DOMAIN q, IsFrame(q[1])
  PROVE 1 \in Taken(q)
<1>1. FramesBefore(q, 1) = {}
  <2>1. DOMAIN q = 1..Len(q) /\ Len(q) \in Nat
    OBVIOUS
  <2>. QED BY <2>1 DEF FramesBefore
<1>2. Cardinality({}) < FlushRecords
  BY FS_EmptySet, FlushRecordsAssumption
<1>3. Takes(q, 1)
  BY <1>1, <1>2 DEF Takes
<1>4. \A j \in 1..1 : j = 1
  OBVIOUS
<1>. QED BY <1>3, <1>4 DEF Taken

(* takeBatch.                                                              *)
LEMMA CutSound == ASSUME NEW a \in Transport, NEW w \in Nat, NEW s \in BOOLEAN, Sound(a, w, s),
    a.state # "off", w <= MaxSeq + 2, HasFrames(a.queue)
  PROVE Moved(a, Cut(a), w, s)
<1> DEFINE q == a.queue
           k == Cardinality(Taken(q))
           x == BatchOf(a)
           b == Cut(a)
<1>1. q \in Seq(Entry) /\ DOMAIN q = 1..Len(q) /\ Len(q) \in Nat /\ a.ended \in BOOLEAN
  BY Fields
<1>2. k \in 0..Len(q) /\ Taken(q) = 1..k
  BY <1>1, TakenPrefix
<1>3. b = [a EXCEPT !.queue = SubSeq(q, k + 1, Len(q)), !.made = Append(a.made, x),
                    !.finalSent = a.finalSent \/ x.final]
  BY DEF Cut, Transport
<1>4. /\ b.queue = SubSeq(q, k + 1, Len(q)) /\ b.made = Append(a.made, x)
      /\ b.finalSent = (a.finalSent \/ x.final)
      /\ b.droppedRecords = a.droppedRecords /\ b.refused = a.refused
      /\ b.inFlight = a.inFlight /\ b.ended = a.ended /\ b.state = a.state
  BY <1>3 DEF Transport
<1>5. x \in Batch
  <2>1. \A i \in 1..Len(q) : q[i] \in Entry
    BY <1>1
  <2>2. \A i \in Taken(q) : /\ q[i].kind \in Pinned \cup {"record", "drop"}
                            /\ q[i].seq \in Nat /\ q[i].lost \in SUBSET Nat
    BY <1>1, <1>2, <2>1, EntryFields
  <2> QED
    BY <2>2 DEF BatchOf, Batch
<1>6. /\ RingOrdered(q, w, a.ended) /\ HeaderInv(a, w) /\ FinalInv(a, w) /\ AllScrubbed(a, s)
  BY DEF Sound
<1>7. /\ x.recs = {q[i].seq : i \in {j \in {l \in 1..k : IsFrame(q[l])} : q[j].kind = "record"}}
      /\ x.pins = {q[i].kind : i \in {j \in {l \in 1..k : IsFrame(q[l])} : q[j].kind \in Pinned}}
      /\ x.lost = UNION {q[i].lost : i \in 1..k}
      /\ x.hasHeader = (a.made = <<>> /\ \E i \in {l \in 1..k : IsFrame(q[l])} :
             q[i].kind \in Pinned /\ \A j \in {l \in 1..k : IsFrame(q[l])} : i <= j)
      /\ x.scrubbed = (\A i \in {l \in 1..k : IsFrame(q[l])} : q[i].scrubbed)
      /\ x.final = (a.ended /\ 1..k = DOMAIN q)
  BY <1>2 DEF BatchOf
<1> HIDE DEF k, x, b
<1>8. Collects(q, k, x)
  <2>1. {j \in {l \in 1..k : IsFrame(q[l])} : q[j].kind = "record"} = {j \in 1..k : q[j].kind = "record"}
    BY DEF IsFrame
  <2>2. x.recs = {q[i].seq : i \in {j \in 1..k : q[j].kind = "record"}}
    BY <1>7, <2>1
  <2>3. x.recs = Span(x.recs)
    BY <1>1, <1>2, <1>6, <2>2, TakenRun
  <2>. QED BY <1>5, <1>7, <2>2, <2>3 DEF Collects
<1>9. Cuts(a, b, k, x)
  <2>1. /\ Len(b.queue) = Len(q) - k /\ DOMAIN b.queue = 1..Len(q) - k
        /\ \A i \in 1..Len(q) - k : b.queue[i] = q[i + k]
    BY <1>1, <1>2, <1>4, SubSeqProperties
  <2>. QED BY <1>4, <2>1 DEF Cuts
<1>10. w >= 1
  <2>1. w # 0
    BY <1>1, <1>6 DEF HeaderInv, HasFrames
  <2>. QED BY <2>1
<1>11. \A c \in DOMAIN a.made : ~a.made[c].final
  BY <1>6 DEF FinalInv
<1>12. a.made = <<>> => 1 \in DOMAIN q /\ q[1].kind = "Header" /\ 1 \in 1..k
  <2>1. ASSUME a.made = <<>> PROVE 1 \in DOMAIN q /\ q[1].kind = "Header"
    BY <1>6, <1>10, <2>1 DEF HeaderInv
  <2>2. ASSUME a.made = <<>> PROVE 1 \in Taken(q)
    BY <1>1, <2>1, <2>2, TakesFirst DEF IsFrame
  <2>. QED BY <1>2, <2>1, <2>2
<1>13. ("Header" \in x.pins) = (a.made = <<>>)
  <2>1. ASSUME a.made = <<>> PROVE "Header" \in x.pins
    BY <1>7, <1>12, <2>1 DEF IsFrame, Pinned
  <2>2. ASSUME "Header" \in x.pins PROVE a.made = <<>>
    <3>1. PICK i \in 1..k : q[i].kind = "Header"
      BY <1>7, <2>2
    <3>2. i \in DOMAIN q
      BY <1>1, <1>2
    <3>. QED BY <1>6, <3>1, <3>2 DEF HeaderInv
  <2>. QED BY <2>1, <2>2
<1>14. x.hasHeader = (a.made = <<>>)
  <2>1. ASSUME a.made = <<>>
        PROVE \E i \in {l \in 1..k : IsFrame(q[l])} :
                q[i].kind \in Pinned /\ \A j \in {l \in 1..k : IsFrame(q[l])} : i <= j
    <3>1. 1 \in {l \in 1..k : IsFrame(q[l])} /\ q[1].kind \in Pinned
      BY <1>12, <2>1 DEF IsFrame, Pinned
    <3>2. \A j \in {l \in 1..k : IsFrame(q[l])} : 1 <= j
      OBVIOUS
    <3>. QED BY <3>1, <3>2
  <2>. QED BY <1>7, <2>1
<1>15. x.final => k = Len(q) /\ a.ended
  <2>1. ASSUME 1..k = DOMAIN q PROVE k = Len(q)
    BY <1>1, <1>2, <2>1
  <2>. QED BY <1>7, <2>1
<1>16. "End" \in x.pins => x.final
  <2>1. ASSUME "End" \in x.pins PROVE a.ended /\ 1..k = DOMAIN q
    <3>1. PICK i \in 1..k : q[i].kind = "End"
      BY <1>7, <2>1
    <3>2. i \in DOMAIN q
      BY <1>1, <1>2
    <3>3. i = Len(q) /\ a.ended
      BY <1>6, <3>1, <3>2 DEF RingOrdered
    <3>. QED BY <1>1, <1>2, <3>3
  <2>. QED BY <1>7, <2>1
<1>17. s => x.scrubbed
  <2>1. ASSUME s PROVE \A i \in 1..k : q[i].scrubbed
    BY <1>1, <1>2, <1>6, <2>1 DEF AllScrubbed
  <2>. QED BY <1>7, <2>1
<1>18. Moved(a, b, w, s)
  BY <1>2, <1>8, <1>9, <1>10, <1>11, <1>12, <1>13, <1>14, <1>15, <1>16, <1>17, CutsSound DEF k
<1>. QED BY <1>18 DEF b

(* sendFinalEmpty takes a ring of drops, once the session ended.           *)
LEMMA CutFinalEmptySound == ASSUME NEW a \in Transport, NEW w \in Nat, NEW s \in BOOLEAN, Sound(a, w, s),
    a.state # "off", a.ended, ~a.finalSent, ~HasFrames(a.queue)
  PROVE Moved(a, CutFinalEmpty(a), w, s)
<1> DEFINE q == a.queue
           k == Len(q)
           x == [recs |-> {}, pins |-> {}, lost |-> UNION {q[i].lost : i \in DOMAIN q},
                 hasHeader |-> FALSE, scrubbed |-> TRUE, final |-> TRUE]
           b == CutFinalEmpty(a)
<1>1. q \in Seq(Entry) /\ DOMAIN q = 1..k /\ k \in Nat /\ k \in 0..Len(q)
  BY Fields
<1>2. b = [a EXCEPT !.queue = <<>>, !.made = Append(a.made, x), !.finalSent = TRUE]
  BY DEF CutFinalEmpty
<1>3. /\ b.queue = <<>> /\ b.made = Append(a.made, x) /\ b.finalSent = TRUE
      /\ b.droppedRecords = a.droppedRecords /\ b.refused = a.refused
      /\ b.inFlight = a.inFlight /\ b.ended = a.ended /\ b.state = a.state
  BY <1>2 DEF Transport
<1>4. x \in Batch
  <2>1. \A i \in DOMAIN q : q[i].lost \in SUBSET Nat
    BY EntriesAre DEF EntryLike
  <2>. QED BY <2>1 DEF Batch
<1>5. /\ x.recs = {} /\ x.pins = {} /\ x.lost = UNION {q[i].lost : i \in DOMAIN q}
      /\ x.hasHeader = FALSE /\ x.scrubbed = TRUE /\ x.final = TRUE
  OBVIOUS
<1> HIDE DEF x, b
<1>6. HeaderInv(a, w) /\ FinalInv(a, w)
  BY DEF Sound
<1>7. w >= 1 /\ a.made # <<>>
  <2>1. w >= 2
    BY <1>6 DEF FinalInv
  <2>2. ASSUME a.made = <<>> PROVE FALSE
    <3>1. 1 \in DOMAIN q /\ q[1].kind = "Header"
      BY <1>6, <2>1, <2>2 DEF HeaderInv
    <3>. QED BY <3>1 DEF HasFrames, IsFrame
  <2>. QED BY <2>1, <2>2
<1>8. Collects(q, k, x)
  <2>1. {j \in 1..k : q[j].kind = "record"} = {}
    BY <1>1 DEF HasFrames, IsFrame
  <2>2. Span({}) = {}
    BY DEF Span
  <2>. QED BY <1>1, <1>4, <1>5, <2>1, <2>2 DEF Collects
<1>9. Cuts(a, b, k, x)
  <2>1. 1..Len(q) - k = {} /\ Len(q) - k = 0
    BY <1>1
  <2>2. b.finalSent = (a.finalSent \/ x.final)
    BY <1>3, <1>5, Zenon
  <2>3. DOMAIN b.queue = {} /\ Len(b.queue) = 0
    BY <1>3
  <2>. QED BY <1>3, <2>1, <2>2, <2>3 DEF Cuts
<1>10. \A c \in DOMAIN a.made : ~a.made[c].final
  BY <1>6 DEF FinalInv
<1>11. Moved(a, b, w, s)
  <2>1. ("Header" \in x.pins) = (a.made = <<>>)
    BY <1>5, <1>7
  <2>2. x.hasHeader = (a.made = <<>>)
    BY <1>5, <1>7
  <2>3. /\ x.final => k = Len(a.queue) /\ a.ended
        /\ "End" \in x.pins => x.final
        /\ s => x.scrubbed
    BY <1>5
  <2>. QED BY <1>1, <2>1, <2>2, <2>3, <1>7, <1>8, <1>9, <1>10, CutsSound
<1>. QED BY <1>11 DEF b

(* r is q with at most a drop marker put before it, d of them.             *)
Prefixed(q, S, r, d) ==
  /\ Len(r) = Len(q) + d /\ DOMAIN r = 1..Len(r)
  /\ \A i \in DOMAIN q : i + d \in DOMAIN r /\ r[i + d] = q[i]
  /\ \A j \in DOMAIN r : \/ j - d \in DOMAIN q /\ r[j] = q[j - d]
                         \/ S # {} /\ j = 1 /\ r[j] = Drop(S)
(* Refused puts a marker back only where it reports something.             *)
LEMMA MarkerBefore == ASSUME NEW q \in Seq(Entry), NEW S \in SUBSET Nat
  PROVE Prefixed(q, S, Marker(S) \o q, IF S = {} THEN 0 ELSE 1)
<1> DEFINE r == Marker(S) \o q
<1>1. Len(q) \in Nat /\ DOMAIN q = 1..Len(q)
  OBVIOUS
<1>2. CASE S = {}
  <2>1. r = q
    BY <1>2 DEF Marker
  <2>2. Len(q) + 0 = Len(q) /\ \A i \in DOMAIN q : i + 0 = i /\ i - 0 = i
    BY <1>1
  <2>3. Prefixed(q, S, q, 0)
    BY <1>1, <2>2 DEF Prefixed
  <2>. QED BY <1>2, <2>1, <2>3, Zenon
<1>3. CASE S # {}
  <2>1. Drop(S) \in Entry
    BY DropType
  <2>2. r = <<Drop(S)>> \o q
    BY <1>3 DEF Marker
  <2>3. r \in Seq(Entry) /\ Len(r) = Len(q) + 1 /\ DOMAIN r = 1..Len(r)
    BY <2>1, <2>2
  <2>4. r[1] = Drop(S)
    BY <1>1, <2>1, <2>2
  <2>5. \A i \in DOMAIN q : i + 1 \in DOMAIN r /\ r[i + 1] = q[i]
    BY <1>1, <2>1, <2>2, <2>3
  <2>6. \A j \in DOMAIN r : j = 1 \/ j - 1 \in DOMAIN q
    BY <1>1, <2>3
  <2>7. ASSUME NEW j \in DOMAIN r, j # 1 PROVE r[j] = q[j - 1]
    <3>1. j - 1 \in DOMAIN q /\ (j - 1) + 1 = j
      BY <2>3, <2>6, <2>7
    <3>. QED BY <2>5, <3>1
  <2>8. Prefixed(q, S, r, 1)
    BY <1>3, <2>3, <2>4, <2>5, <2>6, <2>7 DEF Prefixed
  <2>. QED BY <1>3, <2>8, Zenon
<1>. QED BY <1>2, <1>3

(* b is a with batch c given up, what it stood for put back as a drop.     *)
GivesUp(a, b, c) ==
  LET x == a.made[c]
  IN /\ b.queue = Marker(x.lost \cup x.recs) \o a.queue
     /\ b.droppedRecords = a.droppedRecords + Cardinality(x.recs)
     /\ b.made = a.made /\ b.refused = a.refused \cup {c} /\ b.inFlight = NoBatch
     /\ b.ended = a.ended /\ b.finalSent = a.finalSent /\ b.state = a.state

(* A batch given up leaves its records dropped, and counted.               *)
LEMMA GivesUpSound == ASSUME NEW a \in Transport, NEW b, NEW w \in Nat, NEW s, NEW c \in Live(a),
    Sound(a, w, s), GivesUp(a, b, c)
  PROVE Moved(a, b, w, s)
<1> DEFINE q == a.queue
           r == b.queue
           x == a.made[c]
           S == x.lost \cup x.recs
           d == IF S = {} THEN 0 ELSE 1
<1>1. /\ b.droppedRecords = a.droppedRecords + Cardinality(x.recs)
      /\ b.made = a.made /\ b.refused = a.refused \cup {c} /\ b.inFlight = NoBatch
      /\ b.ended = a.ended /\ b.finalSent = a.finalSent /\ b.state = a.state
      /\ r = Marker(S) \o q
  BY DEF GivesUp
<1>2. c \in DOMAIN a.made /\ c \notin a.refused /\ c \in Nat /\ c # NoBatch
  BY Fields DEF Live, NoBatch
<1>3. x.recs \in SUBSET Nat /\ x.lost \in SUBSET Nat /\ S \in SUBSET Nat /\ S = Tells(x)
  BY <1>2, BatchesAre DEF Tells
<1>4. q \in Seq(Entry) /\ DOMAIN q = 1..Len(q) /\ Len(q) \in Nat /\ d \in {0, 1}
  BY Fields
<1>5. /\ Len(r) = Len(q) + d /\ DOMAIN r = 1..Len(r)
      /\ \A i \in DOMAIN q : i + d \in DOMAIN r /\ r[i + d] = q[i]
      /\ \A j \in DOMAIN r : \/ j - d \in DOMAIN q /\ r[j] = q[j - d]
                             \/ S # {} /\ j = 1 /\ r[j] = Drop(S)
  <2>1. d = IF S = {} THEN 0 ELSE 1
    OBVIOUS
  <2>2. Prefixed(q, S, r, d)
    BY <1>1, <1>3, <1>4, <2>1, MarkerBefore, ZenonT(60)
  <2> HIDE DEF S, d, r
  <2>. QED BY <2>2 DEF Prefixed
<1>6. S # {} => 1 \in DOMAIN r /\ r[1] = Drop(S) /\ d = 1
  <2>1. ASSUME S # {} PROVE 1 \in DOMAIN r /\ r[1] = Drop(S) /\ d = 1
    <3>1. d = 1 /\ 1 \in DOMAIN r
      <4>1. d = 1
        BY <2>1
      <4> HIDE DEF d, r
      <4>. QED BY <1>4, <1>5, <4>1
    <3>2. 1 - d \notin DOMAIN q
      BY <1>4, <3>1
    <3>. QED BY <1>5, <3>1, <3>2
  <2>. QED BY <2>1
<1> HIDE DEF d, r
(* Every entry is an old one, or the new drop.                             *)
<1>7. ASSUME NEW j \in DOMAIN r, r[j].kind # "drop"
      PROVE j \in Int /\ j - d \in DOMAIN q /\ r[j] = q[j - d]
  BY <1>5, <1>7, DropIs
<1>8. ASSUME NEW j \in DOMAIN r
      PROVE j \in Int /\ (\/ j - d \in DOMAIN q /\ r[j] = q[j - d]
                          \/ S # {} /\ j = 1 /\ Names(r[j]) = S /\ r[j].lost = S /\ r[j].scrubbed)
  <2>1. CASE r[j] = Drop(S)
    <3>1. r[j].kind = "drop" /\ r[j].lost = S /\ r[j].scrubbed
      BY <2>1, DropIs, Zenon
    <3>2. Names(r[j]) = S
      BY <3>1 DEF Names
    <3>. QED BY <1>5, <3>1, <3>2
  <2>2. CASE r[j] # Drop(S)
    BY <1>5, <2>2
  <2>. QED BY <2>1, <2>2
<1>9. Live(b) = Live(a) \ {c}
  BY <1>1 DEF Live
<1>10. RingOrdered(r, w, b.ended)
  <2>1. RingOrdered(q, w, a.ended)
    BY DEF Sound
  <2>2. ASSUME NEW i \in DOMAIN r, r[i].kind = "record" PROVE r[i].seq \in 1..w - 2
    BY <1>7, <2>1, <2>2 DEF RingOrdered
  <2>3. ASSUME NEW i \in DOMAIN r, NEW j \in DOMAIN r, i < j, r[i].kind = "record"
        PROVE /\ r[j].kind \notin {"Header", "Env"}
              /\ r[j].kind = "record" => r[i].seq < r[j].seq
    <3>1. i - d \in DOMAIN q /\ r[i] = q[i - d]
      BY <1>7, <2>3
    <3>2. CASE r[j].kind = "drop"
      BY <3>2
    <3>3. CASE r[j].kind # "drop"
      <4>1. j - d \in DOMAIN q /\ r[j] = q[j - d] /\ i - d < j - d
        BY <1>4, <1>7, <2>3, <3>3
      <4>. QED BY <2>1, <2>3, <3>1, <4>1 DEF RingOrdered
    <3>. QED BY <3>2, <3>3
  <2>4. ASSUME NEW i \in DOMAIN r, NEW j \in DOMAIN r, i < j, r[i].kind = "record",
               r[j].kind = "record", \A k \in i..j : IsFrame(r[k]), NEW k \in i..j
        PROVE r[k].kind = "record" /\ r[k].seq = r[i].seq + (k - i)
    <3>1. /\ i - d \in DOMAIN q /\ r[i] = q[i - d] /\ j - d \in DOMAIN q /\ r[j] = q[j - d]
          /\ i - d < j - d /\ i \in Int /\ j \in Int
      BY <1>4, <1>7, <2>4
    <3>7. d \in Int /\ \A h \in i..j : h \in DOMAIN r
      <4>1. d \in Int
        BY <1>4
      <4> DEFINE n == Len(r)
      <4>2. DOMAIN r = 1..n /\ i \in DOMAIN r /\ j \in DOMAIN r /\ n \in Int
        BY <1>4, <1>5
      <4> HIDE DEF n
      <4>3. i \in 1..n /\ j \in 1..n
        BY <4>2, Zenon
      <4>4. \A g, h \in 1..n : g..h \subseteq 1..n
        BY <4>2
      <4>. QED BY <4>1, <4>2, <4>3, <4>4, Zenon
    <3>8. /\ \A l \in (i - d)..(j - d) : l + d \in i..j /\ (l + d) - d = l
          /\ \A h \in i..j : h - d \in (i - d)..(j - d) /\ (h - d) - (i - d) = h - i
      BY <3>1, <3>7, Shifted
    <3>2. ASSUME NEW l \in (i - d)..(j - d) PROVE IsFrame(q[l])
      <4>1. l + d \in i..j /\ l + d \in DOMAIN r /\ (l + d) - d = l
        BY <3>7, <3>8, Zenon
      <4>2. r[l + d].kind # "drop"
        BY <2>4, <4>1 DEF IsFrame
      <4>3. r[l + d] = q[(l + d) - d]
        BY <1>7, <4>1, <4>2
      <4>. QED BY <4>1, <4>2, <4>3 DEF IsFrame
    <3>3. k - d \in (i - d)..(j - d) /\ k \in DOMAIN r
      BY <3>7, <3>8, Zenon
    <3>4. q[k - d].kind = "record" /\ q[k - d].seq = q[i - d].seq + ((k - d) - (i - d))
      <4>1. q[i - d].kind = "record" /\ q[j - d].kind = "record"
        BY <2>4, <3>1, Zenon
      <4>. QED BY <2>1, <3>1, <3>2, <3>3, <4>1, RingRuns, Zenon
    <3>5. r[k] = q[k - d]
      BY <1>7, <2>4, <3>3 DEF IsFrame
    <3>6. (k - d) - (i - d) = k - i
      BY <3>8, Zenon
    <3>. QED BY <3>1, <3>4, <3>5, <3>6
  <2>5. ASSUME NEW i \in DOMAIN r, i = Len(r), r[i].kind = "record" PROVE r[i].seq = w - 2
    <3>1. i - d \in DOMAIN q /\ r[i] = q[i - d] /\ i - d = Len(q)
      <4>1. i - d \in DOMAIN q /\ r[i] = q[i - d]
        BY <1>7, <2>5
      <4>2. i = Len(q) + d /\ Len(q) \in Int /\ d \in Int
        BY <1>4, <1>5, <2>5
      <4>. QED BY <4>1, <4>2
    <3>. QED BY <2>1, <2>5, <3>1 DEF RingOrdered
  <2>6. ASSUME NEW i \in DOMAIN r, r[i].kind = "End" PROVE i = Len(r) /\ b.ended
    <3>1. i - d \in DOMAIN q /\ r[i] = q[i - d] /\ i \in Int
      BY <1>7, <2>6
    <3>2. i - d = Len(q) /\ a.ended
      BY <2>1, <2>6, <3>1 DEF RingOrdered
    <3>. QED BY <1>1, <1>4, <1>5, <3>1, <3>2
  <2>. QED BY <2>2, <2>3, <2>4, <2>5, <2>6 DEF RingOrdered
<1>11. BatchesOrdered(b, w)
  <2>1. ASSUME NEW e \in DOMAIN a.made, NEW i \in DOMAIN r, r[i].kind = "record", NEW m \in a.made[e].recs
        PROVE m < r[i].seq
    BY <1>7, <2>1 DEF Sound, BatchesOrdered
  <2>2. BatchesOrdered(a, w)
    BY DEF Sound
  <2>3. b.made = a.made /\ b.queue = r
    BY <1>1, Zenon DEF r
  <2>. QED BY <2>1, <2>2, <2>3 DEF BatchesOrdered
<1>12. HeaderInv(b, w)
  <2>1. a.made # <<>> /\ w # 0
    BY <1>2 DEF Sound, HeaderInv
  <2>2. ASSUME NEW i \in DOMAIN r, r[i].kind = "Header" PROVE FALSE
    BY <1>7, <2>1, <2>2 DEF Sound, HeaderInv
  <2>3. HeaderInv(a, w)
    BY DEF Sound
  <2>4. b.made = a.made /\ b.queue = r
    BY <1>1, Zenon DEF r
  <2>. QED BY <2>1, <2>2, <2>3, <2>4 DEF HeaderInv
<1>13. HasFrames(r) => HasFrames(q)
  BY <1>7 DEF HasFrames, IsFrame
<1>14. FinalInv(b, w)
  BY <1>1, <1>13 DEF Sound, FinalInv, r
<1>15. AllScrubbed(b, s)
  <2>1. ASSUME NEW i \in DOMAIN r, s PROVE r[i].scrubbed
    BY <1>8, <2>1 DEF Sound, AllScrubbed
  <2>. QED BY <1>1, <2>1 DEF Sound, AllScrubbed, r
<1>16. GivenUp(b)
  BY <1>1, <1>2, Fields DEF Sound, GivenUp, NoBatch
<1>17. Placed(b, w)
  <2>1. Placed(a, w)
    BY DEF Sound
  <2>2. ASSUME NEW i \in DOMAIN r PROVE Names(r[i]) \subseteq 1..w - 2
    BY <1>3, <1>8, <2>1 DEF Placed
  <2>3. ASSUME NEW i \in DOMAIN r, NEW j \in DOMAIN r, i # j PROVE Names(r[i]) \cap Names(r[j]) = {}
    <3>1. CASE i - d \in DOMAIN q /\ r[i] = q[i - d] /\ j - d \in DOMAIN q /\ r[j] = q[j - d]
      <4>1. i - d # j - d
        BY <1>4, <1>8, <2>3
      <4>. QED BY <2>1, <3>1, <4>1 DEF Placed
    <3>2. CASE i - d \in DOMAIN q /\ r[i] = q[i - d] /\ Names(r[j]) = S
      BY <1>3, <2>1, <3>2 DEF Placed
    <3>3. CASE j - d \in DOMAIN q /\ r[j] = q[j - d] /\ Names(r[i]) = S
      BY <1>3, <2>1, <3>3 DEF Placed
    <3>. QED BY <1>8, <2>3, <3>1, <3>2, <3>3
  <2>4. ASSUME NEW i \in DOMAIN r, NEW e \in Live(b) PROVE Names(r[i]) \cap Tells(a.made[e]) = {}
    <3>1. e \in Live(a) /\ e # c
      BY <1>9
    <3>2. Tells(a.made[c]) = S
      BY <1>3
    <3>3. CASE i - d \in DOMAIN q /\ r[i] = q[i - d]
      BY <2>1, <3>1, <3>3 DEF Placed
    <3>4. CASE Names(r[i]) = S
      <4>1. Tells(a.made[e]) \cap Tells(a.made[c]) = {}
        BY <1>9, <2>1, <3>1 DEF Placed
      <4>. QED BY <3>2, <3>4, <4>1
    <3>. QED BY <1>8, <3>3, <3>4
  <2>5. ASSUME b.state # "off", NEW n \in 1..w - 2
        PROVE \/ \E i \in DOMAIN r : n \in Names(r[i])
              \/ \E e \in Live(b) : n \in Tells(a.made[e])
    <3>1. CASE n \in S
      BY <1>6, <1>8, <3>1, DropIs DEF Names
    <3>2. CASE n \notin S
      <4>1. \/ \E i \in DOMAIN q : n \in Names(q[i])
            \/ \E e \in Live(a) : n \in Tells(a.made[e])
        BY <1>1, <2>1, <2>5 DEF Placed
      <4>2. CASE \E i \in DOMAIN q : n \in Names(q[i])
        BY <1>5, <4>2
      <4>3. CASE \E e \in Live(a) : n \in Tells(a.made[e])
        BY <1>3, <1>9, <3>2, <4>3
      <4>. QED BY <4>1, <4>2, <4>3
    <3>. QED BY <3>1, <3>2
  <2>6. \A e \in Live(b) : e \in Live(a)
    BY <1>9
  <2>. QED BY <1>1, <2>1, <2>2, <2>3, <2>4, <2>5, <2>6 DEF Placed, r
<1>18. Counted(b, w)
  <2>1. Placed(a, w)
    BY DEF Sound
  <2>2. Dropped(b, w) = Dropped(a, w) \cup x.recs
    <3>1. ASSUME NEW n \in Dropped(b, w) PROVE n \in Dropped(a, w) \cup x.recs
      <4>1. n \in 1..w - 2
        BY DEF Dropped
      <4>2. CASE \E i \in DOMAIN r : n \in r[i].lost
        <5>1. PICK i \in DOMAIN r : n \in r[i].lost
          BY <4>2
        <5>2. CASE i - d \in DOMAIN q /\ r[i] = q[i - d]
          BY <4>1, <5>1, <5>2 DEF Dropped
        <5>3. CASE r[i].lost = S
          BY <4>1, <5>1, <5>3 DEF Dropped
        <5>. QED BY <1>8, <5>2, <5>3
      <4>3. CASE \E e \in Live(b) : n \in b.made[e].lost
        BY <1>1, <1>9, <4>1, <4>3 DEF Dropped
      <4>. QED BY <4>2, <4>3 DEF Dropped, r
    <3>2. ASSUME NEW n \in Dropped(a, w) PROVE n \in Dropped(b, w)
      <4>1. n \in 1..w - 2
        BY DEF Dropped
      <4>2. CASE \E i \in DOMAIN q : n \in q[i].lost
        <5>1. PICK i \in DOMAIN q : n \in q[i].lost
          BY <4>2
        <5>. QED BY <1>5, <4>1, <5>1 DEF Dropped, r
      <4>3. CASE n \in x.lost
        <5>1. 1 \in DOMAIN r /\ r[1].lost = S /\ n \in S
          BY <1>6, <4>3, DropIs
        <5>. QED BY <4>1, <5>1 DEF Dropped, r
      <4>4. CASE \E e \in Live(a) : e # c /\ n \in a.made[e].lost
        BY <1>1, <1>9, <4>1, <4>4 DEF Dropped
      <4>. QED BY <4>2, <4>3, <4>4 DEF Dropped
    <3>3. ASSUME NEW n \in x.recs PROVE n \in Dropped(b, w)
      <4>1. n \in 1..w - 2
        BY <2>1 DEF Placed, Tells
      <4>2. 1 \in DOMAIN r /\ r[1].lost = S /\ n \in S
        BY <1>6, DropIs
      <4>. QED BY <4>1, <4>2 DEF Dropped, r
    <3>. QED BY <3>1, <3>2, <3>3
  <2>3. Dropped(a, w) \cap x.recs = {}
    <3>1. ASSUME NEW n \in x.recs, n \in Dropped(a, w) PROVE FALSE
      <4>1. CASE \E i \in DOMAIN q : n \in q[i].lost
        <5>1. PICK i \in DOMAIN q : n \in q[i].lost
          BY <4>1
        <5>2. n \in Names(q[i])
          BY <5>1, EntriesAre DEF Names, EntryLike
        <5>. QED BY <2>1, <5>2 DEF Placed, Tells
      <4>2. CASE \E e \in Live(a) : n \in a.made[e].lost
        BY <2>1, <4>2 DEF Placed, Tells
      <4>. QED BY <3>1, <4>1, <4>2 DEF Dropped
    <3>. QED BY <3>1
  <2>4. IsFiniteSet(Dropped(a, w)) /\ IsFiniteSet(x.recs)
    <3>1. x.recs \in SUBSET (1..w - 2)
      BY <2>1 DEF Placed, Tells
    <3>2. IsFiniteSet(1..w - 2)
      BY FS_Interval, 1 \in Int, w - 2 \in Int
    <3>. QED BY <3>1, <3>2, FS_Subset DEF Dropped
  <2>5. Cardinality(Dropped(a, w) \cup x.recs) = Cardinality(Dropped(a, w)) + Cardinality(x.recs)
    <3>1. Cardinality(Dropped(a, w) \cup x.recs) = Cardinality(Dropped(a, w)) + Cardinality(x.recs) - Cardinality({})
      BY <2>3, <2>4, FS_Union
    <3>. QED BY <2>4, <3>1, FS_EmptySet, FS_CardinalityType
  <2>. QED BY <1>1, <2>2, <2>5 DEF Sound, Counted
<1>19. Fated(a, b, w)
  <2>1. Holding(b) \subseteq Holding(a)
    <3>1. ASSUME NEW n \in Nat, NEW i \in DOMAIN r, r[i].kind = "record", r[i].seq = n
          PROVE n \in Holding(a)
      <4>1. i - d \in DOMAIN q /\ r[i] = q[i - d]
        BY <1>7, <3>1
      <4>. QED BY <3>1, <4>1 DEF Holding
    <3>. QED BY <3>1 DEF Holding, r
  <2>2. Shipped(b) \subseteq Shipped(a)
    BY <1>1, <1>9 DEF Shipped
  <2>. QED BY <1>1, <2>1, <2>2 DEF Fated
<1>. QED BY <1>1, <1>10, <1>11, <1>12, <1>14, <1>15, <1>16, <1>17, <1>18, <1>19 DEF Sound, Moved, r

(* b is a turned off, if it was not: it sends nothing, and may give up.    *)
Silenced(a, b) ==
  /\ b.state = "off" /\ (b.queue = a.queue \/ b.queue = <<>>) /\ b.made = a.made
  /\ a.refused \subseteq b.refused /\ GivenUp(b)
  /\ b.ended = a.ended /\ b.finalSent = a.finalSent
(* Turning off takes no fate back.                                         *)
LEMMA SilencedSound == ASSUME NEW a, NEW b, NEW w, NEW s, Sound(a, w, s), Silenced(a, b)
  PROVE Sound(b, w, s) /\ Fated(a, b, w)
<1>1. /\ b.state = "off" /\ b.made = a.made /\ a.refused \subseteq b.refused
      /\ b.ended = a.ended /\ b.finalSent = a.finalSent /\ GivenUp(b)
  BY DEF Silenced
<1>2. Live(b) \subseteq Live(a)
  BY <1>1 DEF Live
<1>3. b.queue = a.queue \/ (b.queue = <<>> /\ DOMAIN b.queue = {} /\ Len(b.queue) = 0)
  BY DEF Silenced
<1>4. RingOrdered(b.queue, w, b.ended)
  <2>1. CASE b.queue = a.queue
    BY <1>1, <2>1 DEF Sound
  <2>2. CASE DOMAIN b.queue = {}
    BY <2>2 DEF RingOrdered
  <2>. QED BY <1>3, <2>1, <2>2
<1>5. BatchesOrdered(b, w)
  BY <1>1, <1>3 DEF Sound, BatchesOrdered
<1>6. HeaderInv(b, w)
  BY <1>1, <1>3 DEF Sound, HeaderInv
<1>7. FinalInv(b, w)
  BY <1>1, <1>3 DEF Sound, FinalInv, HasFrames
<1>8. AllScrubbed(b, s)
  BY <1>1, <1>3 DEF Sound, AllScrubbed
<1>9. Placed(b, w) /\ Counted(b, w)
  BY <1>1, <1>2, <1>3 DEF Sound, Placed, Counted
<1>10. Fated(a, b, w)
  BY <1>1, <1>2, <1>3 DEF Fated, Holding, Shipped
<1>. QED BY <1>1, <1>4, <1>5, <1>6, <1>7, <1>8, <1>9, <1>10 DEF Sound

-----------------------------------------------------------------------------
(* The helpers, and the handlers they are composed to.                     *)

(* A good transport whose records are accounted for; b, one a turns into,  *)
(* off or not.                                                             *)
Fit(a, w, s) == /\ Good(a) /\ Sound(a, w, s)
                /\ w \in Nat /\ w <= MaxSeq + 2 /\ s \in BOOLEAN
Turns(a, b, w, s) == Fit(b, w, s) /\ Fated(a, b, w)
Goes(a, b, w, s) == Turns(a, b, w, s) /\ (b.state = "off" => a.state = "off")

(* Two steps after one another.                                            *)
LEMMA GoesThen == ASSUME NEW a, NEW b, NEW c, NEW w, NEW s, Goes(a, b, w, s), Goes(b, c, w, s)
  PROVE Goes(a, c, w, s)
  BY MovedThen DEF Goes, Turns, Moved, Fit
(* A step that keeps the transport good and the records accounted for.     *)
LEMMA GoesMoved == ASSUME NEW a, NEW b, NEW w, NEW s, Fit(a, w, s), Good(b), Moved(a, b, w, s)
  PROVE Goes(a, b, w, s)
  BY DEF Goes, Turns, Moved, Fit
(* None at all.                                                            *)
LEMMA GoesNowhere == ASSUME NEW a, NEW w, NEW s, Fit(a, w, s)
  PROVE Goes(a, a, w, s)
<1>1. Steady(a, a)
  BY DEF Steady, Fit, Sound, GivenUp
<1>. QED BY <1>1, SteadyMoved, GoesMoved DEF Fit

(* Turning off.                                                            *)
LEMMA OffTurns == ASSUME NEW a, NEW w, NEW s, Fit(a, w, s)
  PROVE Turns(a, Off(a), w, s) /\ Off(a).state = "off"
<1>1. a \in Transport /\ Good(Off(a)) /\ Off(a).state = "off"
  BY OffGood DEF Fit, Good
<1>2. Silenced(a, Off(a))
  BY <1>1 DEF Silenced, Off, Transport, Fit, Sound, GivenUp
<1>. QED BY <1>1, <1>2, SilencedSound DEF Fit, Turns

(* Ending the session: nothing is left to arm a timer for.                 *)
LEMMA FinishGoes == ASSUME NEW a, NEW w, NEW s, Fit(a, w, s), ~a.retryTimer
  PROVE Goes(a, Finish(a), w, s) /\ Armed(Finish(a)) /\ ~Loops(Finish(a))
<1>1. a \in Transport /\ Good(Finish(a))
  BY FinishGood DEF Fit, Good
<1>2. Finish(a).state \in {"off", "ended"} /\ (Finish(a).state = "off" <=> a.state = "off")
  BY <1>1 DEF Finish, Transport
<1>3. Steady(a, Finish(a))
  BY <1>1, <1>2 DEF Steady, Finish, Transport, Fit, Sound, GivenUp
<1>. QED BY <1>1, <1>2, <1>3, SteadyMoved, GoesMoved DEF Fit, Armed, CanSend, Loops

(* Arming the flush timer.                                                 *)
LEMMA ArmGoes == ASSUME NEW a, NEW w, NEW s, Fit(a, w, s)
  PROVE Goes(a, ArmFlushTimer(a), w, s) /\ Armed(ArmFlushTimer(a))
<1> DEFINE b == ArmFlushTimer(a)
<1>1. a \in Transport /\ Good(b)
  BY ArmGood DEF Fit, Good
<1>2. b.state = a.state /\ b.inFlight = a.inFlight /\ b.queue = a.queue
      /\ (CanSend(a) /\ HasFrames(a.queue) => b.flushTimer)
  BY <1>1 DEF ArmFlushTimer, Transport
<1>3. Steady(a, b)
  BY <1>1, <1>2 DEF Steady, ArmFlushTimer, Transport, Fit, Sound, GivenUp
<1>4. Armed(b)
  BY <1>2 DEF Armed, CanSend
<1>. QED BY <1>1, <1>2, <1>3, <1>4, SteadyMoved, GoesMoved DEF Fit

(* Keeping the ring within its cap.                                        *)
LEMMA EvictGoes == ASSUME NEW a, NEW w, NEW s, Fit(a, w, s), NEW cap
  PROVE Goes(a, EvictToCap(a, cap), w, s)
  BY EvictGood, EvictSound, GoesMoved DEF Fit, Good

(* The batch just built was not given up.                                  *)
LEMMA Fresh == ASSUME NEW a, NEW w, NEW s, Fit(a, w, s), NEW c, Builds(a, c),
    c.refused = a.refused
  PROVE Len(c.made) \in Nat /\ Len(c.made) # NoBatch /\ Len(c.made) \notin c.refused
<1>1. a.made \in Seq(Batch) /\ DOMAIN a.made = 1..Len(a.made)
  BY DEF Fit, Good, Transport
<1>2. PICK b \in Batch : c.made = Append(a.made, b)
  BY DEF Builds
<1>3. Len(c.made) = Len(a.made) + 1 /\ Len(a.made) \in Nat
  BY <1>1, <1>2, AppendBatch
<1>. QED BY <1>1, <1>3 DEF Fit, Sound, GivenUp, NoBatch

(* Sending the batch just built moves no record.                           *)
LEMMA SendNewSteady == ASSUME NEW c \in Transport, NEW throws \in BOOLEAN,
    Len(c.made) \notin c.refused
  PROVE LET b == SendNew(c, throws)
        IN /\ Steady(c, b) /\ Steady(c, [b EXCEPT !.flushTimer = FALSE])
           /\ b.state = c.state /\ [b EXCEPT !.flushTimer = FALSE].state = c.state
           /\ b.inFlight = Len(c.made) /\ [b EXCEPT !.flushTimer = FALSE].inFlight = Len(c.made)
<1>1. CASE throws
  BY <1>1 DEF SendNew, AwaitRetry, Steady, Transport
<1>2. CASE ~throws
  BY <1>2 DEF SendNew, Request, Steady, Transport
<1>. QED BY <1>1, <1>2

(* pump leaves nothing that could have been sent.                          *)
LEMMA PumpGoes == ASSUME NEW a, NEW w, NEW s, Fit(a, w, s), NEW throws \in BOOLEAN
  PROVE Goes(a, Pump(a, throws), w, s) /\ Armed(Pump(a, throws))
<1> DEFINE b == Pump(a, throws)
<1>1. a \in Transport /\ Good(b) /\ w \in Nat /\ w <= MaxSeq + 2 /\ s \in BOOLEAN /\ Sound(a, w, s)
  BY PumpGood DEF Fit, Good
<1>2. CASE CanSend(a) /\ HasFrames(a.queue)
  <2> DEFINE c == Cut(a)
  <2>1. b = [SendNew(c, throws) EXCEPT !.flushTimer = FALSE]
    BY <1>2 DEF Pump
  <2>2. a.state = "open"
    BY <1>2 DEF CanSend
  <2>3. Moved(a, c, w, s)
    BY <1>1, <1>2, <2>2, CutSound
  <2>4. Builds(a, c) /\ c \in Transport /\ c.refused = a.refused /\ c.state = "open"
    BY <1>1, <2>2, CutType, ZenonT(60) DEF Builds, Cut, Transport
  <2> HIDE DEF b, c
  <2>5. Len(c.made) # NoBatch /\ Len(c.made) \notin c.refused
    BY <2>4, Fresh
  <2>6. Steady(c, b) /\ b.state = c.state /\ b.inFlight = Len(c.made)
    BY <2>1, <2>4, <2>5, SendNewSteady
  <2>7. Moved(c, b, w, s)
    BY <2>3, <2>6, SteadyMoved DEF Moved
  <2>8. Moved(a, b, w, s)
    BY <2>3, <2>7, MovedThen
  <2>9. Goes(a, b, w, s)
    BY <1>1, <2>8, GoesMoved DEF b
  <2>10. Armed(b)
    BY <2>5, <2>6 DEF Armed, CanSend
  <2>. QED BY <2>9, <2>10 DEF b
<1>3. CASE CanSend(a) /\ ~HasFrames(a.queue) /\ a.ended /\ ~a.finalSent
  <2> DEFINE c == CutFinalEmpty(a)
  <2>1. b = SendNew(c, throws)
    BY <1>3 DEF Pump
  <2>2. a.state = "open"
    BY <1>3 DEF CanSend
  <2>3. Moved(a, c, w, s)
    BY <1>1, <1>3, <2>2, CutFinalEmptySound
  <2>4. Builds(a, c) /\ c \in Transport /\ c.refused = a.refused /\ c.state = "open"
    BY <1>1, <2>2, CutFinalEmptyType DEF Builds, CutFinalEmpty, Transport
  <2> HIDE DEF b, c
  <2>5. Len(c.made) # NoBatch /\ Len(c.made) \notin c.refused
    BY <2>4, Fresh
  <2>6. Steady(c, b) /\ b.state = c.state /\ b.inFlight = Len(c.made)
    BY <2>1, <2>4, <2>5, SendNewSteady
  <2>7. Moved(c, b, w, s)
    BY <2>3, <2>6, SteadyMoved DEF Moved
  <2>8. Moved(a, b, w, s)
    BY <2>3, <2>7, MovedThen
  <2>9. Goes(a, b, w, s)
    BY <1>1, <2>8, GoesMoved DEF b
  <2>10. Armed(b)
    BY <2>5, <2>6 DEF Armed, CanSend
  <2>. QED BY <2>9, <2>10 DEF b
<1>4. CASE ~(CanSend(a) /\ HasFrames(a.queue)) /\ ~(CanSend(a) /\ ~HasFrames(a.queue) /\ a.ended /\ ~a.finalSent)
  <2>1. b = a
    BY <1>4 DEF Pump
  <2>. QED BY <1>4, <2>1, GoesNowhere DEF Armed
<1>. QED BY <1>2, <1>3, <1>4

(* What follows an answer.                                                 *)
LEMMA AfterAnswerGoes == ASSUME NEW a, NEW w, NEW s, Fit(a, w, s), NEW aged \in BOOLEAN, NEW throws \in BOOLEAN
  PROVE Goes(a, AfterAnswer(a, aged, throws), w, s) /\ Armed(AfterAnswer(a, aged, throws))
<1> DEFINE p == IF Due(a, aged) THEN Pump(a, throws) ELSE a
<1>1. Goes(a, p, w, s)
  BY PumpGoes, GoesNowhere
<1> HIDE DEF p
<1>2. Goes(p, ArmFlushTimer(p), w, s) /\ Armed(ArmFlushTimer(p))
  BY <1>1, ArmGoes DEF Goes, Turns
<1>3. AfterAnswer(a, aged, throws) = ArmFlushTimer(p)
  BY DEF AfterAnswer, p
<1>. QED BY <1>1, <1>2, <1>3, GoesThen

(* The gates open.                                                         *)
LEMMA OpenGoes == ASSUME NEW a, NEW w, NEW s, Fit(a, w, s), a.state # "off", NEW throws \in BOOLEAN
  PROVE Goes(a, Open(a, throws), w, s) /\ Armed(Open(a, throws))
<1> DEFINE o == [a EXCEPT !.state = "open"]
           p == Pump(o, throws)
<1>1. Good(o) /\ o.state = "open" /\ Steady(a, o)
  BY DEF Fit, Good, Disciplined, Transport, States, NoBatch, Steady, Sound, GivenUp
<1> HIDE DEF o
<1>2. Goes(a, o, w, s)
  BY <1>1, SteadyMoved, GoesMoved DEF Fit
<1>3. Goes(o, p, w, s)
  BY <1>2, PumpGoes DEF Goes, Turns
<1> HIDE DEF p
<1>4. Goes(p, ArmFlushTimer(p), w, s) /\ Armed(ArmFlushTimer(p))
  BY <1>3, ArmGoes DEF Goes, Turns
<1>5. Open(a, throws) = ArmFlushTimer(p)
  BY DEF Open, p, o
<1>. QED BY <1>2, <1>3, <1>4, <1>5, GoesThen

(* Giving up the batch in flight, of a transport off or on.                *)
LEMMA RefusedTurns == ASSUME NEW a \in Transport, NEW w \in Nat, NEW s \in BOOLEAN, w <= MaxSeq + 2,
    Sound(a, w, s), a.inFlight \in 1..Len(a.made), ~a.retryTimer,
    NEW aged \in BOOLEAN, NEW throws \in BOOLEAN
  PROVE LET b == Refused(a, a.inFlight, aged, throws) IN Turns(a, b, w, s) /\ Armed(b)
<1> DEFINE n == a.inFlight
           x == a.made[n]
           idle == [a EXCEPT !.inFlight = NoBatch, !.pending = FALSE, !.refused = @ \cup {n}]
           back == [idle EXCEPT !.queue = Marker(x.lost \cup Span(x.recs)) \o @,
                                !.droppedRecords = @ + Cardinality(Span(x.recs))]
           c == Refused(a, n, aged, throws)
<1>1. /\ n \in DOMAIN a.made /\ n \in Live(a) /\ n \in Nat /\ n # NoBatch
      /\ x \in Batch /\ x.lost \in SUBSET Nat /\ x.recs = Span(x.recs)
  BY Fields, BatchesAre DEF Sound, GivenUp, BatchesOrdered, Live, NoBatch
<1>2. c = IF x.hasHeader THEN Off(idle)
          ELSE IF x.final THEN Finish(back) ELSE AfterAnswer(back, aged, throws)
  BY DEF Refused
<1>3. CASE x.hasHeader
  <2>1. Good(Off(idle)) /\ Off(idle).state = "off"
    <3>1. idle \in Transport
      <4>1. a.refused \cup {n} \in SUBSET Nat
        BY <1>1, Fields
      <4>. QED BY <4>1 DEF Transport, NoBatch
    <3>2. Idles(a, idle)
      BY <3>1 DEF Idles, Transport
    <3> HIDE DEF idle
    <3>. QED BY <3>2, IdlesGood, OffGood
  <2>2. Silenced(a, Off(idle))
    <3>1. /\ idle.queue = a.queue /\ idle.made = a.made /\ idle.refused = a.refused \cup {n}
          /\ idle.inFlight = NoBatch /\ idle.ended = a.ended /\ idle.finalSent = a.finalSent
      BY DEF Transport
    <3>2. GivenUp(idle)
      BY <1>1, <3>1, Fields DEF Sound, GivenUp, NoBatch
    <3>3. idle \in Transport
      <4>1. a.refused \cup {n} \in SUBSET Nat
        BY <1>1, Fields
      <4>. QED BY <4>1 DEF Transport, NoBatch
    <3> HIDE DEF idle
    <3>4. Silenced(idle, Off(idle))
      BY <2>1, <3>2, <3>3 DEF Silenced, Off, Transport, GivenUp
    <3>. QED BY <3>1, <3>4 DEF Silenced
  <2> HIDE DEF idle
  <2>3. Sound(Off(idle), w, s) /\ Fated(a, Off(idle), w)
    BY <2>2, SilencedSound
  <2>. QED BY <1>2, <1>3, <2>1, <2>3 DEF Turns, Fit, Armed, CanSend
<1>4. CASE ~x.hasHeader
  <2>1. GivesUp(a, back, n)
    BY <1>1 DEF GivesUp, Transport
  <2>2. Idles(a, back)
    <3>1. Marker(x.lost \cup Span(x.recs)) \in Seq(Entry)
      BY <1>1, SpanType, DropType DEF Marker
    <3>2. Marker(x.lost \cup Span(x.recs)) \o a.queue \in Seq(Entry) /\ a.refused \cup {n} \in SUBSET Nat
          /\ a.droppedRecords + Cardinality(Span(x.recs)) \in Int
      BY <1>1, <3>1, Fields, SpanType
    <3>3. back \in Transport
      BY <3>2 DEF Transport, NoBatch
    <3>. QED BY <3>3 DEF Idles, Transport
  <2> HIDE DEF back
  <2>3. Good(back) /\ ~back.retryTimer
    BY <2>2, IdlesGood DEF Idles
  <2>4. Moved(a, back, w, s)
    BY <1>1, <2>1, GivesUpSound
  <2>5. Fit(back, w, s) /\ Goes(a, back, w, s)
    BY <2>3, <2>4 DEF Fit, Goes, Turns, Moved
  <2>6. Goes(back, Finish(back), w, s) /\ Armed(Finish(back))
    BY <2>3, <2>5, FinishGoes
  <2>7. Goes(back, AfterAnswer(back, aged, throws), w, s) /\ Armed(AfterAnswer(back, aged, throws))
    BY <2>5, AfterAnswerGoes
  <2>8. Goes(back, c, w, s) /\ Armed(c)
    BY <1>2, <1>4, <2>6, <2>7
  <2>9. Goes(a, c, w, s)
    BY <2>5, <2>8, GoesThen
  <2>. QED BY <2>8, <2>9 DEF Goes
<1>. QED BY <1>3, <1>4

(* What leaves the records alone first, and then turns.                    *)
LEMMA SteadyThen == ASSUME NEW a, NEW b, NEW c, NEW w, NEW s, Sound(a, w, s), Steady(a, b), Turns(b, c, w, s)
  PROVE Turns(a, c, w, s)
  BY SteadySound, FatedThen DEF Turns, Steady
(* A step that leaves the records alone.                                   *)
LEMMA SteadyGoes == ASSUME NEW a, NEW b, NEW w, NEW s, Fit(a, w, s), Steady(a, b), Good(b),
    b.state = "off" => a.state = "off"
  PROVE Goes(a, b, w, s)
  BY SteadyMoved, GoesMoved DEF Fit

(* A failed request retries or gives up.                                   *)
LEMMA FailedTurns == ASSUME NEW a \in Transport, NEW w \in Nat, NEW s \in BOOLEAN, w <= MaxSeq + 2,
    Sound(a, w, s), a.inFlight \in 1..Len(a.made), ~a.retryTimer,
    NEW aged \in BOOLEAN, NEW throws \in BOOLEAN
  PROVE LET b == Failed(a, aged, throws) IN Turns(a, b, w, s) /\ Armed(b)
<1> DEFINE b == Failed(a, aged, throws)
<1>1. Good(b)
  BY FailedGood
<1>2. CASE a.state = "off"
  <2>1. b = [a EXCEPT !.pending = FALSE]
    BY <1>2 DEF Failed
  <2>2. Steady(a, b) /\ b.state = "off"
    BY <1>2, <2>1 DEF Steady, Transport, Sound, GivenUp
  <2>. QED BY <1>1, <2>2, SteadySound DEF Turns, Fit, Armed, CanSend
<1>3. CASE a.state # "off" /\ a.attempts < MaxRetries
  <2>1. b = AwaitRetry(a, a.inFlight, a.attempts + 1)
    BY <1>3 DEF Failed
  <2>2. Steady(a, b) /\ b.inFlight # NoBatch
    BY <1>3, <2>1 DEF Steady, AwaitRetry, Transport, Sound, GivenUp, NoBatch
  <2>. QED BY <1>1, <2>2, SteadySound DEF Turns, Fit, Armed, CanSend
<1>4. CASE a.state # "off" /\ ~(a.attempts < MaxRetries)
  <2>1. b = Refused(a, a.inFlight, aged, throws)
    BY <1>4 DEF Failed
  <2>. QED BY <2>1, RefusedTurns
<1>. QED BY <1>2, <1>3, <1>4

(* A frame is taken by a transport that has not ended, or by its end.      *)
LEMMA EnqueueTurns == ASSUME NEW a, NEW w, NEW v \in Nat, NEW s, NEW e \in Entry, NEW throws \in BOOLEAN,
    Fit(a, w, s), Arrives(e, w, v), v <= MaxSeq + 2, a.state # "off",
    ~a.finalSent, \A i \in DOMAIN a.queue : a.queue[i].kind # "End",
    e.kind # "drop", e.kind = "End" => a.ended, s => e.scrubbed, a.ended => v >= 2
  PROVE LET b == Enqueue(a, e, throws)
        IN Fit(b, v, s) /\ Fated(a, b, w) /\ b.state # "off" /\ Armed(b)
<1> DEFINE held == [a EXCEPT !.queue = Append(@, e)]
           pumped == Pump(held, throws)
           cut == EvictToCap(pumped, ringBytes)
           b == Enqueue(a, e, throws)
<1>1. a \in Transport /\ w \in Nat /\ s \in BOOLEAN /\ Sound(a, w, s) /\ Good(a)
  BY DEF Fit, Good
<1>2. Good(held) /\ held.state = a.state
  <2>1. Append(a.queue, e) \in Seq(Entry)
    BY <1>1, Fields
  <2>. QED BY <1>1, <2>1 DEF Good, Disciplined, Transport
<1>3. Extends(a, held, e)
  <2>1. e.lost = {} /\ Cardinality({}) = 0
    BY EntryIs, FS_EmptySet DEF EntryLike
  <2>2. a.droppedRecords = a.droppedRecords + Cardinality(e.lost)
    BY <1>1, <2>1, Fields
  <2>. QED BY <1>1, <2>2 DEF Extends, Transport
<1> HIDE DEF held
<1>4. Sound(held, v, s) /\ Fated(a, held, w)
  BY <1>1, <1>3, ExtendsSound
<1>5. Fit(held, v, s)
  BY <1>1, <1>2, <1>4 DEF Fit
<1>6. Goes(held, pumped, v, s) /\ Goes(held, held, v, s)
  BY <1>5, PumpGoes, GoesNowhere
<1> HIDE DEF pumped
<1>7. Goes(pumped, cut, v, s)
  BY <1>6, EvictGoes DEF Goes, Turns
<1> HIDE DEF cut
<1>8. Goes(held, cut, v, s)
  BY <1>6, <1>7, GoesThen
<1>9. PICK c : b = ArmFlushTimer(c) /\ Goes(held, c, v, s)
  <2>1. b = ArmFlushTimer(cut) \/ b = ArmFlushTimer(pumped) \/ b = ArmFlushTimer(held)
    BY DEF Enqueue, held, pumped, cut
  <2>. QED BY <1>6, <1>8, <2>1
<1> HIDE DEF b
<1>10. Goes(c, b, v, s) /\ Armed(b)
  BY <1>9, ArmGoes DEF Goes, Turns
<1>11. Goes(held, b, v, s)
  BY <1>9, <1>10, GoesThen
<1>12. Fated(held, b, w) /\ b.state # "off" /\ Fit(b, v, s)
  <2>1. \A n \in 1..w - 2 : n \in 1..v - 2
    BY DEF Arrives
  <2>. QED BY <1>2, <1>11, <2>1 DEF Goes, Turns, Fated
<1>13. Fated(a, b, w)
  BY <1>4, <1>12 DEF Fated
<1>14. Fit(b, v, s) /\ Fated(a, b, w) /\ b.state # "off" /\ Armed(b)
  BY <1>10, <1>12, <1>13
<1>. QED BY <1>14 DEF b

(* end has been called.                                                    *)
LEMMA EndingGoes == ASSUME NEW a, NEW w, NEW s, Fit(a, w, s), w >= 2
  PROVE LET b == [a EXCEPT !.ended = TRUE]
        IN Goes(a, b, w, s) /\ b.ended /\ b.state = a.state /\ b.queue = a.queue /\ b.finalSent = a.finalSent
<1> DEFINE b == [a EXCEPT !.ended = TRUE]
<1>1. a \in Transport /\ Sound(a, w, s)
  BY DEF Fit, Good
<1>2. Good(b)
  BY DEF Fit, Good, Disciplined, Transport
<1>3. /\ b.queue = a.queue /\ b.made = a.made /\ b.refused = a.refused /\ b.inFlight = a.inFlight
      /\ b.droppedRecords = a.droppedRecords /\ b.ended /\ b.finalSent = a.finalSent /\ b.state = a.state
  BY <1>1 DEF Transport
<1> HIDE DEF b
<1>4. RingOrdered(b.queue, w, b.ended) /\ BatchesOrdered(b, w)
  BY <1>1, <1>3 DEF Sound, RingOrdered, BatchesOrdered
<1>5. HeaderInv(b, w) /\ FinalInv(b, w) /\ AllScrubbed(b, s)
  BY <1>1, <1>3 DEF Sound, HeaderInv, FinalInv, AllScrubbed
<1>6. Live(b) = Live(a)
  BY <1>3 DEF Live
<1>7. Placed(b, w) /\ GivenUp(b)
  BY <1>1, <1>3, <1>6, ZenonT(60) DEF Sound, Placed, GivenUp
<1>8. Counted(b, w)
  BY <1>1, <1>3, <1>6 DEF Sound, Counted, Dropped
<1>9. Fated(a, b, w)
  BY <1>3, <1>6 DEF Fated, Holding, Shipped
<1>10. Goes(a, b, w, s)
  BY <1>2, <1>3, <1>4, <1>5, <1>7, <1>8, <1>9 DEF Goes, Turns, Fit, Sound
<1>. QED BY <1>3, <1>10 DEF b

(* drainNow up to its loop.                                                *)
LEMMA NotLooping == ASSUME NEW a, ~Loops(a) PROVE Armed(a)
  BY DEF Armed, Loops, CanSend
(* It loses no record, though the page may never run again.                *)
LEMMA DrainHeadGoes == ASSUME NEW a, NEW w, NEW s, Fit(a, w, s)
  PROVE Goes(a, DrainHead(a), w, s)
<1>1. CASE a.state # "open"
  BY <1>1, GoesNowhere DEF DrainHead
<1>2. CASE a.state = "open"
  <2> DEFINE left == LeaveWaiting(a)
             c == CutFinalEmpty(left)
             b == Finish(SendLeaving(c))
  <2>1. Good(left) /\ left.state \in {"open", "ended"}
    BY <1>2, LeaveWaitingGood DEF Fit
  <2>2. Steady(a, left)
    <3>1. a \in Transport /\ a.inFlight \notin a.refused /\ NoBatch \notin a.refused
      BY Fields DEF Fit, Good, Sound, GivenUp, NoBatch
    <3>2. CASE a.inFlight # NoBatch /\ a.retryTimer
      BY <1>2, <3>1, <3>2 DEF LeaveWaiting, Finish, Steady, Transport
    <3>3. CASE ~(a.inFlight # NoBatch /\ a.retryTimer)
      BY <3>1, <3>3 DEF LeaveWaiting, Steady
    <3>. QED BY <3>2, <3>3
  <2>3. Goes(a, left, w, s)
    BY <2>1, <2>2, SteadyGoes
  <2>4. DrainHead(a) = IF left.state = "open" /\ left.ended /\ ~left.finalSent /\ ~HasFrames(left.queue)
                       THEN b ELSE left
    BY <1>2 DEF DrainHead
  <2>5. Fit(left, w, s)
    BY <2>3 DEF Goes, Turns
  <2> HIDE DEF left
  <2>6. CASE left.state = "open" /\ left.ended /\ ~left.finalSent /\ ~HasFrames(left.queue)
    <3>1. Moved(left, c, w, s) /\ Good(c) /\ c.state = "open"
      BY <2>5, <2>6, CutFinalEmptySound, CutGood DEF Fit, Good
    <3>2. Goes(left, c, w, s) /\ c \in Transport
      BY <2>5, <3>1, GoesMoved DEF Good
    <3> HIDE DEF c
    <3>3. Steady(c, b) /\ b.state = "ended"
      BY <3>1, <3>2 DEF Steady, Finish, SendLeaving, Transport, Moved, Sound, GivenUp
    <3>4. Good(b)
      BY <2>4, <2>6, DrainHeadGood DEF Fit
    <3>5. Goes(c, b, w, s)
      BY <3>2, <3>3, <3>4, SteadyGoes DEF Goes, Turns
    <3>6. Goes(left, b, w, s)
      BY <3>2, <3>5, GoesThen
    <3>. QED BY <2>3, <2>4, <2>6, <3>6, GoesThen
  <2>7. CASE ~(left.state = "open" /\ left.ended /\ ~left.finalSent /\ ~HasFrames(left.queue))
    BY <2>3, <2>4, <2>7
  <2>. QED BY <2>6, <2>7
<1>. QED BY <1>1, <1>2

-----------------------------------------------------------------------------
(* One lemma per group of actions: the records stay accounted for, and no  *)
(* fate goes back.                                                         *)

Accounts == /\ RecordsInv' /\ Fated(t, t', written)
            /\ written' = written \/ (written' = written + 1 /\ t'.state # "off")

(* The parts of the invariant.                                             *)
LEMMA InvFit == ASSUME Inv, RecordsInv
  PROVE /\ Fit(t, written, siteLists) /\ t \in Transport /\ Good(t)
        /\ Sound(t, written, siteLists) /\ written \in Nat /\ siteLists \in BOOLEAN
        /\ written <= MaxSeq + 2
  BY InvGood DEF RecordsInv, Fit, TypeOK

(* What a step has to show.                                                *)
LEMMA StepAccounts == ASSUME RecordsInv, Fit(t', written', siteLists'), Fated(t, t', written),
    halted' => written' >= 2, draining' => Loops(t'), ~draining' => Armed(t'),
    written' = written \/ (written' = written + 1 /\ t'.state # "off")
  PROVE Accounts
  BY DEF Accounts, RecordsInv, Fit

(* A handler, outside drainNow's loop.                                     *)
LEMMA HandlerAccounts == ASSUME Inv, RecordsInv, ~draining, UNCHANGED Idle,
    Turns(t, t', written, siteLists), Armed(t')
  PROVE Accounts
<1>1. written' = written /\ siteLists' = siteLists /\ ~draining' /\ (halted' => written' >= 2)
  BY DEF Idle, RecordsInv
<1>. QED BY <1>1, StepAccounts DEF Turns

(* The constructor's transport has no record yet.                          *)
LEMMA InitRecords == Init => RecordsInv
<1> SUFFICES ASSUME Init PROVE RecordsInv
  OBVIOUS
<1>1. PICK s : t = New(s) /\ s # "open"
  BY DEF Init
<1>2. /\ t.queue = <<>> /\ t.made = <<>> /\ t.refused = {} /\ t.inFlight = NoBatch
      /\ ~t.ended /\ ~t.finalSent /\ t.droppedRecords = 0 /\ t.state = s
      /\ written = 0 /\ ~siteLists /\ ~halted /\ ~draining
  BY <1>1 DEF Init, New
<1>3. DOMAIN t.queue = {} /\ DOMAIN t.made = {} /\ Len(t.queue) = 0 /\ Live(t) = {}
  BY <1>2 DEF Live
<1>4. 1..written - 2 = {}
  BY <1>2
<1>5. RingOrdered(t.queue, written, t.ended) /\ BatchesOrdered(t, written)
  BY <1>3 DEF RingOrdered, BatchesOrdered
<1>6. HeaderInv(t, written) /\ FinalInv(t, written) /\ AllScrubbed(t, siteLists)
  BY <1>2, <1>3 DEF HeaderInv, FinalInv, AllScrubbed
<1>7. Placed(t, written) /\ GivenUp(t)
  BY <1>2, <1>3, <1>4 DEF Placed, GivenUp
<1>8. Counted(t, written)
  <2>1. Dropped(t, written) = {}
    BY <1>4 DEF Dropped
  <2>. QED BY <1>2, <2>1, FS_EmptySet DEF Counted
<1>9. Armed(t)
  BY <1>1, <1>2 DEF Armed, CanSend
<1>. QED BY <1>2, <1>5, <1>6, <1>7, <1>8, <1>9, MaxSeqAssumption DEF RecordsInv, Sound

(* Writing, the transport has not ended.                                   *)
LEMMA WritingIs == ASSUME Inv, RecordsInv, Writing
  PROVE /\ ~draining /\ t.state # "off" /\ ~t.ended /\ ~t.finalSent /\ Armed(t)
        /\ \A i \in DOMAIN t.queue : t.queue[i].kind # "End"
<1>1. FinalInv(t, written) /\ RingOrdered(t.queue, written, t.ended) /\ t.ended \in BOOLEAN
  BY InvFit, Fields DEF Sound
<1>. QED BY <1>1 DEF Writing, RecordsInv, FinalInv, RingOrdered

(* The fields of a frame.                                                  *)
LEMMA FrameIs == ASSUME NEW kind, NEW seq, NEW size
  PROVE LET e == Frame(kind, seq, size)
        IN e.kind = kind /\ e.seq = seq /\ e.lost = {} /\ e.scrubbed = siteLists
  BY DEF Frame

(* A record, or a frame before the first of them, arrives.                 *)
LEMMA FrameArrives == ASSUME NEW w \in Nat, NEW e, EntryLike(e), e.kind # "drop",
    e.kind = (IF w = 0 THEN "Header" ELSE IF w = 1 THEN "Env" ELSE "record"),
    e.seq = IF w < 2 THEN 0 ELSE w - 1
  PROVE Arrives(e, w, w + 1)
<1>1. e.lost = {}
  BY DEF EntryLike
<1>2. CASE w < 2
  <2>1. Names(e) = {}
    BY <1>1, <1>2 DEF Names
  <2>2. 1..w - 2 = {} /\ 1..(w + 1) - 2 = {}
    BY <1>2
  <2>. QED BY <1>2, <2>1, <2>2 DEF Arrives
<1>3. CASE w >= 2
  <2>1. Names(e) = {w - 1}
    BY <1>3 DEF Names
  <2>2. 1..(w + 1) - 2 = (1..w - 2) \cup {w - 1} /\ w - 1 \notin 1..w - 2
    BY <1>3
  <2>. QED BY <1>3, <2>1, <2>2 DEF Arrives
<1>. QED BY <1>2, <1>3
(* A record too large for any batch arrives as its drop.                   *)
LEMMA DropArrives == ASSUME NEW w \in Nat, w >= 2
  PROVE Arrives(Drop({w - 1}), w, w + 1)
<1> DEFINE e == Drop({w - 1})
<1>1. e \in Entry
  BY DropType, w - 1 \in Nat
<1>2. EntryLike(e) /\ e.kind = "drop" /\ e.lost = {w - 1}
  BY <1>1, EntryIs, DropIs
<1> HIDE DEF e
<1>3. Names(e) = {w - 1}
  BY <1>2 DEF Names
<1>4. 1..(w + 1) - 2 = (1..w - 2) \cup {w - 1} /\ w - 1 \notin 1..w - 2
  OBVIOUS
<1>5. Arrives(e, w, w + 1)
  BY <1>2, <1>3, <1>4 DEF Arrives
<1>. QED BY <1>5 DEF e

(* append of a frame, too large or not.                                    *)
LEMMA AppendFrameAccounts == ASSUME Inv, RecordsInv, Inv', NEW size \in Sizes, NEW throws \in BOOLEAN,
    AppendFrame(size, throws)
  PROVE Accounts
<1> DEFINE kind == CASE written = 0 -> "Header" [] written = 1 -> "Env"
                     [] OTHER -> "record"
           seq == IF kind = "record" THEN written - 1 ELSE 0
           e == Frame(kind, seq, size)
           dropped == [t EXCEPT !.queue = Append(@, Drop({seq})),
                                !.droppedRecords = @ + 1]
<1>1. /\ Writing /\ written < MaxSeq + 2 /\ written' = written + 1 /\ halted' = halted
      /\ draining' = draining /\ siteLists' = siteLists
      /\ t' = IF kind = "record" /\ size > MaxFrameBytes THEN dropped ELSE Enqueue(t, e, throws)
  BY DEF AppendFrame
<1>2. Fit(t, written, siteLists) /\ t \in Transport /\ written \in Nat /\ siteLists \in BOOLEAN
  BY InvFit
<1>3. /\ ~draining /\ t.state # "off" /\ ~t.ended /\ ~t.finalSent /\ Armed(t)
      /\ \A i \in DOMAIN t.queue : t.queue[i].kind # "End"
  BY <1>1, WritingIs
<1>4. written + 1 \in Nat /\ written + 1 <= MaxSeq + 2 /\ (halted => written + 1 >= 2)
  BY <1>1, <1>2, MaxSeqAssumption DEF RecordsInv
<1>5. Fit(t', written', siteLists') /\ Fated(t, t', written) /\ Armed(t') /\ t'.state # "off"
  <2>1. CASE kind = "record" /\ size > MaxFrameBytes
    <3>1. t' = dropped /\ written >= 2 /\ seq = written - 1 /\ seq \in Nat
      BY <1>1, <1>2, <2>1
    <3> HIDE DEF kind, seq
    <3>2. Drop({seq}) \in Entry /\ Drop({seq}).kind = "drop" /\ Drop({seq}).lost = {seq} /\ Drop({seq}).scrubbed
      BY <3>1, DropType, DropIs
    <3>3. Cardinality({seq}) = 1
      BY FS_Singleton
    <3>4. Extends(t, t', Drop({seq}))
      BY <1>2, <3>1, <3>2, <3>3 DEF Extends, Transport
    <3>5. Arrives(Drop({seq}), written, written + 1)
      BY <1>2, <3>1, DropArrives
    <3>6. Sound(t', written + 1, siteLists) /\ Fated(t, t', written)
      BY <1>2, <1>3, <1>4, <3>2, <3>4, <3>5, ExtendsSound DEF Fit
    <3>7. Armed(t') /\ t'.state # "off"
      <4>1. t.queue \in Seq(Entry) /\ DOMAIN t.queue = 1..Len(t.queue) /\ Len(t.queue) \in Nat
        BY <1>2, Fields
      <4>2. t'.queue = Append(t.queue, Drop({seq})) /\ t'.state = t.state /\ t'.inFlight = t.inFlight
            /\ t'.flushTimer = t.flushTimer
        BY <1>2, <3>1 DEF Transport
      <4>3. HasFrames(t'.queue) => HasFrames(t.queue)
        <5>1. ASSUME NEW i \in DOMAIN Append(t.queue, Drop({seq})), IsFrame(Append(t.queue, Drop({seq}))[i])
              PROVE i \in DOMAIN t.queue /\ IsFrame(t.queue[i])
          BY <3>2, <4>1, <5>1 DEF IsFrame
        <5>. QED BY <4>2, <5>1 DEF HasFrames
      <4>. QED BY <1>3, <4>2, <4>3 DEF Armed, CanSend
    <3>. QED BY <1>1, <1>2, <1>4, <3>6, <3>7, InvGood DEF Fit, Inv, Good, TypeOK
  <2>2. CASE ~(kind = "record" /\ size > MaxFrameBytes)
    <3>1. kind \in Pinned \cup {"record"} /\ seq \in Nat /\ kind # "End" /\ kind # "drop"
          /\ kind = (IF written = 0 THEN "Header" ELSE IF written = 1 THEN "Env" ELSE "record")
          /\ seq = IF written < 2 THEN 0 ELSE written - 1
      BY <1>2 DEF Pinned
    <3> HIDE DEF kind, seq
    <3>2. e \in Entry
      BY <1>2, <3>1, FrameType
    <3>3. e.kind = kind /\ e.seq = seq /\ e.scrubbed = siteLists
      BY FrameIs
    <3> HIDE DEF e
    <3>4. Arrives(e, written, written + 1)
      BY <1>2, <3>1, <3>2, <3>3, EntryIs, FrameArrives
    <3>5. t' = Enqueue(t, e, throws)
      BY <1>1, <2>2
    <3>. QED BY <1>1, <1>2, <1>3, <1>4, <3>1, <3>2, <3>3, <3>4, <3>5, EnqueueTurns, ZenonT(60)
  <2>. QED BY <2>1, <2>2
<1>. QED BY <1>1, <1>3, <1>4, <1>5, StepAccounts

(* end with an End frame, unloading or not.                                *)
LEMMA EndAccounts == ASSUME Inv, RecordsInv, NEW unloading \in BOOLEAN, NEW throws \in BOOLEAN,
    End(unloading, throws)
  PROVE Accounts
<1> DEFINE ending == [t EXCEPT !.ended = TRUE]
           e == Frame("End", 0, 1)
           held == Enqueue(ending, e, throws)
<1>1. /\ Writing /\ written >= 2 /\ written' = written /\ halted' = halted /\ siteLists' = siteLists
      /\ t' = IF unloading THEN DrainHead(held) ELSE Pump(held, throws)
      /\ draining' = (unloading /\ Loops(t'))
  BY DEF End
<1>2. /\ Fit(t, written, siteLists) /\ t \in Transport /\ written \in Nat /\ siteLists \in BOOLEAN
      /\ written <= MaxSeq + 2
  BY InvFit
<1>3. t.state # "off" /\ ~t.finalSent /\ \A i \in DOMAIN t.queue : t.queue[i].kind # "End"
  BY <1>1, WritingIs
<1>4. /\ Goes(t, ending, written, siteLists) /\ ending.ended /\ ending.state = t.state
      /\ ending.queue = t.queue /\ ending.finalSent = t.finalSent
  BY <1>1, <1>2, EndingGoes
<1> HIDE DEF ending
<1>5. e \in Entry
  BY <1>2, BytesAssumption, FrameType DEF Pinned
<1>6. e.kind = "End" /\ e.lost = {} /\ e.scrubbed = siteLists
  BY FrameIs
<1> HIDE DEF e
<1>7. Arrives(e, written, written)
  <2>1. Names(e) = {}
    BY <1>6 DEF Names
  <2>. QED BY <1>1, <1>2, <1>5, <1>6, <2>1, EntryIs DEF Arrives
<1>8. Fit(held, written, siteLists) /\ Fated(ending, held, written) /\ held.state # "off"
  BY <1>1, <1>2, <1>3, <1>4, <1>5, <1>6, <1>7, EnqueueTurns DEF Goes, Turns
<1> HIDE DEF held
<1>9. Goes(ending, held, written, siteLists)
  BY <1>8 DEF Goes, Turns
<1>10. Goes(held, t', written, siteLists) /\ (~draining' => Armed(t'))
  <2>1. CASE unloading
    BY <1>1, <1>8, <2>1, DrainHeadGoes, NotLooping
  <2>2. CASE ~unloading
    BY <1>1, <1>8, <2>2, PumpGoes
  <2>. QED BY <2>1, <2>2
<1>11. Goes(t, t', written, siteLists)
  BY <1>4, <1>9, <1>10, GoesThen
<1>. QED BY <1>1, <1>10, <1>11, StepAccounts DEF Goes, Turns

(* Every step of the recorder's side.                                      *)
LEMMA RecordingAccounts == ASSUME Inv, RecordsInv, Inv', Recording
  PROVE Accounts
<1> PICK throws \in BOOLEAN :
      \/ \E size \in Sizes : AppendFrame(size, throws)
      \/ \E unloading \in BOOLEAN : End(unloading, throws)
      \/ Halt(throws)
      \/ StopAfterFault(throws)
      \/ Flush(throws)
  BY DEF Recording
<1>1. /\ Fit(t, written, siteLists) /\ t \in Transport /\ written \in Nat /\ siteLists \in BOOLEAN
  BY InvFit
<1>2. Goes(t, Pump(t, throws), written, siteLists) /\ Armed(Pump(t, throws))
  BY <1>1, PumpGoes
<1>3. CASE \E size \in Sizes : AppendFrame(size, throws)
  BY <1>3, AppendFrameAccounts
<1>4. CASE \E unloading \in BOOLEAN : End(unloading, throws)
  BY <1>4, EndAccounts
<1>5. CASE Halt(throws)
  <2>1. /\ ~draining /\ written >= 2 /\ t' = Pump(t, throws)
        /\ written' = written /\ siteLists' = siteLists /\ draining' = draining
    BY <1>5 DEF Halt, Writing
  <2>. QED BY <1>2, <2>1, StepAccounts DEF Goes, Turns
<1>6. CASE StopAfterFault(throws)
  <2> DEFINE ending == [t EXCEPT !.ended = TRUE]
  <2>1. /\ ~draining /\ written >= 2 /\ t' = Pump(ending, throws) /\ UNCHANGED Idle
    BY <1>6 DEF StopAfterFault, Idle, RecordsInv
  <2>2. Goes(t, ending, written, siteLists)
    BY <1>1, <2>1, EndingGoes
  <2> HIDE DEF ending
  <2>3. Goes(ending, t', written, siteLists) /\ Armed(t')
    BY <2>1, <2>2, PumpGoes DEF Goes, Turns
  <2>4. Goes(t, t', written, siteLists)
    BY <2>2, <2>3, GoesThen
  <2>. QED BY <2>1, <2>3, <2>4, HandlerAccounts DEF Goes
<1>7. CASE Flush(throws)
  BY <1>2, <1>7, HandlerAccounts DEF Flush, Goes
<1>. QED BY <1>3, <1>4, <1>5, <1>6, <1>7

(* The page is hidden, and each iteration of drainNow's loop.              *)
LEMMA LeavingAccounts == ASSUME Inv, RecordsInv, Inv', PageLeaves \/ DrainStep
  PROVE Accounts
<1>1. /\ Fit(t, written, siteLists) /\ t \in Transport /\ written \in Nat /\ siteLists \in BOOLEAN
      /\ written <= MaxSeq + 2 /\ Sound(t, written, siteLists) /\ Good(t')
  BY InvFit, InvGood DEF Inv, Good, TypeOK
<1>2. /\ written' = written /\ siteLists' = siteLists /\ halted' = halted /\ draining' = Loops(t')
  BY DEF PageLeaves, DrainStep
<1>3. Goes(t, t', written, siteLists)
  <2>1. CASE PageLeaves
    BY <1>1, <2>1, DrainHeadGoes DEF PageLeaves
  <2>2. CASE DrainStep
    <3> DEFINE cut == Cut(t)
               sent == SendLeaving(cut)
    <3>1. t.state = "open" /\ HasFrames(t.queue)
      BY <2>2 DEF DrainStep, RecordsInv, Loops
    <3>2. Moved(t, cut, written, siteLists)
      BY <1>1, <3>1, CutSound
    <3>3. Good(cut) /\ cut \in Transport /\ cut.state = "open"
      BY <1>1, <3>1, CutGood DEF Fit, Good
    <3>4. t' = sent \/ t' = Finish(sent)
      BY <2>2 DEF DrainStep
    <3> HIDE DEF cut
    <3>5. cut.inFlight \notin cut.refused
      BY <3>2 DEF Moved, Sound, GivenUp
    <3>6. Steady(cut, t') /\ t'.state # "off"
      <4>1. CASE t' = sent
        BY <3>3, <3>5, <4>1 DEF Steady, SendLeaving, Transport
      <4>2. CASE t' = Finish(sent)
        BY <3>3, <3>5, <4>2 DEF Steady, SendLeaving, Finish, Transport
      <4>. QED BY <3>4, <4>1, <4>2
    <3>7. Goes(t, cut, written, siteLists)
      BY <1>1, <3>2, <3>3, GoesMoved
    <3>8. Goes(cut, t', written, siteLists)
      BY <1>1, <3>6, <3>7, SteadyGoes DEF Goes, Turns
    <3>. QED BY <3>7, <3>8, GoesThen
  <2>. QED BY <2>1, <2>2
<1>. QED BY <1>2, <1>3, NotLooping, StepAccounts DEF Goes, Turns, RecordsInv

(* The consent callback's answer, or its promise's.                        *)
LEMMA OnConsentAccounts == ASSUME Inv, RecordsInv, ~draining, NEW yes \in BOOLEAN,
    NEW throws \in BOOLEAN, OnConsent(yes, throws)
  PROVE Accounts
<1> DEFINE over == t.state \in {"off", "ended"}
           asks == t.state = "waiting-for-consent" /\ config = "none"
           asking == [t EXCEPT !.state = "configuring"]
<1>1. /\ Fit(t, written, siteLists) /\ t \in Transport /\ Good(t)
  BY InvFit
<1>2. /\ written' = written /\ siteLists' = siteLists /\ halted' = halted /\ draining' = draining
      /\ t' = CASE ~over /\ ~yes -> Off(t)
               [] ~over /\ yes /\ asks -> asking
               [] ~over /\ yes /\ t.state = "waiting-for-consent" /\ ~asks -> Open(t, throws)
               [] OTHER -> t
  BY DEF OnConsent
<1>3. CASE t' = Off(t)
  <2>1. Turns(t, t', written, siteLists) /\ t'.state = "off"
    BY <1>1, <1>3, OffTurns
  <2>. QED BY <1>2, <2>1, StepAccounts DEF Turns, RecordsInv, Armed, CanSend
<1>4. CASE t' = asking /\ t.state # "off"
  <2>1. Good(asking) /\ asking.state = "configuring" /\ Steady(t, asking)
    BY <1>1, <1>4 DEF Good, Disciplined, Transport, States, NoBatch, Steady, Fit, Sound, GivenUp
  <2> HIDE DEF asking
  <2>2. Goes(t, t', written, siteLists) /\ t'.state = "configuring"
    BY <1>1, <1>4, <2>1, SteadyGoes
  <2>. QED BY <1>2, <2>2, StepAccounts DEF Goes, Turns, RecordsInv, Armed, CanSend
<1>5. CASE t' = Open(t, throws) /\ t.state # "off"
  <2>1. Goes(t, t', written, siteLists) /\ Armed(t')
    BY <1>1, <1>5, OpenGoes
  <2>. QED BY <1>2, <2>1, StepAccounts DEF Goes, Turns, RecordsInv
<1>6. CASE t' = t
  <2>1. Goes(t, t', written, siteLists)
    BY <1>1, <1>6, GoesNowhere
  <2>. QED BY <1>2, <1>6, <2>1, StepAccounts DEF Goes, Turns, RecordsInv
<1>7. \/ t' = Off(t) \/ (t' = asking /\ t.state # "off")
      \/ (t' = Open(t, throws) /\ t.state # "off") \/ t' = t
  <2> HIDE DEF asking
  <2>. QED BY <1>2
<1>. QED BY <1>3, <1>4, <1>5, <1>6, <1>7

(* The configuration's answer, when it enables recording: with lists of    *)
(* the site's own, what is held is scrubbed before any of it can be sent.  *)
LEMMA ConfigureAccounts == ASSUME Inv, RecordsInv, NEW lists \in ListsBrought,
    NEW resize \in [Sizes -> Sizes], NEW cap \in RingSizes \cup {0}, NEW requires \in Requiring,
    NEW throws \in BOOLEAN, Configure(lists, resize, cap, requires, throws)
  PROVE Accounts
<1> DEFINE rewritten == IF lists THEN Rewrite(t, resize) ELSE t
           kept == IF cap = 0 THEN rewritten ELSE EvictToCap(rewritten, cap)
           waits == [kept EXCEPT !.state = "waiting-for-consent"]
<1>1. /\ Fit(t, written, siteLists) /\ t \in Transport /\ Good(t) /\ written \in Nat
      /\ Sound(t, written, siteLists) /\ written <= MaxSeq + 2
  BY InvFit
<1>2. ~draining /\ config = "pending" /\ draining' = draining /\ halted' = halted /\ written' = written
  BY DEF Configure
<1>3. CASE t.state = "off"
  <2>1. t' = t /\ siteLists' = siteLists
    BY <1>3 DEF Configure
  <2>2. Goes(t, t', written, siteLists)
    BY <1>1, <2>1, GoesNowhere
  <2>. QED BY <1>2, <2>1, <2>2, StepAccounts DEF Goes, Turns, RecordsInv
<1>4. CASE t.state # "off"
  <2>1. siteLists' = lists /\ t' = IF requires /\ consent # "yes" THEN waits ELSE Open(kept, throws)
    BY <1>4 DEF Configure
  <2>2. t.made = <<>> /\ lists \in BOOLEAN
    BY <1>2, InvGood, GatesAssumption DEF GatesInv
  <2>3. Goes(t, rewritten, written, lists)
    <3>1. CASE lists
      <4>1. Moved(t, Rewrite(t, resize), written, TRUE) /\ Good(Rewrite(t, resize))
        BY <1>1, <2>2, RewriteSound, RewriteGood
      <4>2. lists = TRUE
        BY <3>1
      <4>. QED BY <1>1, <4>1, <4>2 DEF Goes, Turns, Fit, Moved
    <3>2. CASE ~lists
      <4>1. Sound(t, written, lists)
        BY <1>1, <3>2 DEF Sound, AllScrubbed
      <4>. QED BY <1>1, <2>2, <3>2, <4>1, GoesNowhere DEF Fit
    <3>. QED BY <3>1, <3>2
  <2> HIDE DEF rewritten
  <2>4. Goes(t, kept, written, lists)
    <3>1. Goes(rewritten, EvictToCap(rewritten, cap), written, lists)
      BY <2>3, EvictGoes DEF Goes, Turns
    <3>. QED BY <2>3, <3>1, GoesThen
  <2> HIDE DEF kept
  <2>5. Fit(kept, written, lists) /\ kept \in Transport /\ kept.state # "off"
    BY <1>4, <2>4 DEF Goes, Turns, Fit, Good
  <2>6. Goes(kept, t', written, lists) /\ Armed(t')
    <3>1. CASE requires /\ consent # "yes"
      <4>1. Good(waits) /\ waits.state = "waiting-for-consent" /\ Steady(kept, waits)
        BY <2>5 DEF Good, Disciplined, Transport, States, NoBatch, Steady, Fit, Sound, GivenUp
      <4> HIDE DEF waits
      <4>. QED BY <2>1, <2>5, <3>1, <4>1, SteadyGoes DEF Armed, CanSend
    <3>2. CASE ~(requires /\ consent # "yes")
      BY <2>1, <2>5, <3>2, OpenGoes
    <3>. QED BY <3>1, <3>2
  <2>7. Goes(t, t', written, lists)
    BY <2>4, <2>6, GoesThen
  <2>. QED BY <1>2, <2>1, <2>6, <2>7, StepAccounts DEF Goes, Turns, RecordsInv
<1>. QED BY <1>3, <1>4

(* Every step of the gates.                                                *)
LEMMA GatesAccounts == ASSUME Inv, RecordsInv, Gates
  PROVE Accounts
<1>1. Fit(t, written, siteLists)
  BY InvFit
<1>2. CASE \E throws \in BOOLEAN, answer \in ConsentAnswers : ConsentAsked(answer, throws)
  <2>1. PICK throws \in BOOLEAN, answer \in ConsentAnswers : ConsentAsked(answer, throws)
    BY <1>2
  <2>2. CASE answer = "awaited"
    <3>1. /\ t' = t /\ ~draining /\ draining' = draining /\ halted' = halted
          /\ written' = written /\ siteLists' = siteLists
      BY <2>1, <2>2 DEF ConsentAsked
    <3>2. Goes(t, t', written, siteLists)
      BY <1>1, <3>1, GoesNowhere
    <3>. QED BY <3>1, <3>2, StepAccounts DEF Goes, Turns, RecordsInv
  <2>3. CASE answer # "awaited"
    <3>1. ~draining /\ OnConsent(answer = "yes", throws) /\ (answer = "yes") \in BOOLEAN
      BY <2>1, <2>3 DEF ConsentAsked
    <3>. QED BY <3>1, OnConsentAccounts
  <2>. QED BY <2>2, <2>3
<1>3. CASE \E throws \in BOOLEAN, yes \in BOOLEAN : ConsentSettles(yes, throws)
  BY <1>3, OnConsentAccounts DEF ConsentSettles
<1>4. CASE \E throws \in BOOLEAN, lists \in ListsBrought, requires \in Requiring,
              resize \in [Sizes -> Sizes], cap \in RingSizes \cup {0} :
             Configure(lists, resize, cap, requires, throws)
  BY <1>4, ConfigureAccounts
<1>5. CASE ConfigRefused
  <2>1. /\ ~draining /\ t' = Off(t) /\ draining' = draining /\ halted' = halted
        /\ written' = written /\ siteLists' = siteLists
    BY <1>5 DEF ConfigRefused
  <2>2. Turns(t, t', written, siteLists) /\ t'.state = "off"
    BY <1>1, <2>1, OffTurns
  <2>. QED BY <2>1, <2>2, StepAccounts DEF Turns, RecordsInv, Armed, CanSend
<1>. QED BY <1>2, <1>3, <1>4, <1>5 DEF Gates

(* A request's answer.                                                     *)
LEMMA AnswersAccounts == ASSUME Inv, RecordsInv, Answers
  PROVE Accounts
<1>1. /\ Fit(t, written, siteLists) /\ t \in Transport /\ Good(t) /\ written \in Nat
      /\ Sound(t, written, siteLists) /\ written <= MaxSeq + 2 /\ siteLists \in BOOLEAN
  BY InvFit
<1>2. ~draining /\ t.pending /\ UNCHANGED Idle
  BY DEF Answers, Accepted, RequestFails, TooLarge, SessionRefused
<1>3. t.inFlight \in 1..Len(t.made) /\ ~t.retryTimer
  BY <1>1, <1>2 DEF Good, Disciplined, Transport, NoBatch
<1> DEFINE done == [t EXCEPT !.inFlight = NoBatch, !.pending = FALSE]
<1>4. Good(done) /\ ~done.retryTimer
  <2>1. done \in Transport
    BY <1>1 DEF Transport, NoBatch
  <2>2. Idles(t, done)
    BY <1>1, <1>3, <2>1 DEF Idles, Transport
  <2>. QED BY <1>1, <2>2, IdlesGood DEF Idles
<1>5. Steady(t, done) /\ done.state = t.state
  <2>1. NoBatch \notin t.refused
    BY <1>1, Fields DEF Sound, GivenUp, NoBatch
  <2>. QED BY <1>1, <2>1 DEF Steady, Transport
<1> HIDE DEF done
<1>6. Goes(t, done, written, siteLists) /\ Fit(done, written, siteLists)
  BY <1>1, <1>4, <1>5, SteadyGoes DEF Goes, Turns
<1>7. ASSUME NEW aged \in BOOLEAN, NEW throws \in BOOLEAN, Accepted(aged, throws)
      PROVE Turns(t, t', written, siteLists) /\ Armed(t')
  <2>1. t' = IF t.made[t.inFlight].final THEN Finish(done) ELSE AfterAnswer(done, aged, throws)
    BY <1>7 DEF Accepted, done
  <2>2. Goes(done, t', written, siteLists) /\ Armed(t')
    BY <1>4, <1>6, <2>1, FinishGoes, AfterAnswerGoes
  <2>. QED BY <1>6, <2>2, GoesThen DEF Goes
<1>8. ASSUME NEW aged \in BOOLEAN, NEW throws \in BOOLEAN, RequestFails(aged, throws)
      PROVE Turns(t, t', written, siteLists) /\ Armed(t')
  BY <1>1, <1>3, <1>8, FailedTurns DEF RequestFails
<1>9. ASSUME NEW aged \in BOOLEAN, NEW throws \in BOOLEAN, TooLarge(aged, throws)
      PROVE Turns(t, t', written, siteLists) /\ Armed(t')
  <2> DEFINE less == [t EXCEPT !.wire = @ \ {t.inFlight}]
  <2>1. t' = Refused(less, t.inFlight, aged, throws)
    BY <1>9 DEF TooLarge
  <2>2. less \in Transport /\ less.inFlight = t.inFlight /\ less.made = t.made
        /\ less.retryTimer = t.retryTimer /\ Steady(t, less)
    BY <1>1 DEF Transport, Steady, Sound, GivenUp
  <2> HIDE DEF less
  <2>3. Sound(less, written, siteLists)
    BY <1>1, <2>2, SteadySound
  <2>4. Turns(less, t', written, siteLists) /\ Armed(t')
    BY <1>1, <1>3, <2>1, <2>2, <2>3, RefusedTurns
  <2>. QED BY <1>1, <2>2, <2>4, SteadyThen
<1>10. ASSUME SessionRefused
       PROVE Turns(t, t', written, siteLists) /\ Armed(t')
  <2>1. t' = Off(done)
    BY <1>10 DEF SessionRefused, done
  <2>2. Turns(done, t', written, siteLists) /\ t'.state = "off"
    BY <1>6, <2>1, OffTurns
  <2>. QED BY <1>1, <1>5, <2>2, SteadyThen DEF Armed, CanSend
<1>11. Turns(t, t', written, siteLists) /\ Armed(t')
  BY <1>7, <1>8, <1>9, <1>10 DEF Answers
<1>. QED BY <1>2, <1>11, HandlerAccounts

(* A timer fires.                                                          *)
LEMMA TimersAccounts == ASSUME Inv, RecordsInv, Inv', Timers
  PROVE Accounts
<1>1. /\ Fit(t, written, siteLists) /\ t \in Transport /\ Good(t) /\ written \in Nat
      /\ Sound(t, written, siteLists) /\ written <= MaxSeq + 2 /\ siteLists \in BOOLEAN /\ Good(t')
  BY InvFit, InvGood DEF Inv, Good, TypeOK
<1>2. ASSUME NEW throws \in BOOLEAN, NEW aged \in BOOLEAN, NEW again \in BOOLEAN,
             RetryTimerFires(throws, aged, again)
      PROVE Accounts
  <2> DEFINE fired == [t EXCEPT !.retryTimer = FALSE]
  <2>1. /\ ~draining /\ t.retryTimer /\ UNCHANGED Idle
        /\ t' = IF throws THEN Failed(fired, aged, again) ELSE Request(fired, t.inFlight)
    BY <1>2 DEF RetryTimerFires
  <2>2. /\ fired \in Transport /\ fired.inFlight = t.inFlight /\ fired.made = t.made
        /\ ~fired.retryTimer /\ Steady(t, fired) /\ fired.state = t.state
    BY <1>1 DEF Transport, Steady, Sound, GivenUp
  <2>3. t.inFlight \in 1..Len(t.made) /\ t.state # "off" /\ t.inFlight # NoBatch
    BY <1>1, <2>1 DEF Good, Disciplined, Transport, NoBatch
  <2> HIDE DEF fired
  <2>4. Sound(fired, written, siteLists)
    BY <1>1, <2>2, SteadySound
  <2>5. CASE throws
    <3>1. Turns(fired, t', written, siteLists) /\ Armed(t')
      BY <1>1, <2>1, <2>2, <2>3, <2>4, <2>5, FailedTurns
    <3>2. Turns(t, t', written, siteLists)
      BY <1>1, <2>2, <3>1, SteadyThen
    <3>. QED BY <2>1, <3>1, <3>2, HandlerAccounts
  <2>6. CASE ~throws
    <3>1. t' = Request(fired, t.inFlight)
      BY <2>1, <2>6
    <3>2. Steady(fired, t') /\ t'.inFlight # NoBatch /\ t'.state = t.state
      BY <2>2, <2>3, <2>4, <3>1 DEF Steady, Request, Transport, Sound, GivenUp
    <3>3. Sound(t', written, siteLists) /\ Fated(fired, t', written)
      BY <2>4, <3>2, SteadySound
    <3>4. Turns(fired, t', written, siteLists)
      BY <1>1, <3>3 DEF Turns, Fit
    <3>5. Turns(t, t', written, siteLists)
      BY <1>1, <2>2, <3>4, SteadyThen
    <3>. QED BY <2>1, <3>2, <3>5, HandlerAccounts DEF Armed, CanSend
  <2>. QED BY <2>5, <2>6
<1>3. ASSUME NEW throws \in BOOLEAN, FlushTimerFires(throws)
      PROVE Accounts
  <2> DEFINE fired == [t EXCEPT !.flushTimer = FALSE]
             p == Pump(fired, throws)
  <2>1. ~draining /\ UNCHANGED Idle /\ t' = ArmFlushTimer(p)
    BY <1>3 DEF FlushTimerFires
  <2>2. Good(fired) /\ Steady(t, fired) /\ fired.state = t.state
    BY <1>1 DEF Good, Disciplined, Transport, NoBatch, Steady, Sound, GivenUp
  <2> HIDE DEF fired
  <2>3. Goes(t, fired, written, siteLists)
    BY <1>1, <2>2, SteadyGoes
  <2>4. Goes(fired, p, written, siteLists)
    BY <2>3, PumpGoes DEF Goes, Turns
  <2> HIDE DEF p
  <2>5. Goes(p, t', written, siteLists) /\ Armed(t')
    BY <2>1, <2>4, ArmGoes DEF Goes, Turns
  <2>6. Goes(t, t', written, siteLists)
    BY <2>3, <2>4, <2>5, GoesThen
  <2>. QED BY <2>1, <2>5, <2>6, HandlerAccounts DEF Goes
<1>. QED BY <1>2, <1>3 DEF Timers

(* A copy of a batch is delivered or lost, drainNow's loop under way or not. *)
LEMMA NetworkAccounts == ASSUME Inv, RecordsInv, Inv', Network
  PROVE Accounts
<1>1. /\ Fit(t, written, siteLists) /\ t \in Transport /\ Sound(t, written, siteLists) /\ Good(t')
  BY InvFit, InvGood DEF Inv, Good, TypeOK
<1>2. PICK b \in t.wire : Deliver(b) \/ Lose(b)
  BY DEF Network
<1>3. /\ t' = [t EXCEPT !.wire = @ \ {b}] /\ draining' = draining /\ halted' = halted
      /\ written' = written /\ siteLists' = siteLists
  BY <1>2 DEF Deliver, Lose, Idle
<1>4. /\ Steady(t, t') /\ t'.state = t.state /\ t'.queue = t.queue /\ t'.inFlight = t.inFlight
      /\ t'.flushTimer = t.flushTimer
  BY <1>1, <1>3 DEF Steady, Transport, Sound, GivenUp
<1>5. Goes(t, t', written, siteLists)
  BY <1>1, <1>4, SteadyGoes
<1>6. (draining' => Loops(t')) /\ (~draining' => Armed(t'))
  BY <1>3, <1>4 DEF RecordsInv, Loops, Armed, CanSend
<1>. QED BY <1>3, <1>5, <1>6, StepAccounts DEF Goes, Turns, RecordsInv

(* A handler throws: what waits is forgotten.                              *)
LEMMA FaultsAccounts == ASSUME Inv, RecordsInv, Faults
  PROVE Accounts
<1>1. Fit(t, written, siteLists)
  BY InvFit
<1>2. /\ t' = Off(t) /\ draining' = FALSE /\ halted' = halted
      /\ written' = written /\ siteLists' = siteLists
  BY DEF Faults
<1>3. Turns(t, t', written, siteLists) /\ t'.state = "off"
  BY <1>1, <1>2, OffTurns
<1>. QED BY <1>2, <1>3, StepAccounts DEF Turns, RecordsInv, Armed, CanSend

-----------------------------------------------------------------------------
(* The invariant is inductive, and no step takes a fate back.              *)
LEMMA NextRecords == ASSUME Inv, RecordsInv, [Next]_vars
  PROVE Accounts /\ Inv'
<1>1. Inv'
  BY NextInv
<1>2. CASE Next
  BY <1>1, <1>2, RecordingAccounts, GatesAccounts, LeavingAccounts, AnswersAccounts,
     TimersAccounts, FaultsAccounts, NetworkAccounts DEF Next
<1>3. CASE UNCHANGED vars
  <2>1. /\ t' = t /\ draining' = draining /\ halted' = halted /\ written' = written
        /\ siteLists' = siteLists
    BY <1>3 DEF vars
  <2>2. Goes(t, t', written, siteLists)
    BY <2>1, InvFit, GoesNowhere
  <2>3. /\ Fit(t', written', siteLists') /\ Fated(t, t', written) /\ (halted' => written' >= 2)
        /\ (draining' => Loops(t')) /\ (~draining' => Armed(t'))
    BY <2>1, <2>2 DEF Goes, Turns, RecordsInv
  <2>. QED BY <1>1, <2>1, <2>3, StepAccounts
<1>. QED BY <1>1, <1>2, <1>3

(* Every reachable state satisfies it. *)
THEOREM RecordsInvariance == Spec => [](Inv /\ RecordsInv)
<1>1. Init => Inv /\ RecordsInv
  BY InitInv, InitRecords
<1>2. Inv /\ RecordsInv /\ [Next]_vars => Inv' /\ RecordsInv'
  BY NextRecords DEF Accounts
<1> QED
  BY <1>1, <1>2, PTL DEF Spec

-----------------------------------------------------------------------------
(* What it says of the properties.                                         *)

(* A record in the ring, or dropped there; one a batch carries, or reports *)
(* the drop of; of each no more than one, and no two of these.             *)
LEMMA OnePlace == ASSUME Inv, RecordsInv, t.state # "off", NEW n \in Records
  PROVE Cardinality(InRing(n)) + Cardinality(DropHeld(n))
        + Cardinality(ShippedBy(n)) + Cardinality(ReportedBy(n)) = 1
<1>1. t \in Transport /\ Placed(t, written) /\ n \in 1..written - 2
  BY InvFit DEF Sound, Records
<1>2. ASSUME NEW i \in DOMAIN t.queue
      PROVE /\ t.queue[i].kind = "record" /\ t.queue[i].seq = n => n \in Names(t.queue[i]) /\ n \notin t.queue[i].lost
            /\ n \in t.queue[i].lost => n \in Names(t.queue[i]) /\ t.queue[i].kind # "record"
            /\ n \in Names(t.queue[i]) => \/ t.queue[i].kind = "record" /\ t.queue[i].seq = n
                                          \/ n \in t.queue[i].lost
  BY <1>1, EntriesAre DEF Names, EntryLike
<1>3. Cardinality({}) = 0 /\ \A x : Cardinality({x}) = 1
  BY FS_EmptySet, FS_Singleton
<1>4. CASE \E i \in DOMAIN t.queue : n \in Names(t.queue[i])
  <2>1. PICK i \in DOMAIN t.queue : n \in Names(t.queue[i])
    BY <1>4
  <2>2. ASSUME NEW j \in DOMAIN t.queue, n \in Names(t.queue[j]) PROVE j = i
    BY <1>1, <2>1, <2>2 DEF Placed
  <2>3. ShippedBy(n) = {} /\ ReportedBy(n) = {}
    BY <1>1, <2>1 DEF Placed, Tells, Live, ShippedBy, ReportedBy
  <2>4. CASE t.queue[i].kind = "record" /\ t.queue[i].seq = n
    <3>1. InRing(n) = {i}
      BY <1>2, <2>2, <2>4 DEF InRing
    <3>2. DropHeld(n) = {}
      BY <1>2, <2>2, <2>4 DEF DropHeld
    <3>3. /\ Cardinality(InRing(n)) = 1 /\ Cardinality(DropHeld(n)) = 0
          /\ Cardinality(ShippedBy(n)) = 0 /\ Cardinality(ReportedBy(n)) = 0
      BY <1>3, <2>3, <3>1, <3>2, Zenon
    <3>. QED BY <3>3
  <2>5. CASE n \in t.queue[i].lost
    <3>1. InRing(n) = {}
      BY <1>2, <2>2, <2>5 DEF InRing
    <3>2. DropHeld(n) = {i}
      BY <1>2, <2>2, <2>5 DEF DropHeld
    <3>3. /\ Cardinality(InRing(n)) = 0 /\ Cardinality(DropHeld(n)) = 1
          /\ Cardinality(ShippedBy(n)) = 0 /\ Cardinality(ReportedBy(n)) = 0
      BY <1>3, <2>3, <3>1, <3>2, Zenon
    <3>. QED BY <3>3
  <2>. QED BY <1>2, <2>1, <2>4, <2>5
<1>5. CASE \E b \in Live(t) : n \in Tells(t.made[b])
  <2>1. PICK b \in Live(t) : n \in Tells(t.made[b])
    BY <1>5
  <2>2. ASSUME NEW c \in Live(t), n \in Tells(t.made[c]) PROVE c = b
    BY <1>1, <2>1, <2>2 DEF Placed
  <2>3. InRing(n) = {} /\ DropHeld(n) = {}
    BY <1>1, <1>2, <2>1 DEF Placed, InRing, DropHeld
  <2>4. CASE n \in t.made[b].recs
    <3>1. ShippedBy(n) = {b}
      BY <2>1, <2>2, <2>4 DEF ShippedBy, Live, Tells
    <3>2. n \notin t.made[b].lost
      BY <1>1, <2>4 DEF Placed
    <3>3. ReportedBy(n) = {}
      BY <2>2, <3>2 DEF ReportedBy, Live, Tells
    <3>4. /\ Cardinality(InRing(n)) = 0 /\ Cardinality(DropHeld(n)) = 0
          /\ Cardinality(ShippedBy(n)) = 1 /\ Cardinality(ReportedBy(n)) = 0
      BY <1>3, <2>3, <3>1, <3>3, Zenon
    <3>. QED BY <3>4
  <2>5. CASE n \in t.made[b].lost
    <3>1. ReportedBy(n) = {b}
      BY <2>1, <2>2, <2>5 DEF ReportedBy, Live, Tells
    <3>2. n \notin t.made[b].recs
      BY <1>1, <2>5 DEF Placed
    <3>3. ShippedBy(n) = {}
      BY <2>2, <3>2 DEF ShippedBy, Live, Tells
    <3>4. /\ Cardinality(InRing(n)) = 0 /\ Cardinality(DropHeld(n)) = 0
          /\ Cardinality(ShippedBy(n)) = 0 /\ Cardinality(ReportedBy(n)) = 1
      BY <1>3, <2>3, <3>1, <3>3, Zenon
    <3>. QED BY <3>4
  <2>. QED BY <2>1, <2>4, <2>5 DEF Tells
<1>. QED BY <1>1, <1>4, <1>5 DEF Placed

(* droppedRecords is the number of records dropped.                        *)
LEMMA DropsAreCounted == ASSUME Inv, RecordsInv
  PROVE DropsCounted
<1>1. Counted(t, written)
  BY InvFit DEF Sound
<1>2. Dropped(t, written) = {n \in Records : DropHeld(n) \cup ReportedBy(n) # {}}
  BY DEF Dropped, Records, DropHeld, ReportedBy, Live
<1>. QED BY <1>1, <1>2 DEF Counted, DropsCounted

(* Every record has one fate, and is in the count where that is a drop. *)
THEOREM RecordsAccounted == Spec => []Accounted
<1>1. Inv /\ RecordsInv => Accounted
  <2>1. Inv /\ RecordsInv => OneFate
    BY OnePlace DEF OneFate
  <2>. QED BY <2>1, DropsAreCounted DEF Accounted
<1> QED
  BY <1>1, RecordsInvariance, PTL

(* The batches hold the log in its order, without holes, Header first and  *)
(* End in the final one. *)
THEOREM BatchesKeepOrder == Spec => []BatchesInOrder
<1>1. Inv /\ RecordsInv => BatchesInOrder
  <2> SUFFICES ASSUME Inv, RecordsInv PROVE BatchesInOrder
    OBVIOUS
  <2>1. Sound(t, written, siteLists)
    BY InvFit
  <2>2. InOrder
    <3>1. BatchesOrdered(t, written) /\ RingOrdered(t.queue, written, t.ended)
      BY <2>1 DEF Sound
    <3>2. \A b, c \in DOMAIN t.made : \A m \in t.made[b].recs, n \in t.made[c].recs : b < c => m < n
      BY <3>1 DEF BatchesOrdered
    <3>3. \A b \in DOMAIN t.made : t.made[b].recs = Span(t.made[b].recs)
      BY <3>1 DEF BatchesOrdered
    <3>4. \A b \in DOMAIN t.made, i \in DOMAIN t.queue : \A m \in t.made[b].recs :
            t.queue[i].kind = "record" => m < t.queue[i].seq
      BY <3>1 DEF BatchesOrdered
    <3>5. \A i, j \in DOMAIN t.queue :
            t.queue[i].kind = "record" /\ t.queue[j].kind = "record" /\ i < j
              => t.queue[i].seq < t.queue[j].seq
      BY <3>1 DEF RingOrdered
    <3>. QED BY <3>2, <3>3, <3>4, <3>5 DEF InOrder
  <2>3. HeaderFirst
    BY <2>1 DEF Sound, HeaderInv, HeaderFirst
  <2>4. FinalIsLast
    BY <2>1 DEF Sound, FinalInv, FinalIsLast
  <2>. QED BY <2>2, <2>3, <2>4 DEF BatchesInOrder
<1> QED
  BY <1>1, RecordsInvariance, PTL

(* With the site's lists known, every batch was scrubbed by them. *)
THEOREM NothingLeavesUnscrubbed == Spec => []NothingUnscrubbed
<1>1. Inv /\ RecordsInv => NothingUnscrubbed
  BY InvFit DEF Sound, AllScrubbed, NothingUnscrubbed
<1> QED
  BY <1>1, RecordsInvariance, PTL

(* What waits and could be sent has the flush timer armed for it. *)
THEOREM NothingStranded == Spec => []NeverStranded
<1>1. Inv /\ RecordsInv => NeverStranded
  BY DEF RecordsInv, Armed, NeverStranded
<1> QED
  BY <1>1, RecordsInvariance, PTL

-----------------------------------------------------------------------------
(* RecordFate.                                                             *)

(* The fate of n in a sound transport of w frames written, and no other.   *)
FateIn(tr, w, n, f) ==
  /\ f \in {"unwritten", "held", "sent", "dropped", "reported", "forgotten"}
  /\ f = "unwritten" <=> n > w - 2
  /\ f = "sent" <=> n <= w - 2 /\ n \in Shipped(tr)
  /\ f = "held" => n \in Holding(tr)
  /\ f = "reported" <=> /\ n <= w - 2 /\ n \notin Shipped(tr)
                        /\ \E b \in Live(tr) : n \in tr.made[b].lost
  /\ f \in {"dropped", "reported"} /\ tr.state # "off" => n \notin Holding(tr)
  /\ n \in Shipped(tr) => n \notin Holding(tr) /\ \A b \in Live(tr) : n \notin tr.made[b].lost
  /\ f = "forgotten" => tr.state = "off"
  /\ tr.state = "off" => f \notin {"held", "dropped"}

(* A record has the fate its place says.                                   *)
LEMMA FateIs == ASSUME Inv, RecordsInv, NEW n \in 1..MaxSeq
  PROVE FateIn(t, written, n, FateOf(n))
<1>1. t \in Transport /\ Placed(t, written) /\ written \in Nat /\ n \in Nat
  BY InvFit, MaxSeqAssumption DEF Sound
<1>2. ShippedBy(n) # {} <=> n \in Shipped(t)
  BY <1>1 DEF ShippedBy, Shipped, Live
<1>3. ReportedBy(n) # {} <=> \E b \in Live(t) : n \in t.made[b].lost
  BY DEF ReportedBy, Live
<1>4. n \in Holding(t) => InRing(n) # {}
  BY DEF Holding, InRing
<1>5. ASSUME n <= written - 2, t.state # "off"
      PROVE /\ DropHeld(n) # {} \/ ReportedBy(n) # {} => InRing(n) = {}
            /\ DropHeld(n) = {} /\ ReportedBy(n) = {} /\ ShippedBy(n) = {} => n \in Holding(t)
  <2>1. n \in 1..written - 2
    BY <1>1, <1>5
  <2>2. ASSUME NEW i \in DOMAIN t.queue
        PROVE /\ n \in Names(t.queue[i]) => \/ t.queue[i].kind = "record" /\ t.queue[i].seq = n
                                            \/ n \in t.queue[i].lost
              /\ n \in t.queue[i].lost => t.queue[i].kind = "drop" /\ n \in Names(t.queue[i])
              /\ t.queue[i].kind = "record" /\ t.queue[i].seq = n => n \in Names(t.queue[i])
    BY <1>1, EntriesAre DEF Names, EntryLike
  <2>3. DropHeld(n) # {} => InRing(n) = {}
    <3>1. ASSUME NEW i \in DropHeld(n), NEW j \in InRing(n) PROVE FALSE
      <4>1. /\ i \in DOMAIN t.queue /\ j \in DOMAIN t.queue /\ n \in t.queue[i].lost
            /\ t.queue[j].kind = "record" /\ t.queue[j].seq = n
        BY DEF DropHeld, InRing
      <4>2. i # j /\ n \in Names(t.queue[i]) /\ n \in Names(t.queue[j])
        BY <2>2, <4>1
      <4>. QED BY <1>1, <4>1, <4>2 DEF Placed
    <3>. QED BY <3>1
  <2>4. ReportedBy(n) # {} => InRing(n) = {}
    BY <1>1, <2>2 DEF ReportedBy, InRing, Placed, Live, Tells
  <2>5. DropHeld(n) = {} /\ ReportedBy(n) = {} /\ ShippedBy(n) = {} => n \in Holding(t)
    BY <1>1, <1>5, <2>1, <2>2 DEF Placed, Tells, Live, DropHeld, ReportedBy, ShippedBy, Holding
  <2>. QED BY <2>3, <2>4, <2>5
<1>6. n \in Shipped(t) => n \notin Holding(t) /\ \A b \in Live(t) : n \notin t.made[b].lost
  <2>1. ASSUME NEW b \in Live(t), n \in t.made[b].recs PROVE n \notin Holding(t)
    <3>1. n \in Tells(t.made[b])
      BY <2>1 DEF Tells
    <3>2. ASSUME NEW i \in DOMAIN t.queue, t.queue[i].kind = "record", t.queue[i].seq = n PROVE FALSE
      <4>1. n \in Names(t.queue[i])
        BY <3>2 DEF Names
      <4>. QED BY <1>1, <3>1, <4>1 DEF Placed
    <3>. QED BY <3>2 DEF Holding
  <2>2. ASSUME NEW b \in Live(t), n \in t.made[b].recs, NEW c \in Live(t) PROVE n \notin t.made[c].lost
    BY <1>1, <2>2 DEF Placed, Tells
  <2>. QED BY <2>1, <2>2 DEF Shipped
<1>7. CASE n > written - 2
  <2>1. FateOf(n) = "unwritten"
    BY <1>1, <1>7 DEF FateOf
  <2>. QED BY <1>1, <1>7, <1>6, <2>1 DEF FateIn
<1>8. CASE n <= written - 2 /\ ShippedBy(n) # {}
  <2>1. FateOf(n) = "sent"
    BY <1>1, <1>8 DEF FateOf
  <2>. QED BY <1>1, <1>2, <1>8, <1>6, <2>1 DEF FateIn
<1>9. CASE n <= written - 2 /\ ShippedBy(n) = {} /\ ReportedBy(n) # {}
  <2>1. FateOf(n) = "reported"
    BY <1>1, <1>9 DEF FateOf
  <2>. QED BY <1>1, <1>2, <1>3, <1>4, <1>5, <1>9, <1>6, <2>1 DEF FateIn
<1>10. CASE n <= written - 2 /\ ShippedBy(n) = {} /\ ReportedBy(n) = {}
  <2>1. FateOf(n) = IF t.state = "off" THEN "forgotten"
                    ELSE IF DropHeld(n) # {} THEN "dropped" ELSE "held"
    BY <1>1, <1>10 DEF FateOf
  <2>. QED BY <1>1, <1>2, <1>3, <1>4, <1>5, <1>10, <1>6, <2>1 DEF FateIn
<1>. QED BY <1>1, <1>7, <1>8, <1>9, <1>10

(* A record moves as RecordFate allows, where the transport stays on.      *)
LEMMA FateMoves == ASSUME NEW a, NEW b, NEW v \in Nat, NEW w \in {v, v + 1}, NEW n \in 1..MaxSeq,
    NEW f, NEW g, FateIn(a, v, n, f), FateIn(b, w, n, g), Fated(a, b, v),
    a.state # "off", b.state # "off"
  PROVE g \in Fate!Moves[f] /\ g \in Fate!Fates
<1>1. n \in Int /\ n >= 1
  BY MaxSeqAssumption
<1>2. f # "forgotten" /\ g # "forgotten"
  BY DEF FateIn
<1>3. n <= v - 2 => /\ g # "unwritten"
                    /\ n \in Holding(b) => n \in Holding(a)
                    /\ n \in Shipped(b) => n \in Shipped(a) \/ n \in Holding(a)
  BY <1>1 DEF FateIn, Fated
<1>4. f = "unwritten" => g # "forgotten"
  BY <1>2
<1>5. f = "sent" => g \notin {"unwritten", "held"}
  BY <1>3 DEF FateIn
<1>6. f \in {"dropped", "reported"} => g \notin {"unwritten", "held", "sent"}
  BY <1>1, <1>3 DEF FateIn
<1>7. f = "held" => g # "unwritten"
  BY <1>1, <1>3 DEF FateIn
<1>8. /\ f \in {"unwritten", "held", "sent", "dropped", "reported"}
      /\ g \in {"unwritten", "held", "sent", "dropped", "reported"}
  BY <1>2 DEF FateIn
<1>. QED BY <1>4, <1>5, <1>6, <1>7, <1>8 DEF Fate!Moves, Fate!Fates

(* Off, it is only forgotten.                                              *)
LEMMA FateForgets == ASSUME NEW a, NEW b, NEW w \in Nat, NEW n \in 1..MaxSeq,
    NEW f, NEW g, FateIn(a, w, n, f), FateIn(b, w, n, g), Fated(a, b, w), b.state = "off"
  PROVE (g = f \/ (f # "unwritten" /\ g = "forgotten")) /\ g \in Fate!Fates
<1>1. b.made = a.made /\ Live(b) \subseteq Live(a)
  BY DEF Fated, Live
<1>2. n \in Shipped(b) => n \in Shipped(a)
  BY <1>1 DEF Shipped
<1>3. (\E c \in Live(b) : n \in b.made[c].lost) => \E c \in Live(a) : n \in a.made[c].lost
  BY <1>1
<1>4. g \in {"unwritten", "sent", "reported", "forgotten"}
  BY DEF FateIn
<1>5. CASE g = "unwritten"
  BY <1>5 DEF FateIn, Fate!Fates
<1>6. CASE g = "sent"
  BY <1>2, <1>6 DEF FateIn, Fate!Fates
<1>7. CASE g = "reported"
  BY <1>3, <1>7 DEF FateIn, Fate!Fates
<1>8. CASE g = "forgotten"
  BY <1>8 DEF FateIn, Fate!Fates
<1>. QED BY <1>4, <1>5, <1>6, <1>7, <1>8

(* What waits was taken after all that was sent.                           *)
LEMMA FatesInOrder == ASSUME NEW a, NEW w \in Nat, NEW s, Sound(a, w, s), NEW m \in 1..MaxSeq, NEW n \in 1..MaxSeq,
    m < n, NEW f, NEW g, FateIn(a, w, m, f), FateIn(a, w, n, g)
  PROVE (f = "unwritten" => g = "unwritten") /\ (f = "held" => g # "sent")
<1>1. m \in Int /\ n \in Int
  OBVIOUS
<1>2. m \in Holding(a) /\ n \in Shipped(a) => n < m
  BY DEF Sound, BatchesOrdered, Holding, Shipped, Live
<1>. QED BY <1>1, <1>2 DEF FateIn

(* Every record has the life RecordFate promises it. *)
THEOREM TransportKeepsFates == Spec => KeepsFates
<1> DEFINE fates == [n \in 1..MaxSeq |-> FateOf(n)]
           on == t.state # "off"
<1>1. Init => Fate!Init
  <2>1. Init => \A n \in 1..MaxSeq : FateOf(n) = "unwritten"
    BY MaxSeqAssumption DEF Init, FateOf
  <2>. QED BY <2>1 DEF Fate!Init
<1>2. Inv /\ RecordsInv => \A n \in 1..MaxSeq : FateIn(t, written, n, FateOf(n))
  BY FateIs
<1>3. (Inv /\ RecordsInv)' => (\A n \in 1..MaxSeq : FateIn(t, written, n, FateOf(n)))'
  BY <1>2, PTL
<1>4. Inv /\ RecordsInv /\ Inv' /\ RecordsInv' /\ [Next]_vars => [Fate!Next]_<<fates, on>>
  <2> SUFFICES ASSUME Inv, RecordsInv, Inv', RecordsInv', [Next]_vars PROVE Fate!Next
    OBVIOUS
  <2>1. /\ Fated(t, t', written) /\ (t.state = "off" => t'.state = "off")
        /\ written' = written \/ (written' = written + 1 /\ t'.state # "off")
    BY NextRecords, NextInv DEF Accounts, vars
  <2>2. /\ written \in Nat /\ written' \in Nat
        /\ Sound(t', written', siteLists')
    BY InvFit DEF RecordsInv, Inv, TypeOK
  <2>3. ASSUME NEW n \in 1..MaxSeq
        PROVE FateIn(t, written, n, fates[n]) /\ FateIn(t', written', n, fates'[n])
    BY <1>2, <1>3
  <2>4. DOMAIN fates' = 1..MaxSeq /\ fates' = [n \in 1..MaxSeq |-> fates'[n]]
    OBVIOUS
  <2>5. CASE t'.state # "off"
    <3>1. on /\ on' = on
      BY <2>1, <2>5
    <3>2. ASSUME NEW n \in 1..MaxSeq
          PROVE fates'[n] \in Fate!Moves[fates[n]] /\ fates'[n] \in Fate!Fates
      <4>1. written' \in {written, written + 1} /\ t.state # "off"
        BY <2>1, <2>5
      <4> HIDE DEF fates
      <4>. QED BY <2>1, <2>2, <2>3, <2>5, <4>1, FateMoves
    <3>3. ASSUME NEW m \in 1..MaxSeq, NEW n \in 1..MaxSeq, m < n
          PROVE (fates'[m] = "unwritten" => fates'[n] = "unwritten") /\ (fates'[m] = "held" => fates'[n] # "sent")
      <4> HIDE DEF fates
      <4>. QED BY <2>2, <2>3, <3>3, FatesInOrder
    <3> HIDE DEF fates, on
    <3>4. Fate!Ordered(fates')
      BY <3>3 DEF Fate!Ordered
    <3>5. fates' \in [1..MaxSeq -> Fate!Fates]
      BY <2>4, <3>2
    <3>6. Fate!Progress
      BY <3>1, <3>2, <3>4, <3>5 DEF Fate!Progress, fates, on
    <3>. QED BY <3>6 DEF Fate!Next
  <2>6. CASE t'.state = "off"
    <3>1. written' = written
      BY <2>1, <2>6
    <3>2. ASSUME NEW n \in 1..MaxSeq
          PROVE /\ fates'[n] = fates[n] \/ (fates[n] # "unwritten" /\ fates'[n] = "forgotten")
                /\ fates'[n] \in Fate!Fates
      <4> HIDE DEF fates
      <4>. QED BY <2>1, <2>2, <2>3, <2>6, <3>1, FateForgets
    <3>3. fates' \in [1..MaxSeq -> Fate!Fates]
      <4> HIDE DEF fates
      <4>. QED BY <2>4, <3>2
    <3>4. Fate!Forget
      BY <2>6, <3>2, <3>3 DEF Fate!Forget
    <3>. QED BY <3>4 DEF Fate!Next
  <2>. QED BY <2>5, <2>6
<1>. QED BY <1>1, <1>4, RecordsInvariance, PTL DEF Spec, KeepsFates, Fate!Spec
===============================================================================
