---------------------------- MODULE NodeTraceProofs ----------------------------
(***************************************************************************)
(* Proofs about NodeTrace, for every window, set of contexts and requests, *)
(* and however many batches fail.                                          *)
(*                                                                         *)
(* Due(r) is what the native recorder holds and what the window will lower *)
(* to, one vector.  What it tells of the history (Tells) is kept by each   *)
(* of the few things the code does to it: an event is added, the window is *)
(* flushed or lost, the context is checked, a span's mark is taken.  The   *)
(* actions compose them.                                                   *)
(***************************************************************************)
EXTENDS NodeTrace, FiniteSetTheorems, SequenceTheorems, WellFoundedInduction, TLAPS

(* A set of naturals has a least member, and so induction over them holds. *)
LEMMA NatMin ==
  ASSUME NEW T \in SUBSET Nat, T # {}
  PROVE  \E x \in T : \A y \in T : x <= y
<1> DEFINE R == {p \in Nat \X Nat : p[1] < p[2]}
<1>1. IsWellFoundedOn(R, Nat)
  BY NatLessThanWellFounded DEF OpToRel
<1> HIDE DEF R
<1>2. PICK x \in T : \A y \in T : ~(<<y, x>> \in R)
  BY <1>1, WFMin
<1>3. \A y \in T : y < x => <<y, x>> \in R
  BY DEF R
<1>4. ASSUME NEW y \in T PROVE x <= y
  <2>1. ~(y < x)
    BY <1>2, <1>3
  <2> QED BY <2>1
<1> QED BY <1>4

LEMMA Inductive ==
  ASSUME NEW S, 0 \in S, \A n \in Nat : n \in S => n + 1 \in S
  PROVE  \A n \in Nat : n \in S
<1> DEFINE T == {n \in Nat : n \notin S}
<1>1. SUFFICES ASSUME T # {} PROVE FALSE
  OBVIOUS
<1>2. PICK x \in T : \A y \in T : x <= y
  BY <1>1, NatMin
<1>3. x \in Nat /\ x # 0 /\ x - 1 \in Nat /\ ~(x <= x - 1)
  BY <1>2
<1>4. x - 1 \in S
  BY <1>2, <1>3
<1>5. (x - 1) + 1 = x
  BY <1>3
<1> QED BY <1>2, <1>3, <1>4, <1>5

-----------------------------------------------------------------------------
(* FlattenSeq, and so what a window lowers to, grows at its end. *)
Flat(f, s, n) == f = [i \in 1..n |-> IF i = 1 THEN s[i] ELSE f[i-1] \o s[i]]

LEMMA FlatExists ==
  ASSUME NEW s \in Seq(Seq(Event)), NEW m \in 0..Len(s)
  PROVE  \E f \in [1..m -> Seq(Event)] : Flat(f, s, m)
<1> DEFINE S == {n \in Nat : n <= Len(s) =>
                   \E f \in [1..n -> Seq(Event)] : Flat(f, s, n)}
<1>1. 0 \in S
  <2> DEFINE e == [i \in 1..0 |-> <<>>]
  <2>1. e \in [1..0 -> Seq(Event)] /\ Flat(e, s, 0)
    BY DEF Flat
  <2> QED BY <2>1
<1>2. ASSUME NEW n \in Nat, n \in S PROVE n + 1 \in S
  <2> SUFFICES ASSUME n + 1 <= Len(s)
               PROVE  \E f \in [1..(n + 1) -> Seq(Event)] : Flat(f, s, n + 1)
    BY DEF S
  <2>1. Len(s) \in Nat /\ n <= Len(s)
    BY LenProperties
  <2>2. PICK f \in [1..n -> Seq(Event)] : Flat(f, s, n)
    BY <1>2, <2>1
  <2> DEFINE last == IF n + 1 = 1 THEN s[n + 1] ELSE f[n] \o s[n + 1]
             g == [i \in 1..(n + 1) |-> IF i = n + 1 THEN last ELSE f[i]]
  <2>3. s[n + 1] \in Seq(Event)
    BY <2>1, ElementOfSeq
  <2>4. last \in Seq(Event)
    <3>1. CASE n = 0
      BY <3>1, <2>3
    <3>2. CASE n # 0
      <4>1. n \in 1..n
        BY <3>2
      <4>2. f[n] \in Seq(Event)
        BY <4>1, <2>2
      <4> QED BY <4>2, <2>3, <3>2, ConcatProperties
    <3> QED BY <3>1, <3>2
  <2> HIDE DEF last
  <2>5. g \in [1..(n + 1) -> Seq(Event)]
    <3>1. ASSUME NEW i \in 1..(n + 1), i # n + 1 PROVE f[i] \in Seq(Event)
      BY <3>1, <2>2
    <3> QED BY <3>1, <2>4
  <2>6. ASSUME NEW i \in 1..(n + 1)
        PROVE  g[i] = IF i = 1 THEN s[i] ELSE g[i - 1] \o s[i]
    <3>1. CASE i = n + 1
      <4>1. g[i] = last
        BY <3>1
      <4>2. i # 1 => i - 1 \in 1..(n + 1) /\ i - 1 # n + 1 /\ i - 1 = n
        BY <3>1
      <4>3. i # 1 => g[i - 1] = f[n]
        BY <4>2
      <4> QED BY <4>1, <4>3, <3>1 DEF last
    <3>2. CASE i # n + 1
      <4>1. i \in 1..n /\ g[i] = f[i]
        BY <3>2
      <4>2. f[i] = IF i = 1 THEN s[i] ELSE f[i - 1] \o s[i]
        BY <4>1, <2>2 DEF Flat
      <4>3. i # 1 => i - 1 \in 1..(n + 1) /\ i - 1 # n + 1
        BY <4>1
      <4>4. i # 1 => g[i - 1] = f[i - 1]
        BY <4>3
      <4> QED BY <4>1, <4>2, <4>4
    <3> QED BY <3>1, <3>2
  <2>7. Flat(g, s, n + 1)
    BY <2>6 DEF Flat
  <2> QED BY <2>5, <2>7
<1> HIDE DEF S
<1>3. \A n \in Nat : n \in S
  <2>1. \A n \in Nat : n \in S => n + 1 \in S
    BY <1>2
  <2> QED BY <1>1, <2>1, Inductive
<1>4. m \in Nat /\ m <= Len(s)
  BY LenProperties
<1> QED BY <1>3, <1>4 DEF S

Agree(s, t, k) == \A i \in 1..k : s[i] = t[i]

LEMMA FlatAgrees ==
  ASSUME NEW s, NEW t, NEW n \in Nat, NEW m \in Nat, NEW k \in Nat, k <= n, k <= m,
         NEW f, NEW g, Flat(f, s, n), Flat(g, t, m), Agree(s, t, k)
  PROVE  Agree(f, g, k)
<1> DEFINE S == {i \in Nat : i \in 1..k => f[i] = g[i]}
<1>1. 0 \in S
  OBVIOUS
<1>2. ASSUME NEW i \in Nat, i \in S PROVE i + 1 \in S
  <2> SUFFICES ASSUME i + 1 \in 1..k PROVE f[i + 1] = g[i + 1]
    BY DEF S
  <2>1. i + 1 \in 1..n /\ i + 1 \in 1..m /\ s[i + 1] = t[i + 1] /\ (i + 1) - 1 = i
    BY DEF Agree
  <2>2. f[i + 1] = IF i + 1 = 1 THEN s[i + 1] ELSE f[i] \o s[i + 1]
    BY <2>1 DEF Flat
  <2>3. g[i + 1] = IF i + 1 = 1 THEN t[i + 1] ELSE g[i] \o t[i + 1]
    BY <2>1 DEF Flat
  <2>4. i + 1 # 1 => f[i] = g[i]
    BY <1>2
  <2> QED BY <2>1, <2>2, <2>3, <2>4
<1> HIDE DEF S
<1>3. \A i \in Nat : i \in S
  BY <1>1, <1>2, Inductive
<1> QED BY <1>3 DEF S, Agree

LEMMA Flattened ==
  ASSUME NEW s \in Seq(Seq(Event)), Len(s) # 0
  PROVE  \E f \in [1..Len(s) -> Seq(Event)] : Flat(f, s, Len(s)) /\ FlattenSeq(s) = f[Len(s)]
<1> DEFINE F == CHOOSE f : Flat(f, s, Len(s))
<1>1. Len(s) \in 0..Len(s)
  BY LenProperties
<1>2. PICK g \in [1..Len(s) -> Seq(Event)] : Flat(g, s, Len(s))
  BY <1>1, FlatExists
<1>3. Flat(F, s, Len(s))
  BY <1>2
<1>4. FlattenSeq(s) = F[Len(s)]
  BY DEF FlattenSeq, Flat
<1> HIDE DEF F
<1>5. \A i \in 1..Len(s) : F[i] = g[i]
  <2>1. Len(s) \in Nat /\ Len(s) <= Len(s)
    BY <1>1
  <2>2. Agree(s, s, Len(s))
    BY DEF Agree
  <2>3. Agree(F, g, Len(s))
    BY <2>1, <2>2, <1>2, <1>3, FlatAgrees
  <2> QED BY <2>3 DEF Agree
<1>6. Len(s) \in 1..Len(s)
  BY <1>1
<1> QED BY <1>2, <1>4, <1>5, <1>6

LEMMA FlattenAppends ==
  ASSUME NEW s \in Seq(Seq(Event)), NEW x \in Seq(Event)
  PROVE  /\ FlattenSeq(s) \in Seq(Event)
         /\ FlattenSeq(Append(s, x)) = FlattenSeq(s) \o x
<1> DEFINE t == Append(s, x)
<1>1. /\ t \in Seq(Seq(Event)) /\ Len(t) = Len(s) + 1 /\ t[Len(t)] = x
      /\ \A i \in 1..Len(s) : t[i] = s[i]
      /\ Len(s) \in Nat
  BY LenProperties
<1> HIDE DEF t
<1>2. PICK g \in [1..Len(t) -> Seq(Event)] :
        Flat(g, t, Len(t)) /\ FlattenSeq(t) = g[Len(t)]
  BY <1>1, Flattened
<1>3. g[Len(t)] = IF Len(t) = 1 THEN t[Len(t)] ELSE g[Len(t) - 1] \o t[Len(t)]
  <2>1. Len(t) \in 1..Len(t)
    BY <1>1
  <2> QED BY <1>2, <2>1 DEF Flat
<1>4. CASE Len(s) = 0
  <2>1. FlattenSeq(s) = s /\ s = <<>>
    BY <1>4, EmptySeq DEF FlattenSeq
  <2>2. FlattenSeq(t) = x
    BY <1>1, <1>2, <1>3, <1>4
  <2> QED BY <2>1, <2>2, ConcatEmptySeq, EmptySeq DEF t
<1>5. CASE Len(s) # 0
  <2>1. PICK f \in [1..Len(s) -> Seq(Event)] :
          Flat(f, s, Len(s)) /\ FlattenSeq(s) = f[Len(s)]
    BY <1>5, Flattened
  <2>2. \A i \in 1..Len(s) : f[i] = g[i]
    <3>1. Len(t) \in Nat /\ Len(s) \in Nat /\ Len(s) <= Len(t) /\ Len(s) <= Len(s)
      BY <1>1
    <3>2. Agree(s, t, Len(s))
      BY <1>1 DEF Agree
    <3>3. Agree(f, g, Len(s))
      BY <3>1, <3>2, <1>2, <2>1, FlatAgrees
    <3> QED BY <3>3 DEF Agree
  <2>3. Len(s) \in 1..Len(s) /\ Len(t) - 1 = Len(s) /\ Len(t) # 1
    BY <1>1, <1>5
  <2>4. FlattenSeq(t) = FlattenSeq(s) \o x
    BY <1>1, <1>2, <1>3, <2>1, <2>2, <2>3
  <2>5. FlattenSeq(s) \in Seq(Event)
    BY <2>1, <2>3
  <2> QED BY <2>4, <2>5 DEF t
<1> QED BY <1>4, <1>5
-----------------------------------------------------------------------------
(* A window, and what it lowers to. *)
OfThread(e) == e.kind \in {"start", "switch"}

Runtime ==
  [buffer : Seq(Event), attached : Seq([eventIndex : Nat, of : Nat]),
   known : SUBSET Contexts, lastCtx : Contexts, tracking : BOOLEAN, stopped : BOOLEAN,
   batches : Nat, events : Seq(Event),
   spans : Seq([opened : Nat, closed : Int, request : Requests]),
   lost : SUBSET Nat, failed : BOOLEAN]

WellFormed(r) ==
  /\ r \in Runtime
  /\ \A a \in DOMAIN r.attached : r.attached[a].eventIndex \in 1..Len(r.buffer)

(* push, before the window may be flushed. *)
Added(r, kind, id, of) ==
  [r EXCEPT !.buffer = Append(@, [kind |-> kind, id |-> id]),
            !.attached = IF of = 0 THEN @
                         ELSE Append(@, [eventIndex |-> Len(r.buffer) + 1, of |-> of])]

(* What an entry lowers to. *)
Entries(kind, id, of) ==
  IF kind = "event" THEN <<[kind |-> "event", id |-> id], [kind |-> "value", id |-> of]>>
  ELSE IF kind = "write" THEN <<[kind |-> "write", id |-> of]>>
  ELSE <<[kind |-> kind, id |-> id]>>

(* What push is called with. *)
Pushed(kind, id, of) ==
  /\ id \in Nat /\ of \in Nat
  /\ \/ kind \in {"start", "switch"} /\ of = 0
     \/ kind \in {"event", "write"} /\ of # 0

LEMMA Fields ==
  ASSUME NEW r \in Runtime
  PROVE  /\ r.buffer \in Seq(Event) /\ r.attached \in Seq([eventIndex : Nat, of : Nat])
         /\ r.known \in SUBSET Contexts /\ r.lastCtx \in Contexts /\ r.batches \in Nat
         /\ r.events \in Seq(Event)
         /\ r.spans \in Seq([opened : Nat, closed : Int, request : Requests])
         /\ r.lost \in SUBSET Nat
         /\ Len(r.buffer) \in Nat /\ DOMAIN r.buffer = 1..Len(r.buffer)
         /\ Len(r.attached) \in Nat /\ DOMAIN r.attached = 1..Len(r.attached)
         /\ Len(r.events) \in Nat /\ DOMAIN r.events = 1..Len(r.events)
         /\ Len(r.spans) \in Nat /\ DOMAIN r.spans = 1..Len(r.spans)
<1>1. /\ r.buffer \in Seq(Event) /\ r.attached \in Seq([eventIndex : Nat, of : Nat])
      /\ r.known \in SUBSET Contexts /\ r.lastCtx \in Contexts /\ r.batches \in Nat
      /\ r.events \in Seq(Event)
      /\ r.spans \in Seq([opened : Nat, closed : Int, request : Requests])
      /\ r.lost \in SUBSET Nat
  BY DEF Runtime
<1> QED BY <1>1, LenProperties

LEMMA Greatest ==
  ASSUME NEW n \in Nat, NEW T \in SUBSET (1..n), T # {}
  PROVE  Max(T) \in T /\ \A y \in T : Max(T) >= y
<1> DEFINE S == {n - x : x \in T}
<1>0. \A x \in T : n - x \in Nat
  OBVIOUS
<1>1. S \in SUBSET Nat /\ S # {}
  BY <1>0
<1>2. PICK d \in S : \A y \in S : d <= y
  BY <1>1, NatMin
<1>3. PICK x \in T : d = n - x
  BY <1>2
<1>4. ASSUME NEW y \in T PROVE x >= y
  <2>1. d <= n - y
    BY <1>2
  <2> QED BY <1>3, <2>1
<1> QED BY <1>4 DEF Max

LEMMA LowerTyped ==
  ASSUME NEW r, WellFormed(r), NEW i \in DOMAIN r.buffer
  PROVE  Lower(r, i) \in Seq(Event)
<1> DEFINE entries == {j \in DOMAIN r.attached : r.attached[j].eventIndex = i}
           e == r.buffer[i]
<1>1. /\ r.buffer \in Seq(Event) /\ r.attached \in Seq([eventIndex : Nat, of : Nat])
      /\ Len(r.attached) \in Nat /\ DOMAIN r.attached = 1..Len(r.attached)
      /\ DOMAIN r.buffer = 1..Len(r.buffer)
  BY Fields DEF WellFormed
<1>2. e \in Event
  BY <1>1
<1>3. Attachment(r, i) = <<>> \/ \E n \in Nat : Attachment(r, i) = <<n>>
  <2>1. CASE entries = {}
    BY <2>1 DEF Attachment
  <2>2. CASE entries # {}
    <3>1. Max(entries) \in entries
      <4>1. entries \in SUBSET (1..Len(r.attached))
        BY <1>1
      <4> HIDE DEF entries
      <4> QED BY <4>1, <1>1, <2>2, Greatest
    <3>2. r.attached[Max(entries)] \in [eventIndex : Nat, of : Nat]
      <4>1. Max(entries) \in 1..Len(r.attached)
        BY <3>1, <1>1
      <4> HIDE DEF entries
      <4> QED BY <4>1, <1>1, ElementOfSeq
    <3>3. r.attached[Max(entries)].of \in Nat
      BY <3>2
    <3> QED BY <3>3, <2>2 DEF Attachment
  <2> QED BY <2>1, <2>2
<1> DEFINE values == Attachment(r, i)
           said(kind) == [j \in DOMAIN values |-> [kind |-> kind, id |-> values[j]]]
<1>4. ASSUME NEW kind \in {"value", "write"} PROVE said(kind) \in Seq(Event)
  <2>1. CASE values = <<>>
    <3>1. said(kind) = <<>>
      BY <2>1
    <3> QED BY <3>1
  <2>2. CASE \E n \in Nat : values = <<n>>
    <3>1. PICK n \in Nat : values = <<n>>
      BY <2>2
    <3>2. DOMAIN values = 1..1 /\ values[1] = n
      BY <3>1
    <3>3. said(kind) \in [1..1 -> Event]
      BY <3>2 DEF Event
    <3> QED BY <3>3
  <2> QED BY <1>3, <2>1, <2>2
<1> HIDE DEF said, values, entries, e
<1>5. Lower(r, i) = CASE e.kind = "event" -> <<e>> \o said("value")
                      [] e.kind = "write" -> said("write")
                      [] OTHER -> <<e>>
  BY DEF Lower, said, values, e
<1>6. <<e>> \in Seq(Event) /\ said("value") \in Seq(Event) /\ said("write") \in Seq(Event)
  BY <1>2, <1>4
<1>7. <<e>> \o said("value") \in Seq(Event)
  BY <1>6, ConcatProperties
<1>8. CASE e.kind = "event"
  BY <1>5, <1>7, <1>8
<1>9. CASE e.kind = "write"
  BY <1>5, <1>6, <1>9
<1>10. CASE e.kind # "event" /\ e.kind # "write"
  BY <1>5, <1>6, <1>10
<1> QED BY <1>8, <1>9, <1>10

AddedTo(q, r, kind, id, of) ==
  /\ WellFormed(q)
  /\ Len(q.buffer) = Len(r.buffer) + 1
  /\ q.buffer[Len(r.buffer) + 1] = [kind |-> kind, id |-> id]
  /\ \A i \in DOMAIN r.buffer : q.buffer[i] = r.buffer[i]
  /\ of = 0 => q.attached = r.attached
  /\ of # 0 =>
       /\ Len(q.attached) = Len(r.attached) + 1
       /\ q.attached[Len(r.attached) + 1] = [eventIndex |-> Len(r.buffer) + 1, of |-> of]
  /\ \A a \in DOMAIN r.attached : q.attached[a] = r.attached[a]

LEMMA Adding ==
  ASSUME NEW r, WellFormed(r), NEW kind, NEW id, NEW of, Pushed(kind, id, of)
  PROVE  AddedTo(Added(r, kind, id, of), r, kind, id, of)
<1> DEFINE q == Added(r, kind, id, of)
           n == Len(r.buffer)
           entry == [kind |-> kind, id |-> id]
           values == [eventIndex |-> n + 1, of |-> of]
<1>1. /\ r \in Runtime
      /\ \A a \in DOMAIN r.attached : r.attached[a].eventIndex \in 1..n
  BY DEF WellFormed
<1>2. /\ r.buffer \in Seq(Event) /\ r.attached \in Seq([eventIndex : Nat, of : Nat])
      /\ n \in Nat /\ DOMAIN r.buffer = 1..n
      /\ Len(r.attached) \in Nat /\ DOMAIN r.attached = 1..Len(r.attached)
  BY <1>1, Fields
<1>3. entry \in Event /\ values \in [eventIndex : Nat, of : Nat]
  BY <1>2 DEF Pushed, Event
<1>4. /\ q.buffer = Append(r.buffer, entry)
      /\ q.attached = IF of = 0 THEN r.attached ELSE Append(r.attached, values)
      /\ q \in Runtime
  <2>1. q = [r EXCEPT !.buffer = Append(r.buffer, entry),
                      !.attached = IF of = 0 THEN r.attached ELSE Append(r.attached, values)]
    BY DEF Added
  <2>2. /\ Append(r.buffer, entry) \in Seq(Event)
        /\ (IF of = 0 THEN r.attached ELSE Append(r.attached, values))
             \in Seq([eventIndex : Nat, of : Nat])
    <3> HIDE DEF entry, values
    <3>1. Append(r.buffer, entry) \in Seq(Event)
      BY <1>2, <1>3
    <3>2. Append(r.attached, values) \in Seq([eventIndex : Nat, of : Nat])
      BY <1>2, <1>3
    <3> QED BY <1>2, <3>1, <3>2
  <2> HIDE DEF n, entry, values
  <2> QED BY <2>1, <2>2, <1>1 DEF Runtime
<1> HIDE DEF entry, values, q
<1>5. /\ Len(q.buffer) = n + 1 /\ q.buffer[n + 1] = entry
      /\ \A i \in DOMAIN r.buffer : q.buffer[i] = r.buffer[i]
  BY <1>2, <1>3, <1>4
<1>6. of # 0 => /\ Len(q.attached) = Len(r.attached) + 1
                /\ q.attached[Len(r.attached) + 1] = values
  BY <1>2, <1>3, <1>4
<1>7. \A a \in DOMAIN r.attached : q.attached[a] = r.attached[a]
  BY <1>2, <1>3, <1>4
<1>8. \A a \in DOMAIN q.attached : q.attached[a].eventIndex \in 1..Len(q.buffer)
  <2>0. \A i : i \in 1..n => i \in 1..Len(q.buffer)
    <3> HIDE DEF n
    <3> QED BY <1>2, <1>5
  <2>1. CASE of = 0
    BY <2>0, <2>1, <1>1, <1>4
  <2>2. CASE of # 0
    <3>1. ASSUME NEW a \in DOMAIN q.attached
          PROVE  a \in DOMAIN r.attached \/ a = Len(r.attached) + 1
      <4>1. DOMAIN q.attached = 1..Len(q.attached)
        BY <1>4, Fields
      <4>2. DOMAIN q.attached = 1..(Len(r.attached) + 1)
        BY <4>1, <2>2, <1>6
      <4> QED BY <4>2, <1>2
    <3>2. values.eventIndex \in 1..Len(q.buffer)
      BY <1>2, <1>5 DEF values
    <3>3. ASSUME NEW a \in DOMAIN r.attached
          PROVE  q.attached[a].eventIndex \in 1..Len(q.buffer)
      BY <2>0, <1>1, <1>7
    <3>4. q.attached[Len(r.attached) + 1].eventIndex \in 1..Len(q.buffer)
      BY <3>2, <1>6, <2>2
    <3> QED BY <3>1, <3>3, <3>4
  <2> QED BY <2>1, <2>2
<1>9. WellFormed(q)
  BY <1>4, <1>8 DEF WellFormed
<1> QED BY <1>4, <1>5, <1>6, <1>7, <1>9 DEF entry, values, AddedTo, q

(* What waits in the window, lowered, and all that will have reached the   *)
(* native recorder if no batch fails.                                      *)
Due(r) == IF r.stopped THEN r.events ELSE r.events \o Lowered(r)

LEMMA LoweredTyped ==
  ASSUME NEW r, WellFormed(r)
  PROVE  /\ [i \in DOMAIN r.buffer |-> Lower(r, i)] \in Seq(Seq(Event))
         /\ Lowered(r) \in Seq(Event)
         /\ r.buffer = <<>> => Lowered(r) = <<>>
<1> DEFINE parts == [i \in DOMAIN r.buffer |-> Lower(r, i)]
<1>1. Len(r.buffer) \in Nat /\ DOMAIN r.buffer = 1..Len(r.buffer)
  BY Fields DEF WellFormed
<1>2. \A i \in 1..Len(r.buffer) : Lower(r, i) \in Seq(Event)
  BY <1>1, LowerTyped
<1>3. parts \in Seq(Seq(Event))
  <2>1. parts = [i \in 1..Len(r.buffer) |-> Lower(r, i)]
    BY <1>1
  <2>2. [i \in 1..Len(r.buffer) |-> Lower(r, i)] \in [1..Len(r.buffer) -> Seq(Event)]
    BY <1>2
  <2> QED BY <1>1, <2>1, <2>2, SeqDef
<1>4. Lowered(r) \in Seq(Event)
  <2>1. <<>> \in Seq(Event)
    BY EmptySeq
  <2>2. FlattenSeq(parts) \in Seq(Event)
    BY <1>3, <2>1, FlattenAppends
  <2> QED BY <2>2 DEF Lowered
<1>5. ASSUME r.buffer = <<>> PROVE Lowered(r) = <<>>
  <2>1. parts = <<>>
    BY <1>5
  <2>2. Lowered(r) = FlattenSeq(<<>>)
    BY <2>1 DEF Lowered
  <2> QED BY <2>2 DEF FlattenSeq
<1> QED BY <1>3, <1>4, <1>5

LEMMA Paired ==
  ASSUME NEW a, NEW b
  PROVE  <<a>> \o <<b>> = <<a, b>>
<1>1. <<a>> \in Seq({a, b}) /\ <<b>> \in Seq({a, b}) /\ <<a, b>> \in Seq({a, b})
  OBVIOUS
<1> DEFINE s == <<a>>
           t == <<b>>
           u == <<a, b>>
<1>2. /\ Len(s) = 1 /\ Len(t) = 1 /\ Len(u) = 2 /\ s[1] = a /\ t[1] = b /\ u[1] = a /\ u[2] = b
      /\ s \in Seq({a, b}) /\ t \in Seq({a, b}) /\ u \in Seq({a, b})
  BY <1>1
<1> HIDE DEF s, t, u
<1>3. s \o t \in Seq({a, b}) /\ Len(s \o t) = 2
      /\ \A i \in 1..2 : (s \o t)[i] = IF i <= 1 THEN s[i] ELSE t[i - 1]
  <2>1. /\ s \o t \in Seq({a, b}) /\ Len(s \o t) = Len(s) + Len(t)
        /\ \A i \in 1..(Len(s) + Len(t)) :
             (s \o t)[i] = IF i <= Len(s) THEN s[i] ELSE t[i - Len(s)]
    <3> DEFINE S == {a, b}
    <3>1. s \in Seq(S) /\ t \in Seq(S)
      BY <1>2
    <3> HIDE DEF S
    <3>2. /\ s \o t \in Seq(S) /\ Len(s \o t) = Len(s) + Len(t)
          /\ \A i \in 1..(Len(s) + Len(t)) :
             (s \o t)[i] = IF i <= Len(s) THEN s[i] ELSE t[i - Len(s)]
      BY <3>1, ConcatProperties
    <3> QED BY <3>2 DEF S
  <2>2. Len(s) + Len(t) = 2
    BY <1>2
  <2> QED BY <1>2, <2>1, <2>2
<1>4. \A i \in 1..2 : (s \o t)[i] = u[i]
  BY <1>2, <1>3
<1> QED BY <1>2, <1>3, <1>4, SeqEqual DEF s, t, u

LEMMA AddingLowers ==
  ASSUME NEW r, WellFormed(r), NEW kind, NEW id, NEW of, Pushed(kind, id, of)
  PROVE  Lowered(Added(r, kind, id, of)) = Lowered(r) \o Entries(kind, id, of)
<1> DEFINE q == Added(r, kind, id, of)
           n == Len(r.buffer)
<1>0. AddedTo(q, r, kind, id, of)
  BY Adding
<1>1. WellFormed(q) /\ r \in Runtime /\ q \in Runtime
  BY <1>0 DEF AddedTo, WellFormed
<1>2. /\ Len(q.buffer) = n + 1
      /\ q.buffer[n + 1] = [kind |-> kind, id |-> id]
      /\ \A i \in DOMAIN r.buffer : q.buffer[i] = r.buffer[i]
      /\ of = 0 => q.attached = r.attached
      /\ of # 0 => /\ Len(q.attached) = Len(r.attached) + 1
                   /\ q.attached[Len(r.attached) + 1] = [eventIndex |-> n + 1, of |-> of]
      /\ \A a \in DOMAIN r.attached : q.attached[a] = r.attached[a]
  BY <1>0 DEF AddedTo
<1>3. /\ n \in Nat /\ DOMAIN r.buffer = 1..n /\ DOMAIN q.buffer = 1..Len(q.buffer)
      /\ DOMAIN r.attached = 1..Len(r.attached) /\ DOMAIN q.attached = 1..Len(q.attached)
      /\ Len(r.attached) \in Nat
      /\ \A a \in DOMAIN r.attached : r.attached[a].eventIndex \in 1..n
  BY <1>1, Fields DEF WellFormed
<1> HIDE DEF q, n
<1> DEFINE of_(x, i) == {a \in DOMAIN x.attached : x.attached[a].eventIndex = i}
<1>4. ASSUME NEW i \in 1..n PROVE Lower(q, i) = Lower(r, i)
  <2>1. of_(q, i) = of_(r, i)
    <3>1. ASSUME NEW a \in DOMAIN q.attached, a \notin DOMAIN r.attached
          PROVE  q.attached[a].eventIndex = n + 1
      BY <3>1, <1>2, <1>3
    <3>2. DOMAIN r.attached \subseteq DOMAIN q.attached /\ i # n + 1
      BY <1>2, <1>3
    <3> QED BY <3>1, <3>2, <1>2
  <2>2. Attachment(q, i) = Attachment(r, i)
    <3>1. CASE of_(r, i) = {}
      BY <3>1, <2>1 DEF Attachment
    <3>2. CASE of_(r, i) # {}
      <4>1. of_(r, i) \in SUBSET (1..Len(r.attached))
        BY <1>3
      <4>2. Max(of_(r, i)) \in of_(r, i)
        <5> HIDE DEF of_
        <5> QED BY <4>1, <1>3, <3>2, Greatest
      <4>3. q.attached[Max(of_(r, i))] = r.attached[Max(of_(r, i))]
        BY <4>2, <1>2
      <4> QED BY <4>3, <2>1, <3>2 DEF Attachment
    <3> QED BY <3>1, <3>2
  <2>3. q.buffer[i] = r.buffer[i]
    BY <1>2, <1>3
  <2> QED BY <2>2, <2>3 DEF Lower
<1>5. Lower(q, n + 1) = Entries(kind, id, of)
  <2>1. CASE of = 0
    <3>1. of_(q, n + 1) = {}
      BY <2>1, <1>2, <1>3
    <3>2. kind \in {"start", "switch"}
      BY <2>1 DEF Pushed
    <3>3. Lower(q, n + 1) = <<[kind |-> kind, id |-> id]>>
      BY <1>2, <3>2 DEF Lower
    <3> QED BY <3>2, <3>3 DEF Entries
  <2>2. CASE of # 0
    <3> DEFINE m == Len(r.attached) + 1
    <3>1. of_(q, n + 1) = {m}
      <4>1. m \in DOMAIN q.attached /\ q.attached[m].eventIndex = n + 1
        BY <2>2, <1>2, <1>3
      <4>2. \A a \in DOMAIN q.attached : a # m => a \in DOMAIN r.attached
        BY <2>2, <1>2, <1>3
      <4>3. \A a \in DOMAIN r.attached : q.attached[a].eventIndex # n + 1
        BY <1>2, <1>3
      <4> QED BY <4>1, <4>2, <4>3
    <3>2. Max(of_(q, n + 1)) = m
      <4>1. of_(q, n + 1) \in SUBSET (1..m) /\ m \in Nat
        BY <3>1, <1>3
      <4>2. Max(of_(q, n + 1)) \in of_(q, n + 1)
        <5> HIDE DEF of_, m
        <5> QED BY <4>1, <3>1, Greatest
      <4> QED BY <4>2, <3>1
    <3>3. Attachment(q, n + 1) = <<of>>
      <4>1. Attachment(q, n + 1) = <<q.attached[Max(of_(q, n + 1))].of>>
        BY <3>1 DEF Attachment
      <4>2. q.attached[m].of = of
        BY <1>2, <2>2
      <4> QED BY <4>1, <4>2, <3>2
    <3>4. DOMAIN <<of>> = 1..1 /\ <<of>>[1] = of
      OBVIOUS
    <3>5. kind \in {"event", "write"}
      BY <2>2 DEF Pushed
    <3>6. CASE kind = "event"
      <4>1. Lower(q, n + 1) = <<[kind |-> kind, id |-> id]>> \o
                [j \in DOMAIN <<of>> |-> [kind |-> "value", id |-> <<of>>[j]]]
        <5>1. q.buffer[n + 1] = [kind |-> kind, id |-> id] /\ q.buffer[n + 1].kind = "event"
          BY <1>2, <3>6
        <5>2. Lower(q, n + 1) = <<q.buffer[n + 1]>> \o
                [j \in DOMAIN Attachment(q, n + 1) |->
                   [kind |-> "value", id |-> Attachment(q, n + 1)[j]]]
          BY <5>1, Zenon DEF Lower
        <5> QED BY <5>1, <5>2, <3>3, Zenon
      <4>2. [j \in DOMAIN <<of>> |-> [kind |-> "value", id |-> <<of>>[j]]]
              = <<[kind |-> "value", id |-> of]>>
        BY <3>4
      <4>3. <<[kind |-> kind, id |-> id]>> \o <<[kind |-> "value", id |-> of]>>
              = <<[kind |-> kind, id |-> id], [kind |-> "value", id |-> of]>>
        BY Paired
      <4> QED BY <4>1, <4>2, <4>3, <3>6 DEF Entries
    <3>7. CASE kind = "write"
      <4>1. Lower(q, n + 1) = [j \in DOMAIN <<of>> |-> [kind |-> "write", id |-> <<of>>[j]]]
        BY <1>2, <3>3, <3>7 DEF Lower
      <4>2. [j \in DOMAIN <<of>> |-> [kind |-> "write", id |-> <<of>>[j]]]
              = <<[kind |-> "write", id |-> of]>>
        BY <3>4
      <4> QED BY <4>1, <4>2, <3>7 DEF Entries
    <3> QED BY <3>5, <3>6, <3>7
  <2> QED BY <2>1, <2>2
<1> DEFINE s == [i \in DOMAIN r.buffer |-> Lower(r, i)]
           t == [i \in DOMAIN q.buffer |-> Lower(q, i)]
           x == Entries(kind, id, of)
<1>6. s \in Seq(Seq(Event)) /\ t \in Seq(Seq(Event)) /\ x \in Seq(Event)
  <2>1. n + 1 \in DOMAIN q.buffer
    BY <1>2, <1>3
  <2> QED BY <1>1, <1>5, <2>1, LoweredTyped, LowerTyped
<1>7. t = Append(s, x)
  <2>1. Len(s) = n /\ Len(t) = n + 1
    BY <1>2, <1>3, <1>6
  <2>2. \A i \in 1..n : t[i] = s[i]
    BY <1>2, <1>3, <1>4
  <2>3. t[n + 1] = x
    BY <1>2, <1>3, <1>5
  <2> HIDE DEF s, t, x
  <2>4. /\ Append(s, x) \in Seq(Seq(Event)) /\ Len(Append(s, x)) = n + 1
        /\ \A i \in 1..n : Append(s, x)[i] = s[i]
        /\ Append(s, x)[n + 1] = x
    BY <1>6, <2>1, <1>3
  <2>5. \A i \in 1..Len(t) : t[i] = Append(s, x)[i]
    <3>1. \A i \in 1..(n + 1) : i = n + 1 \/ i \in 1..n
      BY <1>3
    <3> QED BY <2>1, <2>2, <2>3, <2>4, <3>1
  <2> QED BY <1>6, <2>1, <2>4, <2>5, SeqEqual
<1>8. FlattenSeq(t) = FlattenSeq(s) \o x
  <2> HIDE DEF s, x, t
  <2> QED BY <1>6, <1>7, FlattenAppends
<1> QED BY <1>8 DEF Lowered, q

LEMMA DueGrows ==
  ASSUME NEW r, WellFormed(r), ~r.stopped, NEW kind, NEW id, NEW of, Pushed(kind, id, of)
  PROVE  /\ Due(r) \in Seq(Event) /\ Entries(kind, id, of) \in Seq(Event)
         /\ Due(Added(r, kind, id, of)) = Due(r) \o Entries(kind, id, of)
<1> DEFINE q == Added(r, kind, id, of)
<1>1. q.events = r.events /\ q.stopped = r.stopped /\ r.events \in Seq(Event)
  BY Fields DEF Added, WellFormed, Runtime
<1>2. Lowered(r) \in Seq(Event)
  BY LoweredTyped
<1>3. Entries(kind, id, of) \in Seq(Event)
  <2>1. [kind |-> "event", id |-> id] \in Event /\ [kind |-> "value", id |-> of] \in Event
        /\ [kind |-> "write", id |-> of] \in Event /\ [kind |-> kind, id |-> id] \in Event
    BY DEF Pushed, Event
  <2> QED BY <2>1 DEF Entries
<1>4. Lowered(q) = Lowered(r) \o Entries(kind, id, of)
  BY AddingLowers
<1>5. Due(q) = r.events \o Lowered(q) /\ Due(r) = r.events \o Lowered(r)
  BY <1>1 DEF Due
<1>6. (r.events \o Lowered(r)) \o Entries(kind, id, of)
        = r.events \o (Lowered(r) \o Entries(kind, id, of))
  <2> DEFINE a == r.events
             b == Lowered(r)
             c == Entries(kind, id, of)
  <2>1. a \in Seq(Event) /\ b \in Seq(Event) /\ c \in Seq(Event)
    BY <1>1, <1>2, <1>3
  <2> HIDE DEF a, b, c
  <2>2. (a \o b) \o c = a \o (b \o c)
    BY <2>1, ConcatAssociative, SMTT(60)
  <2> QED BY <2>2 DEF a, b, c
<1>7. r.events \o Lowered(r) \in Seq(Event)
  BY <1>1, <1>2, ConcatProperties
<1> QED BY <1>3, <1>4, <1>5, <1>6, <1>7

-----------------------------------------------------------------------------
(* What a vector of events S tells of a history rec, apart from the lost:  *)
(* named parts of the invariant, over any vector and any history.          *)
Record == [kind : {"check", "event", "write", "open", "close"}, ctx : Contexts,
           of : Nat, open : SUBSET Requests]
OwnIn(S) == {i \in DOMAIN S : OfProgram(S[i])}
RecordsOf(rec, n) == {j \in DOMAIN rec : OfProgram(rec[j]) /\ rec[j].of = n}

(* A number is recorded once, and what is lost was recorded. *)
Once(rec, lost) ==
  /\ \A j1, j2 \in DOMAIN rec :
       OfProgram(rec[j1]) /\ OfProgram(rec[j2]) /\ rec[j1].of = rec[j2].of => j1 = j2
  /\ \A n \in lost : RecordsOf(rec, n) # {}
(* The program's events were recorded, in this order, and are not lost. *)
Told(S, rec, lost) ==
  /\ \A i \in OwnIn(S) : RecordsOf(rec, S[i].id) # {} /\ S[i].id \notin lost
  /\ \A i1, i2 \in OwnIn(S) : \A j1 \in RecordsOf(rec, S[i1].id), j2 \in RecordsOf(rec, S[i2].id) :
       i1 < i2 => j1 < j2
(* What was recorded is told or lost. *)
Complete(S, rec, lost) ==
  \A j \in DOMAIN rec : OfProgram(rec[j]) /\ rec[j].of \notin lost =>
    \E i \in OwnIn(S) : S[i].id = rec[j].of
(* An event is followed by its values, and nothing else is. *)
ValuesIn(S) ==
  /\ \A i \in DOMAIN S : S[i].kind = "event" =>
       i < Len(S) /\ S[i + 1] = [kind |-> "value", id |-> S[i].id]
  /\ \A i \in DOMAIN S : S[i].kind = "value" => i > 1 /\ S[i - 1].kind = "event"
(* The thread at i, and the rules of the threads; last is the last one,    *)
(* known are those started.                                                *)
ThreadIn(S, i, c) ==
  \E k \in 1..i : OfThread(S[k]) /\ S[k].id = c /\ \A m \in (k + 1)..i : ~OfThread(S[m])
EventsThreaded(S, rec) ==
  \A i \in DOMAIN S : S[i].kind = "event" =>
    \E j \in RecordsOf(rec, S[i].id) : ThreadIn(S, i, rec[j].ctx)
Started1(S, c) == \E k \in DOMAIN S : S[k] = [kind |-> "start", id |-> c]
ThreadsIn(S, known, last) ==
  /\ \A i \in DOMAIN S : S[i].kind = "switch" =>
       \E j \in 1..(i - 1) : S[j] = [kind |-> "start", id |-> S[i].id]
  /\ \A i, j \in DOMAIN S : S[i].kind = "start" /\ S[i] = S[j] => i = j
  /\ ThreadIn(S, Len(S), last)
  /\ \A c \in Contexts : c \in known <=> Started1(S, c)
(* A span's marks hold the program's events of its request's flight. *)
Inside(span, i) ==
  IF span.closed = Unclosed THEN i > span.opened ELSE i \in (span.opened + 1)..span.closed
SpansIn(S, spans, rec) ==
  \A s \in DOMAIN spans : \A i \in OwnIn(S) : \A j \in RecordsOf(rec, S[i].id) :
    Inside(spans[s], i) <=> spans[s].request \in rec[j].open
(* ids are the numbers of the program's events after the first base. *)
Waiting(S, base, ids) ==
  /\ \A n \in ids : \E i \in OwnIn(S) : i > base /\ S[i].id = n
  /\ \A i \in OwnIn(S) : i > base => S[i].id \in ids

Extends(S, T) == Len(S) <= Len(T) /\ \A i \in 1..Len(S) : T[i] = S[i]

LEMMA Concatenated ==
  ASSUME NEW S \in Seq(Event), NEW x \in Seq(Event)
  PROVE  /\ S \o x \in Seq(Event) /\ Extends(S, S \o x)
         /\ Len(S \o x) = Len(S) + Len(x) /\ Len(S) \in Nat /\ Len(x) \in Nat
         /\ DOMAIN (S \o x) = 1..(Len(S) + Len(x)) /\ DOMAIN S = 1..Len(S)
         /\ \A i \in 1..Len(x) : (S \o x)[Len(S) + i] = x[i]
<1>1. /\ S \o x \in Seq(Event) /\ Len(S \o x) = Len(S) + Len(x)
      /\ \A i \in 1..(Len(S) + Len(x)) :
           (S \o x)[i] = IF i <= Len(S) THEN S[i] ELSE x[i - Len(S)]
  BY ConcatProperties
<1>2. Len(S) \in Nat /\ Len(x) \in Nat /\ DOMAIN S = 1..Len(S)
  BY LenProperties
<1> DEFINE T == S \o x
<1>3. DOMAIN T = 1..Len(T)
  <2>1. T \in Seq(Event)
    BY <1>1
  <2> HIDE DEF T
  <2> QED BY <2>1, LenProperties
<1>4. \A i \in 1..Len(S) : T[i] = S[i]
  <2>1. \A i \in 1..Len(S) : i \in 1..(Len(S) + Len(x)) /\ i <= Len(S)
    BY <1>2
  <2> QED BY <1>1, <2>1
<1>5. \A i \in 1..Len(x) : T[Len(S) + i] = x[i]
  <2>1. \A i \in 1..Len(x) : /\ Len(S) + i \in 1..(Len(S) + Len(x)) /\ ~(Len(S) + i <= Len(S))
                             /\ (Len(S) + i) - Len(S) = i
    BY <1>2
  <2> QED BY <1>1, <2>1
<1>6. Len(S) <= Len(T)
  BY <1>1, <1>2
<1> QED BY <1>1, <1>2, <1>3, <1>4, <1>5, <1>6 DEF Extends

(* A history that grows by a record of the tracker or the middleware. *)
LEMMA Noted ==
  ASSUME NEW rec \in Seq(Record), NEW e \in Record
  PROVE  /\ Append(rec, e) \in Seq(Record) /\ DOMAIN rec = 1..Len(rec) /\ Len(rec) \in Nat
         /\ DOMAIN Append(rec, e) = 1..(Len(rec) + 1)
         /\ \A j \in DOMAIN rec : Append(rec, e)[j] = rec[j] /\ j < Len(rec) + 1
         /\ Append(rec, e)[Len(rec) + 1] = e
         /\ \A n : ~(OfProgram(e) /\ e.of = n) => RecordsOf(Append(rec, e), n) = RecordsOf(rec, n)
         /\ OfProgram(e) =>
              RecordsOf(Append(rec, e), e.of) = RecordsOf(rec, e.of) \cup {Len(rec) + 1}
<1> DEFINE after == Append(rec, e)
<1>1. /\ after \in Seq(Record) /\ DOMAIN rec = 1..Len(rec) /\ Len(rec) \in Nat
      /\ Len(after) = Len(rec) + 1
      /\ \A j \in 1..Len(rec) : after[j] = rec[j]
      /\ after[Len(rec) + 1] = e
  BY LenProperties
<1>2. DOMAIN after = 1..(Len(rec) + 1)
  <2> HIDE DEF after
  <2> QED BY <1>1, LenProperties
<1> HIDE DEF after
<1>3. \A j \in DOMAIN after : j \in DOMAIN rec \/ j = Len(rec) + 1
  BY <1>1, <1>2
<1>4. DOMAIN rec \subseteq DOMAIN after /\ Len(rec) + 1 \in DOMAIN after
      /\ \A j \in DOMAIN rec : j < Len(rec) + 1
  BY <1>1, <1>2
<1>5. ASSUME NEW n, ~(OfProgram(e) /\ e.of = n) PROVE RecordsOf(after, n) = RecordsOf(rec, n)
  BY <1>1, <1>3, <1>4, <1>5 DEF RecordsOf
<1>6. OfProgram(e) => RecordsOf(after, e.of) = RecordsOf(rec, e.of) \cup {Len(rec) + 1}
  BY <1>1, <1>3, <1>4 DEF RecordsOf
<1> QED BY <1>1, <1>2, <1>4, <1>5, <1>6 DEF after

LEMMA QuietRecord ==
  ASSUME NEW rec \in Seq(Record), NEW e \in Record, ~OfProgram(e),
         NEW S, NEW lost, NEW spans
  PROVE  /\ Once(rec, lost) => Once(Append(rec, e), lost)
         /\ Told(S, rec, lost) => Told(S, Append(rec, e), lost)
         /\ Complete(S, rec, lost) => Complete(S, Append(rec, e), lost)
         /\ EventsThreaded(S, rec) => EventsThreaded(S, Append(rec, e))
         /\ SpansIn(S, spans, rec) => SpansIn(S, spans, Append(rec, e))
<1> DEFINE after == Append(rec, e)
<1>1. /\ \A n : RecordsOf(after, n) = RecordsOf(rec, n)
      /\ \A j \in DOMAIN rec : after[j] = rec[j]
      /\ \A n : RecordsOf(rec, n) \subseteq DOMAIN rec
  BY Noted DEF RecordsOf
<1>2. \A j \in DOMAIN after : OfProgram(after[j]) => j \in DOMAIN rec
  BY Noted
<1> HIDE DEF after
<1>3. Once(rec, lost) => Once(after, lost)
  BY <1>1, <1>2 DEF Once
<1>4. Told(S, rec, lost) => Told(S, after, lost)
  BY <1>1 DEF Told
<1>5. Complete(S, rec, lost) => Complete(S, after, lost)
  BY <1>1, <1>2 DEF Complete
<1>6. EventsThreaded(S, rec) => EventsThreaded(S, after)
  BY <1>1 DEF EventsThreaded
<1>7. SpansIn(S, spans, rec) => SpansIn(S, spans, after)
  BY <1>1 DEF SpansIn
<1> QED BY <1>3, <1>4, <1>5, <1>6, <1>7 DEF after

LEMMA Prefix ==
  ASSUME NEW S \in Seq(Event), NEW T \in Seq(Event), Extends(S, T)
  PROVE  /\ \A i \in OwnIn(S) : i \in OwnIn(T) /\ T[i] = S[i] /\ i <= Len(S) /\ i \in Nat
         /\ \A i \in OwnIn(T) : i <= Len(S) => i \in OwnIn(S)
         /\ \A i \in OwnIn(T) : i \in Nat
         /\ Len(S) \in Nat
<1>1. /\ Len(S) \in Nat /\ Len(T) \in Nat /\ DOMAIN S = 1..Len(S) /\ DOMAIN T = 1..Len(T)
  BY LenProperties
<1> QED BY <1>1 DEF Extends, OwnIn

(* The batch of a window fails: S is told, ids are lost. *)
LEMMA FailedBatch ==
  ASSUME NEW S \in Seq(Event), NEW T \in Seq(Event), Extends(S, T),
         NEW rec \in Seq(Record), NEW lost, NEW ids, NEW spans,
         Once(rec, lost), Told(T, rec, lost), Complete(T, rec, lost),
         Waiting(T, Len(S), ids), SpansIn(T, spans, rec)
  PROVE  /\ Once(rec, lost \cup ids) /\ Told(S, rec, lost \cup ids)
         /\ Complete(S, rec, lost \cup ids) /\ SpansIn(S, spans, rec)
<1>1. /\ \A i \in OwnIn(S) : i \in OwnIn(T) /\ T[i] = S[i] /\ i <= Len(S) /\ i \in Nat
      /\ \A i \in OwnIn(T) : i <= Len(S) => i \in OwnIn(S)
      /\ \A i \in OwnIn(T) : i \in Nat
      /\ Len(S) \in Nat
  BY Prefix
<1>2. Once(rec, lost \cup ids)
  <2>1. ASSUME NEW n \in ids PROVE RecordsOf(rec, n) # {}
    BY DEF Waiting, Told
  <2> QED BY <2>1 DEF Once
<1>3. Told(S, rec, lost \cup ids)
  <2>1. ASSUME NEW i \in OwnIn(S), S[i].id \in ids PROVE FALSE
    <3>1. PICK k \in OwnIn(T) : k > Len(S) /\ T[k].id = S[i].id
      BY <2>1 DEF Waiting
    <3>2. i \in OwnIn(T) /\ T[i].id = S[i].id /\ i < k
      BY <1>1, <3>1
    <3>3. PICK j \in RecordsOf(rec, S[i].id) : TRUE
      BY <3>2 DEF Told
    <3>4. j < j
      BY <3>1, <3>2, <3>3 DEF Told
    <3>5. j \in Nat
      BY <3>3, LenProperties DEF RecordsOf
    <3> QED BY <3>4, <3>5
  <2>2. ASSUME NEW i \in OwnIn(S)
        PROVE  RecordsOf(rec, S[i].id) # {} /\ S[i].id \notin lost
    BY <1>1 DEF Told
  <2>3. ASSUME NEW i1 \in OwnIn(S), NEW i2 \in OwnIn(S),
               NEW j1 \in RecordsOf(rec, S[i1].id), NEW j2 \in RecordsOf(rec, S[i2].id), i1 < i2
        PROVE  j1 < j2
    BY <1>1, <2>3 DEF Told
  <2> QED BY <2>1, <2>2, <2>3 DEF Told
<1>4. Complete(S, rec, lost \cup ids)
  <2> SUFFICES ASSUME NEW j \in DOMAIN rec, OfProgram(rec[j]), rec[j].of \notin lost \cup ids
               PROVE  \E i \in OwnIn(S) : S[i].id = rec[j].of
    BY DEF Complete
  <2>1. PICK i \in OwnIn(T) : T[i].id = rec[j].of
    BY DEF Complete
  <2>2. ~(i > Len(S))
    BY <2>1 DEF Waiting
  <2>3. i \in OwnIn(S) /\ T[i] = S[i]
    BY <1>1, <2>2
  <2> QED BY <2>1, <2>3
<1>5. SpansIn(S, spans, rec)
  BY <1>1 DEF SpansIn
<1> QED BY <1>2, <1>3, <1>4, <1>5

(* An entry of the tracker's, for a context c. *)
Tracked(S, T, kind, c) ==
  /\ S \in Seq(Event) /\ kind \in {"start", "switch"} /\ c \in Contexts
  /\ T = S \o <<[kind |-> kind, id |-> c]>>

LEMMA ThreadEntry ==
  ASSUME NEW S, NEW T, NEW kind, NEW c, Tracked(S, T, kind, c)
  PROVE  /\ \A rec, lost : Told(S, rec, lost) => Told(T, rec, lost)
         /\ \A rec, lost : Complete(S, rec, lost) => Complete(T, rec, lost)
         /\ ValuesIn(S) => ValuesIn(T)
         /\ \A rec : EventsThreaded(S, rec) => EventsThreaded(T, rec)
         /\ \A rec, spans : SpansIn(S, spans, rec) => SpansIn(T, spans, rec)
         /\ \A base, ids : Waiting(S, base, ids) => Waiting(T, base, ids)
<1> DEFINE e == [kind |-> kind, id |-> c]
           n == Len(S)
<1>0. /\ S \in Seq(Event) /\ kind \in {"start", "switch"} /\ c \in Contexts
      /\ T = S \o <<[kind |-> kind, id |-> c]>>
  BY DEF Tracked
<1>1. e \in Event
  BY <1>0, Bounds DEF Event
<1>2. <<e>> \in Seq(Event) /\ Len(<<e>>) = 1 /\ <<e>>[1] = e
  BY <1>1
<1>3. /\ T \in Seq(Event) /\ n \in Nat /\ DOMAIN S = 1..n
      /\ DOMAIN T = 1..(n + 1) /\ Len(T) = n + 1
      /\ \A i \in 1..n : T[i] = S[i]
      /\ T[n + 1] = e
  <2> HIDE DEF e
  <2>1. 1 \in 1..Len(<<e>>) /\ T = S \o <<e>>
    BY <1>0, <1>2 DEF e
  <2> QED BY <1>0, <1>2, <2>1, Concatenated DEF Extends
<1>4. e.kind \notin {"event", "write", "value"}
  BY <1>0
<1> HIDE DEF e, n
<1>5. /\ OwnIn(T) = OwnIn(S)
      /\ \A i \in OwnIn(S) : T[i] = S[i]
  <2>1. n + 1 \notin OwnIn(T)
    BY <1>3, <1>4 DEF OwnIn, OfProgram
  <2>2. \A i \in 1..(n + 1) : i = n + 1 \/ i \in 1..n
    BY <1>3
  <2>3. \A i \in 1..n : i \in 1..(n + 1)
    BY <1>3
  <2> QED BY <1>3, <2>1, <2>2, <2>3 DEF OwnIn
<1>6. \A rec, lost : Told(S, rec, lost) => Told(T, rec, lost)
  BY <1>5 DEF Told
<1>7. \A rec, lost : Complete(S, rec, lost) => Complete(T, rec, lost)
  BY <1>5 DEF Complete
<1>8. \A rec, spans : SpansIn(S, spans, rec) => SpansIn(T, spans, rec)
  BY <1>5 DEF SpansIn
<1>9. \A base, ids : Waiting(S, base, ids) => Waiting(T, base, ids)
  BY <1>5 DEF Waiting
<1>10. ASSUME ValuesIn(S) PROVE ValuesIn(T)
  <2>1. ASSUME NEW i \in DOMAIN T, T[i].kind = "event"
        PROVE  i < Len(T) /\ T[i + 1] = [kind |-> "value", id |-> T[i].id]
    <3>1. i # n + 1
      BY <2>1, <1>3, <1>4
    <3>2. i \in DOMAIN S /\ S[i] = T[i]
      BY <3>1, <1>3
    <3>3. i < n /\ S[i + 1] = [kind |-> "value", id |-> S[i].id]
      BY <3>2, <1>10, <2>1 DEF ValuesIn, n
    <3>4. i + 1 \in 1..n
      BY <3>2, <3>3, <1>3
    <3> QED BY <3>2, <3>3, <3>4, <1>3
  <2>2. ASSUME NEW i \in DOMAIN T, T[i].kind = "value"
        PROVE  i > 1 /\ T[i - 1].kind = "event"
    <3>1. i # n + 1
      BY <2>2, <1>3, <1>4
    <3>2. i \in DOMAIN S /\ S[i] = T[i]
      BY <3>1, <1>3
    <3>3. i > 1 /\ S[i - 1].kind = "event"
      BY <3>2, <1>10, <2>2 DEF ValuesIn
    <3>4. i - 1 \in 1..n
      BY <3>2, <3>3, <1>3
    <3> QED BY <3>3, <3>4, <1>3
  <2> QED BY <2>1, <2>2 DEF ValuesIn
<1>11. ASSUME NEW rec, EventsThreaded(S, rec) PROVE EventsThreaded(T, rec)
  <2> SUFFICES ASSUME NEW i \in DOMAIN T, T[i].kind = "event"
               PROVE  \E j \in RecordsOf(rec, T[i].id) : ThreadIn(T, i, rec[j].ctx)
    BY DEF EventsThreaded
  <2>1. i \in DOMAIN S /\ S[i] = T[i] /\ i \in 1..n
    BY <1>3, <1>4
  <2>2. PICK j \in RecordsOf(rec, S[i].id) : ThreadIn(S, i, rec[j].ctx)
    BY <1>11, <2>1 DEF EventsThreaded
  <2>3. \A k \in 1..i : T[k] = S[k]
    BY <2>1, <1>3
  <2>4. ThreadIn(T, i, rec[j].ctx)
    <3>1. PICK k \in 1..i : OfThread(S[k]) /\ S[k].id = rec[j].ctx
                            /\ \A m \in (k + 1)..i : ~OfThread(S[m])
      BY <2>2 DEF ThreadIn
    <3>2. \A m \in (k + 1)..i : T[m] = S[m]
      BY <2>3, <2>1, <1>3
    <3>3. T[k] = S[k]
      BY <2>3
    <3> QED BY <3>1, <3>2, <3>3 DEF ThreadIn
  <2> QED BY <2>1, <2>4
<1> QED BY <1>6, <1>7, <1>8, <1>9, <1>10, <1>11

LEMMA ThreadRules ==
  ASSUME NEW S, NEW T, NEW kind, NEW c, Tracked(S, T, kind, c), NEW known, NEW last,
         ThreadsIn(S, known, last), kind = "start" <=> c \notin known
  PROVE  ThreadsIn(T, known \cup {c}, c)
<1> DEFINE e == [kind |-> kind, id |-> c]
           n == Len(S)
<1>0. /\ S \in Seq(Event) /\ kind \in {"start", "switch"} /\ c \in Contexts
      /\ T = S \o <<[kind |-> kind, id |-> c]>>
  BY DEF Tracked
<1>1. e \in Event
  BY <1>0, Bounds DEF Event
<1>2. <<e>> \in Seq(Event) /\ Len(<<e>>) = 1 /\ <<e>>[1] = e
  BY <1>1
<1>3. /\ T \in Seq(Event) /\ n \in Nat /\ DOMAIN S = 1..n
      /\ DOMAIN T = 1..(n + 1) /\ Len(T) = n + 1
      /\ \A i \in 1..n : T[i] = S[i]
      /\ T[n + 1] = e
  <2> HIDE DEF e
  <2>1. 1 \in 1..Len(<<e>>) /\ T = S \o <<e>>
    BY <1>0, <1>2 DEF e
  <2> QED BY <1>0, <1>2, <2>1, Concatenated DEF Extends
<1>4. e.kind = kind /\ e.id = c
  OBVIOUS
<1>5. \A i \in DOMAIN T : i = n + 1 \/ (i \in DOMAIN S /\ i \in 1..n /\ T[i] = S[i])
  BY <1>3
<1>6. \A d : Started1(T, d) <=> Started1(S, d) \/ (kind = "start" /\ d = c)
  <2>1. DOMAIN S \subseteq DOMAIN T /\ n + 1 \in DOMAIN T
    BY <1>3
  <2>2. \A d : e = [kind |-> "start", id |-> d] <=> kind = "start" /\ d = c
    OBVIOUS
  <2> HIDE DEF e, n
  <2> QED BY <1>3, <1>5, <2>1, <2>2 DEF Started1
<1> HIDE DEF e, n
<1>7. ASSUME NEW i \in DOMAIN T, T[i].kind = "switch"
      PROVE  \E j \in 1..(i - 1) : T[j] = [kind |-> "start", id |-> T[i].id]
  <2>1. CASE i = n + 1
    <3>1. kind = "switch" /\ T[i].id = c
      BY <1>3, <1>4, <1>7, <2>1
    <3>2. PICK j \in DOMAIN S : S[j] = [kind |-> "start", id |-> c]
      BY <1>0, <3>1 DEF ThreadsIn, Started1
    <3>3. j \in 1..(i - 1) /\ T[j] = S[j]
      BY <1>3, <2>1
    <3> QED BY <3>1, <3>2, <3>3
  <2>2. CASE i # n + 1
    <3>1. i \in DOMAIN S /\ T[i] = S[i] /\ i \in 1..n
      BY <1>5, <2>2
    <3>2. PICK j \in 1..(i - 1) : S[j] = [kind |-> "start", id |-> S[i].id]
      BY <1>7, <3>1 DEF ThreadsIn
    <3>3. T[j] = S[j]
      BY <1>3, <3>1
    <3> QED BY <3>1, <3>2, <3>3
  <2> QED BY <2>1, <2>2
<1>8. ASSUME NEW i \in DOMAIN T, NEW j \in DOMAIN T, T[i].kind = "start", T[i] = T[j]
      PROVE  i = j
  <2>1. ASSUME NEW k \in DOMAIN S, T[n + 1].kind = "start", T[n + 1] = T[k] PROVE FALSE
    <3>1. kind = "start" /\ S[k] = e /\ e = [kind |-> "start", id |-> c]
      BY <2>1, <1>3, <1>4 DEF e
    <3>2. Started1(S, c)
      BY <3>1 DEF Started1
    <3> QED BY <1>0, <3>1, <3>2 DEF ThreadsIn
  <2>2. CASE i \in DOMAIN S /\ j \in DOMAIN S /\ T[i] = S[i] /\ T[j] = S[j]
    BY <1>8, <2>2 DEF ThreadsIn
  <2> QED BY <1>5, <1>8, <2>1, <2>2
<1>9. ThreadIn(T, Len(T), c)
  <2>1. n + 1 \in 1..Len(T) /\ OfThread(T[n + 1]) /\ T[n + 1].id = c
    BY <1>0, <1>3, <1>4 DEF OfThread
  <2>2. \A m \in ((n + 1) + 1)..Len(T) : FALSE
    BY <1>3
  <2> QED BY <2>1, <2>2 DEF ThreadIn
<1>10. ASSUME NEW d \in Contexts PROVE d \in known \cup {c} <=> Started1(T, d)
  <2>1. d \in known <=> Started1(S, d)
    BY DEF ThreadsIn
  <2>2. c \in known <=> Started1(S, c)
    BY <1>0 DEF ThreadsIn
  <2> QED BY <2>1, <2>2, <1>6
<1> QED BY <1>7, <1>8, <1>9, <1>10 DEF ThreadsIn

(* An entry of the program's, pushed as it is recorded. *)
Entered(S, T, rec, after, kind, ctx, n, open) ==
  /\ S \in Seq(Event) /\ rec \in Seq(Record)
  /\ kind \in {"event", "write"} /\ ctx \in Contexts /\ n \in Nat /\ open \subseteq Requests
  /\ T = S \o Entries(kind, n, n)
  /\ after = Append(rec, [kind |-> kind, ctx |-> ctx, of |-> n, open |-> open])
  /\ RecordsOf(rec, n) = {}

GrownBy(S, T, kind, n) ==
  /\ T \in Seq(Event) /\ Len(S) \in Nat /\ Len(T) \in Nat /\ n \in Nat
  /\ DOMAIN S = 1..Len(S) /\ DOMAIN T = 1..Len(T)
  /\ \A i \in 1..Len(S) : T[i] = S[i]
  /\ T[Len(S) + 1] = [kind |-> kind, id |-> n]
  /\ \/ kind = "event" /\ Len(T) = Len(S) + 2
        /\ T[Len(S) + 2] = [kind |-> "value", id |-> n]
     \/ kind = "write" /\ Len(T) = Len(S) + 1
  /\ OwnIn(T) = OwnIn(S) \cup {Len(S) + 1}
  /\ \A i \in OwnIn(S) : T[i] = S[i] /\ i \in Nat /\ i < Len(S) + 1

LEMMA EntryShape ==
  ASSUME NEW S, NEW T, NEW rec, NEW after, NEW kind, NEW ctx, NEW n, NEW open,
         Entered(S, T, rec, after, kind, ctx, n, open)
  PROVE  GrownBy(S, T, kind, n)
<1> DEFINE m == Len(S)
           x == Entries(kind, n, n)
<1>1. S \in Seq(Event) /\ n \in Nat /\ kind \in {"event", "write"} /\ T = S \o x
  BY DEF Entered
<1>2. /\ x \in Seq(Event) /\ Len(x) \in Nat /\ Len(x) >= 1
      /\ x[1] = [kind |-> kind, id |-> n]
      /\ \/ kind = "event" /\ Len(x) = 2 /\ x[2] = [kind |-> "value", id |-> n]
         \/ kind = "write" /\ Len(x) = 1
  <2>1. /\ [kind |-> "event", id |-> n] \in Event /\ [kind |-> "value", id |-> n] \in Event
        /\ [kind |-> "write", id |-> n] \in Event
    BY <1>1 DEF Event
  <2>2. CASE kind = "event"
    BY <2>1, <2>2 DEF Entries
  <2>3. CASE kind = "write"
    BY <2>1, <2>3 DEF Entries
  <2> QED BY <1>1, <2>2, <2>3
<1> HIDE DEF x
<1>3. /\ T \in Seq(Event) /\ m \in Nat /\ Len(T) = m + Len(x) /\ Len(T) \in Nat
      /\ DOMAIN S = 1..m /\ DOMAIN T = 1..Len(T)
      /\ \A i \in 1..m : T[i] = S[i]
      /\ \A i \in 1..Len(x) : T[m + i] = x[i]
  <2>1. /\ S \o x \in Seq(Event) /\ Extends(S, S \o x)
        /\ Len(S \o x) = m + Len(x) /\ m \in Nat
        /\ DOMAIN (S \o x) = 1..(m + Len(x)) /\ DOMAIN S = 1..m
        /\ \A i \in 1..Len(x) : (S \o x)[m + i] = x[i]
    BY <1>1, <1>2, Concatenated
  <2> QED BY <1>1, <1>2, <2>1 DEF Extends
<1>4. T[m + 1] = x[1]
  BY <1>2, <1>3
<1>5. \/ kind = "event" /\ Len(T) = m + 2 /\ T[m + 2] = [kind |-> "value", id |-> n]
      \/ kind = "write" /\ Len(T) = m + 1
  <2>1. CASE kind = "event" /\ Len(x) = 2 /\ x[2] = [kind |-> "value", id |-> n]
    <3>1. 2 \in 1..Len(x)
      BY <2>1
    <3>2. T[m + 2] = x[2]
      BY <3>1, <1>3
    <3> QED BY <2>1, <3>2, <1>3
  <2>2. CASE kind = "write" /\ Len(x) = 1
    BY <2>2, <1>3
  <2> QED BY <1>2, <2>1, <2>2
<1>6. OwnIn(T) = OwnIn(S) \cup {m + 1}
  <2>1. m + 1 \in OwnIn(T)
    BY <1>1, <1>2, <1>3, <1>4 DEF OwnIn, OfProgram
  <2>2. ASSUME NEW i \in OwnIn(T) PROVE i \in OwnIn(S) \cup {m + 1}
    <3>1. i \in 1..Len(T) /\ T[i].kind \in {"event", "write"}
      BY <1>3 DEF OwnIn, OfProgram
    <3>2. ~(kind = "event" /\ i = m + 2)
      BY <3>1, <1>5
    <3>3. i \in 1..m \/ i = m + 1
      BY <3>1, <3>2, <1>3, <1>5
    <3> QED BY <3>1, <3>3, <1>3 DEF OwnIn, OfProgram
  <2>3. ASSUME NEW i \in OwnIn(S) PROVE i \in OwnIn(T)
    <3>1. i \in 1..m /\ i \in 1..Len(T)
      BY <1>2, <1>3 DEF OwnIn
    <3> QED BY <3>1, <1>3 DEF OwnIn
  <2> QED BY <2>1, <2>2, <2>3
<1>7. \A i \in OwnIn(S) : T[i] = S[i] /\ i \in Nat /\ i < m + 1
  BY <1>3 DEF OwnIn
<1> QED BY <1>1, <1>2, <1>3, <1>4, <1>5, <1>6, <1>7 DEF GrownBy

RecordedAs(rec, after, ctx, n, open) ==
  /\ after \in Seq(Record) /\ Len(rec) \in Nat
  /\ DOMAIN after = DOMAIN rec \cup {Len(rec) + 1}
  /\ \A j \in DOMAIN rec : after[j] = rec[j] /\ j \in Nat /\ j < Len(rec) + 1
  /\ OfProgram(after[Len(rec) + 1]) /\ after[Len(rec) + 1].of = n
  /\ after[Len(rec) + 1].ctx = ctx /\ after[Len(rec) + 1].open = open
  /\ RecordsOf(after, n) = {Len(rec) + 1}
  /\ \A k : k # n => RecordsOf(after, k) = RecordsOf(rec, k)

LEMMA EntryHistory ==
  ASSUME NEW S, NEW T, NEW rec, NEW after, NEW kind, NEW ctx, NEW n, NEW open,
         Entered(S, T, rec, after, kind, ctx, n, open)
  PROVE  RecordedAs(rec, after, ctx, n, open)
<1> DEFINE e == [kind |-> kind, ctx |-> ctx, of |-> n, open |-> open]
<1>1. e \in Record /\ rec \in Seq(Record) /\ after = Append(rec, e) /\ RecordsOf(rec, n) = {}
  BY DEF Entered, Record
<1>2. OfProgram(e) /\ e.of = n /\ e.ctx = ctx /\ e.open = open
  BY DEF Entered, OfProgram
<1> HIDE DEF e
<1>3. /\ after \in Seq(Record) /\ DOMAIN rec = 1..Len(rec) /\ Len(rec) \in Nat
      /\ DOMAIN after = 1..(Len(rec) + 1)
      /\ \A j \in DOMAIN rec : after[j] = rec[j] /\ j < Len(rec) + 1
      /\ after[Len(rec) + 1] = e
      /\ \A k : ~(OfProgram(e) /\ e.of = k) => RecordsOf(after, k) = RecordsOf(rec, k)
      /\ RecordsOf(after, e.of) = RecordsOf(rec, e.of) \cup {Len(rec) + 1}
  BY <1>1, <1>2, Noted
<1>4. DOMAIN after = DOMAIN rec \cup {Len(rec) + 1}
  BY <1>3
<1> QED BY <1>1, <1>2, <1>3, <1>4 DEF RecordedAs

LEMMA EntryTold ==
  ASSUME NEW S, NEW T, NEW rec, NEW after, NEW kind, NEW ctx, NEW n, NEW open,
         Entered(S, T, rec, after, kind, ctx, n, open), NEW lost, n \notin lost,
         Once(rec, lost), Told(S, rec, lost), Complete(S, rec, lost)
  PROVE  Once(after, lost) /\ Told(T, after, lost) /\ Complete(T, after, lost)
<1>1. /\ Len(S) \in Nat
      /\ T[Len(S) + 1] = [kind |-> kind, id |-> n]
      /\ OwnIn(T) = OwnIn(S) \cup {Len(S) + 1}
      /\ \A i \in OwnIn(S) : T[i] = S[i] /\ i \in Nat /\ i < Len(S) + 1
  <2>1. GrownBy(S, T, kind, n)
    BY EntryShape
  <2> QED BY <2>1 DEF GrownBy
<1>2. /\ Len(rec) \in Nat
      /\ DOMAIN after = DOMAIN rec \cup {Len(rec) + 1}
      /\ \A j \in DOMAIN rec : after[j] = rec[j] /\ j \in Nat /\ j < Len(rec) + 1
      /\ OfProgram(after[Len(rec) + 1]) /\ after[Len(rec) + 1].of = n
      /\ RecordsOf(after, n) = {Len(rec) + 1}
      /\ \A k : k # n => RecordsOf(after, k) = RecordsOf(rec, k)
  <2>1. RecordedAs(rec, after, ctx, n, open)
    BY EntryHistory
  <2> QED BY <2>1 DEF RecordedAs
<1>3. RecordsOf(rec, n) = {} /\ \A k : RecordsOf(rec, k) \subseteq DOMAIN rec
  BY DEF Entered, RecordsOf
<1>4. T[Len(S) + 1].id = n
  BY <1>1
<1>5. \A i \in OwnIn(S) : S[i].id # n /\ T[i].id = S[i].id
                          /\ RecordsOf(after, T[i].id) = RecordsOf(rec, S[i].id)
  BY <1>1, <1>2, <1>3 DEF Told
<1>6. Once(after, lost)
  <2>1. ASSUME NEW j \in DOMAIN rec, OfProgram(rec[j]) PROVE rec[j].of # n
    BY <1>3, <2>1 DEF RecordsOf
  <2>2. ASSUME NEW j1 \in DOMAIN after, NEW j2 \in DOMAIN after,
               OfProgram(after[j1]), OfProgram(after[j2]), after[j1].of = after[j2].of
        PROVE  j1 = j2
    <3>1. CASE j1 \in DOMAIN rec /\ j2 \in DOMAIN rec
      BY <3>1, <2>2, <1>2 DEF Once
    <3>2. CASE j1 \notin DOMAIN rec \/ j2 \notin DOMAIN rec
      BY <3>2, <2>1, <2>2, <1>2
    <3> QED BY <3>1, <3>2
  <2>3. \A k \in lost : RecordsOf(after, k) # {}
    BY <1>2 DEF Once
  <2> QED BY <2>2, <2>3 DEF Once
<1>7. Told(T, after, lost)
  <2>1. \A i \in OwnIn(T) : RecordsOf(after, T[i].id) # {} /\ T[i].id \notin lost
    BY <1>1, <1>2, <1>4, <1>5, SMTT(60) DEF Told
  <2>2. ASSUME NEW i1 \in OwnIn(T), NEW i2 \in OwnIn(T),
               NEW j1 \in RecordsOf(after, T[i1].id), NEW j2 \in RecordsOf(after, T[i2].id), i1 < i2
        PROVE  j1 < j2
    <3>1. i1 \in OwnIn(S)
      BY <1>1, <2>2
    <3>2. j1 \in RecordsOf(rec, S[i1].id) /\ j1 \in DOMAIN rec
      BY <3>1, <1>3, <1>5
    <3>3. CASE i2 \in OwnIn(S)
      BY <3>1, <3>2, <3>3, <1>5, <2>2 DEF Told
    <3>4. CASE i2 = Len(S) + 1
      BY <3>2, <3>4, <1>2, <1>4
    <3> QED BY <3>3, <3>4, <1>1
  <2> QED BY <2>1, <2>2 DEF Told
<1>8. Complete(T, after, lost)
  <2> SUFFICES ASSUME NEW j \in DOMAIN after, OfProgram(after[j]), after[j].of \notin lost
               PROVE  \E i \in OwnIn(T) : T[i].id = after[j].of
    BY DEF Complete
  <2>1. CASE j = Len(rec) + 1
    BY <2>1, <1>1, <1>2, <1>4
  <2>2. CASE j \in DOMAIN rec
    <3>1. after[j] = rec[j]
      BY <2>2, <1>2
    <3>2. PICK i \in OwnIn(S) : S[i].id = rec[j].of
      BY <2>2, <3>1 DEF Complete
    <3> QED BY <3>1, <3>2, <1>1, <1>5
  <2> QED BY <2>1, <2>2, <1>2
<1> QED BY <1>6, <1>7, <1>8

LEMMA EntryValues ==
  ASSUME NEW S, NEW T, NEW rec, NEW after, NEW kind, NEW ctx, NEW n, NEW open,
         Entered(S, T, rec, after, kind, ctx, n, open), ValuesIn(S)
  PROVE  ValuesIn(T)
<1> DEFINE m == Len(S)
<1>1. /\ m \in Nat /\ Len(T) \in Nat
      /\ DOMAIN S = 1..m /\ DOMAIN T = 1..Len(T)
      /\ \A i \in 1..m : T[i] = S[i]
      /\ T[m + 1] = [kind |-> kind, id |-> n]
      /\ \/ kind = "event" /\ Len(T) = m + 2
            /\ T[m + 2] = [kind |-> "value", id |-> n]
         \/ kind = "write" /\ Len(T) = m + 1
  <2>1. GrownBy(S, T, kind, n)
    BY EntryShape
  <2> QED BY <2>1 DEF GrownBy
<1>0. m \in Nat /\ Len(T) \in Nat
  BY <1>1, Zenon
<1> HIDE DEF m
<1>2. /\ \A i \in DOMAIN T : i \in 1..m \/ i = m + 1 \/ (kind = "event" /\ i = m + 2)
      /\ m < Len(T) /\ kind \in {"event", "write"}
  <2>1. CASE kind = "event" /\ Len(T) = m + 2
    BY <1>1, <2>1
  <2>2. CASE kind = "write" /\ Len(T) = m + 1
    BY <1>1, <2>2
  <2> QED BY <1>1, <2>1, <2>2
<1>3. /\ \A i \in 1..m : S[i].kind = "event" =>
            i < m /\ S[i + 1] = [kind |-> "value", id |-> S[i].id]
      /\ \A i \in 1..m : S[i].kind = "value" => i > 1 /\ S[i - 1].kind = "event"
  BY <1>1 DEF ValuesIn, m
<1>4. ASSUME NEW i \in DOMAIN T, T[i].kind = "event"
      PROVE  i < Len(T) /\ T[i + 1] = [kind |-> "value", id |-> T[i].id]
  <2>1. CASE i \in 1..m
    <3>1. S[i].kind = "event" /\ T[i] = S[i]
      BY <2>1, <1>1, <1>4
    <3>2. i < m /\ S[i + 1] = [kind |-> "value", id |-> S[i].id]
      BY <2>1, <3>1, <1>3
    <3>3. i + 1 \in 1..m /\ i < Len(T)
      BY <2>1, <3>2, <1>2, <1>0
    <3>4. T[i + 1] = S[i + 1]
      BY <3>3, <1>1
    <3> QED BY <3>1, <3>2, <3>3, <3>4
  <2>2. CASE i = m + 1
    <3>0. T[m + 1].kind = kind /\ T[m + 1].id = n
      <4>1. T[m + 1] = [kind |-> kind, id |-> n]
        BY <1>1
      <4> QED BY <4>1
    <3>1. kind = "event" /\ T[m + 1].kind = kind /\ T[m + 1].id = n
      BY <2>2, <3>0, <1>4
    <3>2. Len(T) = m + 2 /\ T[m + 2] = [kind |-> "value", id |-> n]
      BY <1>1, <3>1
    <3>3. i < Len(T) /\ i + 1 = m + 2
      BY <2>2, <3>2, <1>1
    <3> QED BY <2>2, <3>1, <3>2, <3>3
  <2>3. CASE kind = "event" /\ i = m + 2
    BY <2>3, <1>1, <1>4
  <2> QED BY <1>2, <2>1, <2>2, <2>3
<1>5. ASSUME NEW i \in DOMAIN T, T[i].kind = "value"
      PROVE  i > 1 /\ T[i - 1].kind = "event"
  <2>1. CASE i \in 1..m
    <3>1. S[i].kind = "value" /\ T[i] = S[i]
      BY <2>1, <1>1, <1>5
    <3>2. i > 1 /\ S[i - 1].kind = "event"
      BY <2>1, <3>1, <1>3
    <3>3. i - 1 \in 1..m
      BY <2>1, <3>2, <1>0
    <3>4. T[i - 1] = S[i - 1]
      BY <3>3, <1>1
    <3> QED BY <3>2, <3>4
  <2>2. CASE i = m + 1
    <3>1. T[m + 1].kind = kind /\ kind # "value"
      <4>1. T[m + 1] = [kind |-> kind, id |-> n]
        BY <1>1
      <4> QED BY <4>1, <1>2
    <3> QED BY <2>2, <3>1, <1>5
  <2>3. CASE kind = "event" /\ i = m + 2
    <3>1. i > 1 /\ i - 1 = m + 1
      BY <2>3, <1>1
    <3> QED BY <2>3, <3>1, <1>1
  <2> QED BY <1>2, <2>1, <2>2, <2>3
<1> QED BY <1>4, <1>5 DEF ValuesIn

LEMMA ThreadKept ==
  ASSUME NEW S, NEW T, NEW kind, NEW n, GrownBy(S, T, kind, n), NEW c, NEW i \in 0..Len(S),
         ThreadIn(S, i, c), NEW k \in i..Len(T), i = Len(S) \/ k = i
  PROVE  ThreadIn(T, k, c)
<1>1. /\ Len(S) \in Nat /\ Len(T) \in Nat /\ \A h \in 1..Len(S) : T[h] = S[h]
      /\ T[Len(S) + 1] = [kind |-> kind, id |-> n]
      /\ \/ kind = "event" /\ Len(T) = Len(S) + 2 /\ T[Len(S) + 2] = [kind |-> "value", id |-> n]
         \/ kind = "write" /\ Len(T) = Len(S) + 1
  BY DEF GrownBy
<1>2. PICK h \in 1..i : OfThread(S[h]) /\ S[h].id = c /\ \A m \in (h + 1)..i : ~OfThread(S[m])
  BY DEF ThreadIn
<1>3. h \in 1..k /\ T[h] = S[h]
  BY <1>1, <1>2
<1>4. ASSUME NEW m \in (h + 1)..k PROVE ~OfThread(T[m])
  <2>1. CASE m <= Len(S)
    <3>1. m \in (h + 1)..i /\ m \in 1..Len(S)
      BY <2>1, <1>1, <1>2
    <3> QED BY <3>1, <1>1, <1>2
  <2>2. CASE m > Len(S)
    <3>1. m = Len(S) + 1 \/ (kind = "event" /\ m = Len(S) + 2)
      BY <2>2, <1>1, <1>2
    <3>2. kind \notin {"start", "switch"}
      BY <1>1
    <3> QED BY <3>1, <3>2, <1>1 DEF OfThread
  <2> QED BY <2>1, <2>2, <1>1, <1>2
<1> QED BY <1>2, <1>3, <1>4 DEF ThreadIn

LEMMA EntryThreads ==
  ASSUME NEW S, NEW T, NEW rec, NEW after, NEW kind, NEW ctx, NEW n, NEW open,
         Entered(S, T, rec, after, kind, ctx, n, open), NEW known, NEW last, NEW lost,
         Told(S, rec, lost),
         EventsThreaded(S, rec), ThreadsIn(S, known, last), kind = "event" => ctx = last
  PROVE  EventsThreaded(T, after) /\ ThreadsIn(T, known, last)
<1>1. GrownBy(S, T, kind, n)
  BY EntryShape
<1>2. RecordedAs(rec, after, ctx, n, open)
  BY EntryHistory
<1>3. /\ Len(S) \in Nat /\ Len(T) \in Nat /\ DOMAIN S = 1..Len(S) /\ DOMAIN T = 1..Len(T)
      /\ \A h \in 1..Len(S) : T[h] = S[h]
      /\ T[Len(S) + 1] = [kind |-> kind, id |-> n]
      /\ \/ kind = "event" /\ Len(T) = Len(S) + 2 /\ T[Len(S) + 2] = [kind |-> "value", id |-> n]
         \/ kind = "write" /\ Len(T) = Len(S) + 1
  BY <1>1, Zenon DEF GrownBy
<1>0. Len(S) \in Nat /\ Len(T) \in Nat /\ Len(S) + 1 <= Len(T)
  <2>1. CASE Len(T) = Len(S) + 2
    BY <1>3, <2>1
  <2>2. CASE Len(T) = Len(S) + 1
    BY <1>3, <2>2
  <2> QED BY <1>3, <2>1, <2>2
<1>4. Len(S) \in 0..Len(S) /\ Len(S) + 1 \in Len(S)..Len(T) /\ Len(T) \in Len(S)..Len(T)
  BY <1>0
<1>5. RecordsOf(rec, n) = {} /\ \A k : RecordsOf(rec, k) \subseteq DOMAIN rec
  BY DEF Entered, RecordsOf
<1>6. ThreadIn(S, Len(S), last)
  BY DEF ThreadsIn
<1>7. \A i \in DOMAIN T : (i \in 1..Len(S) /\ i \in DOMAIN S /\ T[i] = S[i]) \/ i = Len(S) + 1
                          \/ (kind = "event" /\ i = Len(S) + 2)
  <2>1. CASE kind = "event" /\ Len(T) = Len(S) + 2
    <3>1. \A i \in 1..Len(T) : i \in 1..Len(S) \/ i = Len(S) + 1 \/ i = Len(S) + 2
      BY <2>1, <1>0
    <3> QED BY <2>1, <3>1, <1>3
  <2>2. CASE kind = "write" /\ Len(T) = Len(S) + 1
    <3>1. \A i \in 1..Len(T) : i \in 1..Len(S) \/ i = Len(S) + 1
      BY <2>2, <1>0
    <3> QED BY <3>1, <1>3
  <2> QED BY <1>3, <2>1, <2>2
<1>8. EventsThreaded(T, after)
  <2> SUFFICES ASSUME NEW i \in DOMAIN T, T[i].kind = "event"
               PROVE  \E j \in RecordsOf(after, T[i].id) : ThreadIn(T, i, after[j].ctx)
    BY DEF EventsThreaded
  <2>1. CASE i \in 1..Len(S) /\ i \in DOMAIN S /\ T[i] = S[i]
    <3>1. PICK j \in RecordsOf(rec, S[i].id) : ThreadIn(S, i, rec[j].ctx)
      BY <2>1 DEF EventsThreaded
    <3>2. S[i].id # n
      BY <3>1, <1>5
    <3>3. j \in RecordsOf(after, T[i].id) /\ after[j] = rec[j]
      BY <2>1, <3>1, <3>2, <1>2, <1>5 DEF RecordedAs
    <3>4. i \in 0..Len(S) /\ i \in i..Len(T)
      BY <2>1, <1>0
    <3>5. ThreadIn(T, i, rec[j].ctx)
      BY <1>1, <3>1, <3>4, ThreadKept
    <3> QED BY <3>3, <3>5
  <2>2. CASE i = Len(S) + 1
    <3>1. T[i].kind = kind /\ T[i].id = n
      <4>1. T[i] = [kind |-> kind, id |-> n]
        BY <2>2, <1>3
      <4> QED BY <4>1
    <3>2. ctx = last
      BY <3>1
    <3>3. ThreadIn(T, i, last)
      BY <2>2, <1>1, <1>4, <1>6, ThreadKept
    <3>4. Len(rec) + 1 \in RecordsOf(after, T[i].id) /\ after[Len(rec) + 1].ctx = ctx
      BY <3>1, <1>2 DEF RecordedAs
    <3> QED BY <3>2, <3>3, <3>4
  <2>3. CASE kind = "event" /\ i = Len(S) + 2
    BY <2>3, <1>3
  <2> QED BY <1>7, <2>1, <2>2, <2>3
<1>9. \A i \in DOMAIN T : T[i].kind \in {"start", "switch"} =>
        i \in 1..Len(S) /\ i \in DOMAIN S /\ T[i] = S[i]
  <2>1. T[Len(S) + 1].kind = kind
    <3>1. T[Len(S) + 1] = [kind |-> kind, id |-> n]
      BY <1>3, Zenon
    <3> QED BY <3>1
  <2>2. kind \notin {"start", "switch"}
    BY <1>3
  <2>3. kind = "event" => T[Len(S) + 2].kind = "value"
    <3>1. kind = "event" => T[Len(S) + 2] = [kind |-> "value", id |-> n]
      BY <1>3
    <3> QED BY <3>1
  <2> QED BY <1>7, <2>1, <2>2, <2>3
<1>10. \A c : Started1(T, c) <=> Started1(S, c)
  <2>1. ASSUME NEW c, NEW k \in DOMAIN T, T[k] = [kind |-> "start", id |-> c] PROVE Started1(S, c)
    BY <2>1, <1>9 DEF Started1
  <2>2. ASSUME NEW c, NEW k \in DOMAIN S, S[k] = [kind |-> "start", id |-> c] PROVE Started1(T, c)
    <3>1. k \in DOMAIN T /\ T[k] = S[k]
      <4>1. k \in 1..Len(S)
        BY <1>3
      <4>2. k \in 1..Len(T)
        BY <4>1, <1>0
      <4> QED BY <4>1, <4>2, <1>3, Zenon
    <3> QED BY <3>1, <2>2 DEF Started1
  <2> QED BY <2>1, <2>2 DEF Started1
<1>11. ThreadsIn(T, known, last)
  <2>1. ASSUME NEW i \in DOMAIN T, T[i].kind = "switch"
        PROVE  \E j \in 1..(i - 1) : T[j] = [kind |-> "start", id |-> T[i].id]
    <3>1. i \in 1..Len(S) /\ i \in DOMAIN S /\ T[i] = S[i]
      BY <2>1, <1>9
    <3>2. PICK j \in 1..(i - 1) : S[j] = [kind |-> "start", id |-> S[i].id]
      BY <2>1, <3>1 DEF ThreadsIn
    <3>3. T[j] = S[j]
      <4>1. j \in 1..Len(S)
        BY <3>1, <1>0
      <4> QED BY <4>1, <1>3
    <3> QED BY <3>1, <3>2, <3>3
  <2>2. \A i, j \in DOMAIN T : T[i].kind = "start" /\ T[i] = T[j] => i = j
    BY <1>9 DEF ThreadsIn
  <2>3. ThreadIn(T, Len(T), last)
    BY <1>1, <1>4, <1>6, ThreadKept
  <2> QED BY <2>1, <2>2, <2>3, <1>10 DEF ThreadsIn
<1> QED BY <1>8, <1>11

LEMMA EntrySpans ==
  ASSUME NEW S, NEW T, NEW rec, NEW after, NEW kind, NEW ctx, NEW n, NEW open,
         Entered(S, T, rec, after, kind, ctx, n, open), NEW lost, NEW spans,
         Told(S, rec, lost), SpansIn(S, spans, rec),
         \A s \in DOMAIN spans : Inside(spans[s], Len(S) + 1) <=> spans[s].request \in open
  PROVE  SpansIn(T, spans, after)
<1>1. GrownBy(S, T, kind, n) /\ RecordedAs(rec, after, ctx, n, open)
  BY EntryShape, EntryHistory
<1>2. RecordsOf(rec, n) = {} /\ \A k : RecordsOf(rec, k) \subseteq DOMAIN rec
  BY DEF Entered, RecordsOf
<1> SUFFICES ASSUME NEW s \in DOMAIN spans, NEW i \in OwnIn(T), NEW j \in RecordsOf(after, T[i].id)
             PROVE  Inside(spans[s], i) <=> spans[s].request \in after[j].open
  BY DEF SpansIn
<1>3. CASE i \in OwnIn(S)
  <2>1. T[i] = S[i]
    BY <1>1, <1>3 DEF GrownBy
  <2>2. S[i].id # n
    BY <1>2, <1>3 DEF Told
  <2>3. j \in RecordsOf(rec, S[i].id) /\ after[j] = rec[j]
    BY <1>1, <1>2, <2>1, <2>2 DEF RecordedAs
  <2> QED BY <1>3, <2>3 DEF SpansIn
<1>4. CASE i = Len(S) + 1
  <2>1. T[i].id = n
    <3>1. T[i] = [kind |-> kind, id |-> n]
      BY <1>1, <1>4 DEF GrownBy
    <3> QED BY <3>1
  <2>2. after[j].open = open
    BY <1>1, <2>1 DEF RecordedAs
  <2> QED BY <1>4, <2>2
<1> QED BY <1>1, <1>3, <1>4 DEF GrownBy

LEMMA EntryWaits ==
  ASSUME NEW S, NEW T, NEW rec, NEW after, NEW kind, NEW ctx, NEW n, NEW open,
         Entered(S, T, rec, after, kind, ctx, n, open), NEW ids, NEW base \in 0..Len(S),
         Waiting(S, base, ids)
  PROVE  Waiting(T, base, ids \cup {n})
<1>1. /\ Len(S) \in Nat /\ T[Len(S) + 1] = [kind |-> kind, id |-> n]
      /\ OwnIn(T) = OwnIn(S) \cup {Len(S) + 1}
      /\ \A i \in OwnIn(S) : T[i] = S[i]
  <2>1. GrownBy(S, T, kind, n)
    BY EntryShape
  <2> QED BY <2>1 DEF GrownBy
<1>2. Len(S) + 1 > base /\ T[Len(S) + 1].id = n
  BY <1>1
<1> QED BY <1>1, <1>2 DEF Waiting

-----------------------------------------------------------------------------
(* What the runtime and the native recorder tell of the history: due when  *)
(* no more batch fails, and what waits in the window of a session not      *)
(* stopped.  known and last are what the tracker is about to know.         *)
Ids(r) == {r.attached[a].of : a \in DOMAIN r.attached}
Bounded(r) ==
  \A s \in DOMAIN r.spans : /\ r.spans[s].opened \in 0..Len(r.events)
                            /\ r.spans[s].closed \in -1..Len(r.events)
Threaded(r, rec, known, last) ==
  r.failed \/ (EventsThreaded(Due(r), rec) /\ ThreadsIn(Due(r), known, last))
Tells(r, rec, known, last) ==
  /\ WellFormed(r) /\ Bounded(r) /\ rec \in Seq(Record)
  /\ Once(rec, r.lost) /\ Told(Due(r), rec, r.lost) /\ Complete(Due(r), rec, r.lost)
  /\ ValuesIn(r.events) /\ ValuesIn(Due(r))
  /\ SpansIn(Due(r), r.spans, rec)
  /\ ~r.stopped => Waiting(Due(r), Len(r.events), Ids(r))
  /\ Threaded(r, rec, known, last)

(* What the tracker knows, and the session: a flush and a push leave it.   *)
SameSession(p, r) ==
  /\ p.known = r.known /\ p.lastCtx = r.lastCtx /\ p.tracking = r.tracking
  /\ p.stopped = r.stopped /\ p.spans = r.spans

LEMMA DueTyped ==
  ASSUME NEW r, WellFormed(r)
  PROVE  /\ Due(r) \in Seq(Event) /\ r.events \in Seq(Event)
         /\ Extends(r.events, Due(r)) /\ Len(r.events) \in Nat
         /\ r.buffer = <<>> => Due(r) = r.events
         /\ r.stopped => Due(r) = r.events
<1>1. r.events \in Seq(Event) /\ Len(r.events) \in Nat
  BY Fields DEF WellFormed
<1>2. Lowered(r) \in Seq(Event) /\ (r.buffer = <<>> => Lowered(r) = <<>>)
  BY LoweredTyped
<1>3. /\ r.events \o Lowered(r) \in Seq(Event)
      /\ Extends(r.events, r.events \o Lowered(r))
  BY <1>1, <1>2, Concatenated
<1>4. r.events \o <<>> = r.events
  BY <1>1, ConcatEmptySeq
<1>5. Extends(r.events, r.events)
  BY <1>1 DEF Extends
<1> QED BY <1>1, <1>2, <1>3, <1>4, <1>5 DEF Due

LEMMA FlushEffect ==
  ASSUME NEW r, WellFormed(r), NEW f, f = FlushOf(r)
  PROVE  /\ WellFormed(f) /\ f.buffer = <<>> /\ f.attached = <<>> /\ SameSession(f, r)
         /\ \/ f.events = Due(r) /\ f.lost = r.lost /\ f.failed = r.failed
            \/ ~r.stopped /\ f.events = r.events /\ f.lost = r.lost \cup Ids(r) /\ f.failed
<1>1. /\ r \in Runtime /\ r.buffer \in Seq(Event)
      /\ r.attached \in Seq([eventIndex : Nat, of : Nat])
      /\ r.events \in Seq(Event) /\ r.lost \in SUBSET Nat /\ r.batches \in Nat
      /\ Len(r.attached) \in Nat /\ DOMAIN r.attached = 1..Len(r.attached)
  BY Fields DEF WellFormed
<1>2. Due(r) \in Seq(Event) /\ Lowered(r) \in Seq(Event)
  BY DueTyped, LoweredTyped
<1>3. CASE r.buffer = <<>>
  <2>1. f = r
    BY <1>3 DEF FlushOf
  <2>2. r.attached = <<>>
    <3>1. \A a \in 1..Len(r.attached) : r.attached[a].eventIndex \in 1..0
      BY <1>1, <1>3 DEF WellFormed
    <3>2. ~(1 \in 1..Len(r.attached))
      BY <3>1
    <3>3. Len(r.attached) = 0
      BY <3>2, <1>1
    <3> QED BY <3>3, <1>1, EmptySeq
  <2>3. Due(r) = r.events
    BY <1>3, DueTyped
  <2> QED BY <2>1, <2>2, <2>3, <1>3 DEF SameSession
<1>4. CASE r.buffer # <<>>
  <2> DEFINE taken == ~r.stopped /\ (r.batches = MaxBatches \/ r.batches + 1 \notin failing)
             ev == IF taken THEN r.events \o Lowered(r) ELSE r.events
             lo == IF taken \/ r.stopped THEN r.lost
                   ELSE r.lost \cup {r.attached[j].of : j \in DOMAIN r.attached}
             fa == r.failed \/ (~r.stopped /\ ~taken)
             ba == IF r.stopped \/ r.batches = MaxBatches THEN r.batches ELSE r.batches + 1
  <2>1. f = [r EXCEPT !.events = ev, !.lost = lo, !.failed = fa, !.batches = ba,
                      !.buffer = <<>>, !.attached = <<>>]
    BY <1>4, Zenon DEF FlushOf
  <2>2. ev \in Seq(Event)
    BY <1>1, <1>2, ConcatProperties
  <2>3. lo \in SUBSET Nat
    <3> HIDE DEF taken
    <3>1. \A j \in DOMAIN r.attached : r.attached[j].of \in Nat
      <4>1. \A j \in 1..Len(r.attached) : r.attached[j] \in [eventIndex : Nat, of : Nat]
        BY <1>1, ElementOfSeq
      <4> QED BY <4>1, <1>1
    <3>2. {r.attached[j].of : j \in DOMAIN r.attached} \in SUBSET Nat
      BY <3>1
    <3>3. lo = r.lost \/ lo = r.lost \cup {r.attached[j].of : j \in DOMAIN r.attached}
      BY Zenon
    <3> HIDE DEF lo
    <3> QED BY <1>1, <3>2, <3>3
  <2>4. fa \in BOOLEAN /\ ba \in Nat
    <3>1. ba \in Nat
      <4>1. ba = r.batches \/ ba = r.batches + 1
        BY Zenon
      <4> HIDE DEF ba
      <4> QED BY <4>1, <1>1
    <3>2. fa \in BOOLEAN
      <4>1. fa = TRUE \/ fa = FALSE
        BY Zenon
      <4> HIDE DEF fa
      <4> QED BY <4>1
    <3> QED BY <3>1, <3>2
  <2>5. /\ ~r.stopped /\ taken => ev = Due(r) /\ lo = r.lost
        /\ r.stopped => ev = Due(r) /\ lo = r.lost
        /\ ~r.stopped /\ ~taken => ev = r.events /\ lo = r.lost \cup Ids(r)
    BY Zenon DEF Due, Ids
  <2>6. r.failed \in BOOLEAN
    BY <1>1, Zenon DEF Runtime
  <2>7. /\ ~r.stopped /\ taken => fa = r.failed
        /\ r.stopped => fa = r.failed
        /\ ~r.stopped /\ ~taken => fa
    BY <2>6, Zenon
  <2> HIDE DEF ev, lo, fa, ba
  <2>8. /\ f.events = ev /\ f.lost = lo /\ f.batches = ba /\ f.buffer = <<>> /\ f.attached = <<>>
        /\ f.known = r.known /\ f.lastCtx = r.lastCtx /\ f.spans = r.spans
    BY <2>1, <1>1 DEF Runtime
  <2>9. f.failed = fa /\ f.tracking = r.tracking /\ f.stopped = r.stopped
    BY <2>1, <1>1, Zenon DEF Runtime
  <2>10. f \in Runtime
    <3>1. <<>> \in Seq(Event) /\ <<>> \in Seq([eventIndex : Nat, of : Nat])
      OBVIOUS
    <3> QED BY <2>1, <2>2, <2>3, <2>4, <3>1, <1>1, ZenonT(60) DEF Runtime
  <2>11. WellFormed(f)
    BY <2>8, <2>10 DEF WellFormed
  <2> HIDE DEF taken
  <2>12. \/ f.events = Due(r) /\ f.lost = r.lost /\ f.failed = r.failed
         \/ ~r.stopped /\ f.events = r.events /\ f.lost = r.lost \cup Ids(r) /\ f.failed
    BY <2>5, <2>7, <2>8, <2>9, Zenon
  <2> QED BY <2>8, <2>9, <2>11, <2>12, Zenon DEF SameSession
<1> QED BY <1>3, <1>4

LEMMA FlushTells ==
  ASSUME NEW r, NEW rec, NEW known, NEW last, Tells(r, rec, known, last)
  PROVE  /\ Tells(FlushOf(r), rec, known, last) /\ SameSession(FlushOf(r), r)
         /\ FlushOf(r).buffer = <<>> /\ FlushOf(r).attached = <<>>
         /\ FlushOf(r).lost \subseteq r.lost \cup Ids(r)
<1> DEFINE f == FlushOf(r)
<1>1. /\ WellFormed(f) /\ f.buffer = <<>> /\ f.attached = <<>> /\ SameSession(f, r)
      /\ \/ f.events = Due(r) /\ f.lost = r.lost /\ f.failed = r.failed
         \/ ~r.stopped /\ f.events = r.events /\ f.lost = r.lost \cup Ids(r) /\ f.failed
  BY FlushEffect DEF Tells
<1> HIDE DEF f
<1>2. /\ Due(r) \in Seq(Event) /\ r.events \in Seq(Event)
      /\ Extends(r.events, Due(r)) /\ Len(r.events) \in Nat
      /\ f.events \in Seq(Event) /\ Len(f.events) \in Nat
  BY <1>1, DueTyped DEF Tells
<1>3. Due(f) = f.events
  BY <1>1, DueTyped
<1>4. Len(r.events) <= Len(f.events)
  BY <1>1, <1>2 DEF Extends
<1>5. Bounded(f)
  <2>1. f.spans = r.spans
    BY <1>1 DEF SameSession
  <2>2. Bounded(r)
    BY DEF Tells
  <2> QED BY <2>1, <2>2, <1>2, <1>4 DEF Bounded
<1>6. Ids(f) = {}
  BY <1>1 DEF Ids
<1>7. Waiting(Due(f), Len(f.events), Ids(f))
  <2>1. \A i \in OwnIn(f.events) : ~(i > Len(f.events))
    BY <1>2, LenProperties DEF OwnIn
  <2> QED BY <1>3, <1>6, <2>1 DEF Waiting
<1>8. CASE f.events = Due(r) /\ f.lost = r.lost /\ f.failed = r.failed
  <2>1. Due(f) = Due(r) /\ f.spans = r.spans
    BY <1>1, <1>3, <1>8 DEF SameSession
  <2>2. Threaded(f, rec, known, last)
    BY <1>8, <2>1 DEF Tells, Threaded
  <2>3. /\ rec \in Seq(Record) /\ Once(rec, f.lost) /\ Told(Due(f), rec, f.lost)
        /\ Complete(Due(f), rec, f.lost) /\ ValuesIn(f.events) /\ ValuesIn(Due(f))
        /\ SpansIn(Due(f), f.spans, rec)
    BY <1>8, <2>1 DEF Tells
  <2> QED BY <1>1, <1>5, <1>7, <1>8, <2>2, <2>3 DEF Tells, f
<1>9. CASE ~r.stopped /\ f.events = r.events /\ f.lost = r.lost \cup Ids(r) /\ f.failed
  <2>1. Due(f) = r.events /\ f.spans = r.spans
    BY <1>1, <1>3, <1>9 DEF SameSession
  <2>2. /\ rec \in Seq(Record) /\ Once(rec, r.lost) /\ Told(Due(r), rec, r.lost)
        /\ Complete(Due(r), rec, r.lost) /\ Waiting(Due(r), Len(r.events), Ids(r))
        /\ SpansIn(Due(r), r.spans, rec) /\ ValuesIn(r.events)
    BY <1>9 DEF Tells
  <2>3. /\ Once(rec, f.lost) /\ Told(Due(f), rec, f.lost) /\ Complete(Due(f), rec, f.lost)
        /\ SpansIn(Due(f), f.spans, rec)
    <3> DEFINE S == r.events
               T == Due(r)
               ids == Ids(r)
               lost == r.lost
               spans == r.spans
    <3>1. /\ S \in Seq(Event) /\ T \in Seq(Event) /\ Extends(S, T) /\ rec \in Seq(Record)
          /\ Once(rec, lost) /\ Told(T, rec, lost) /\ Complete(T, rec, lost)
          /\ Waiting(T, Len(S), ids) /\ SpansIn(T, spans, rec)
      BY <1>2, <2>2
    <3>2. f.lost = lost \cup ids /\ Due(f) = S /\ f.spans = spans
      BY <1>9, <2>1
    <3> HIDE DEF S, T, ids, lost, spans
    <3>3. /\ Once(rec, lost \cup ids) /\ Told(S, rec, lost \cup ids)
          /\ Complete(S, rec, lost \cup ids) /\ SpansIn(S, spans, rec)
      BY <3>1, FailedBatch
    <3> QED BY <3>2, <3>3
  <2>4. Threaded(f, rec, known, last)
    BY <1>9 DEF Threaded
  <2>5. ValuesIn(f.events) /\ ValuesIn(Due(f))
    BY <1>9, <2>1, <2>2
  <2> QED BY <1>1, <1>5, <1>7, <1>9, <2>2, <2>3, <2>4, <2>5 DEF Tells, f
<1> QED BY <1>1, <1>8, <1>9

(* A window has room for an event, and the numbers known are at most n. *)
Room(r, n) == Len(r.buffer) < Capacity /\ Ids(r) \cup r.lost \subseteq 1..n

LEMMA FlushRoom ==
  ASSUME NEW r, NEW rec, NEW known, NEW last, Tells(r, rec, known, last),
         NEW n, Ids(r) \cup r.lost \subseteq 1..n
  PROVE  Room(FlushOf(r), n)
<1>1. /\ FlushOf(r).buffer = <<>> /\ FlushOf(r).attached = <<>>
      /\ FlushOf(r).lost \subseteq r.lost \cup Ids(r)
  BY FlushTells
<1>2. Len(FlushOf(r).buffer) = 0 /\ Ids(FlushOf(r)) = {}
  BY <1>1 DEF Ids
<1> QED BY <1>1, <1>2, Bounds DEF Room

LEMMA AddedSession ==
  ASSUME NEW r, WellFormed(r), NEW kind, NEW id, NEW of
  PROVE  /\ SameSession(Added(r, kind, id, of), r)
         /\ Added(r, kind, id, of).events = r.events
         /\ Added(r, kind, id, of).lost = r.lost
         /\ Added(r, kind, id, of).failed = r.failed
<1> DEFINE q == Added(r, kind, id, of)
<1>1. r \in Runtime
  BY DEF WellFormed
<1>2. /\ q.known = r.known /\ q.lastCtx = r.lastCtx /\ q.spans = r.spans
      /\ q.events = r.events /\ q.lost = r.lost
  BY <1>1 DEF Added, Runtime
<1>3. q.tracking = r.tracking /\ q.stopped = r.stopped /\ q.failed = r.failed
  BY <1>1, Zenon DEF Added, Runtime
<1> QED BY <1>2, <1>3, Zenon DEF SameSession

LEMMA AddedIds ==
  ASSUME NEW r, WellFormed(r), NEW kind, NEW id, NEW of, Pushed(kind, id, of)
  PROVE  Ids(Added(r, kind, id, of)) = IF of = 0 THEN Ids(r) ELSE Ids(r) \cup {of}
<1> DEFINE q == Added(r, kind, id, of)
<1>1. /\ WellFormed(q)
      /\ of = 0 => q.attached = r.attached
      /\ of # 0 =>
           /\ Len(q.attached) = Len(r.attached) + 1
           /\ q.attached[Len(r.attached) + 1] = [eventIndex |-> Len(r.buffer) + 1, of |-> of]
      /\ \A a \in DOMAIN r.attached : q.attached[a] = r.attached[a]
  <2>1. AddedTo(q, r, kind, id, of)
    BY Adding
  <2> QED BY <2>1 DEF AddedTo
<1> HIDE DEF q
<1>2. /\ DOMAIN r.attached = 1..Len(r.attached) /\ Len(r.attached) \in Nat
      /\ DOMAIN q.attached = 1..Len(q.attached)
  BY <1>1, Fields DEF WellFormed
<1>3. CASE of = 0
  BY <1>1, <1>3 DEF Ids, q
<1>4. CASE of # 0
  <2> DEFINE m == Len(r.attached) + 1
  <2>1. q.attached[m].of = of
    BY <1>1, <1>4
  <2>2. DOMAIN q.attached = DOMAIN r.attached \cup {m}
    BY <1>1, <1>2, <1>4
  <2>3. \A a \in DOMAIN r.attached : q.attached[a].of = r.attached[a].of
    BY <1>1
  <2> HIDE DEF m
  <2>4. Ids(q) = Ids(r) \cup {of}
    BY <2>1, <2>2, <2>3 DEF Ids
  <2> QED BY <2>4, <1>4 DEF q
<1> QED BY <1>3, <1>4

(* A push is an addition and, if the window is full, a flush. *)
LEMMA PushTells ==
  ASSUME NEW r, WellFormed(r), NEW kind, NEW id, NEW of, Pushed(kind, id, of),
         NEW n \in Nat, Room(r, n), of \in 0..n,
         NEW rec, NEW known, NEW last, Tells(Added(r, kind, id, of), rec, known, last)
  PROVE  /\ Tells(Push(r, kind, id, of), rec, known, last)
         /\ SameSession(Push(r, kind, id, of), r)
         /\ Room(Push(r, kind, id, of), n)
<1> DEFINE q == Added(r, kind, id, of)
           p == Push(r, kind, id, of)
<1>1. p = IF Len(q.buffer) >= Capacity THEN FlushOf(q) ELSE q
  BY DEF Push, Added
<1>2. SameSession(q, r) /\ q.lost = r.lost
  BY AddedSession
<1>3. Len(q.buffer) = Len(r.buffer) + 1 /\ Len(r.buffer) \in Nat
  <2>1. AddedTo(q, r, kind, id, of)
    BY Adding
  <2>2. Len(r.buffer) \in Nat
    BY Fields DEF WellFormed
  <2> QED BY <2>1, <2>2 DEF AddedTo
<1>4. Ids(q) = IF of = 0 THEN Ids(r) ELSE Ids(r) \cup {of}
  BY AddedIds
<1>5. Ids(q) \cup q.lost \subseteq 1..n
  <2>1. of # 0 => of \in 1..n
    OBVIOUS
  <2> QED BY <2>1, <1>2, <1>4 DEF Room
<1>6. Tells(q, rec, known, last)
  OBVIOUS
<1> HIDE DEF q, p
<1>7. CASE Len(q.buffer) >= Capacity
  <2>1. p = FlushOf(q)
    BY <1>1, <1>7
  <2>2. Tells(p, rec, known, last) /\ SameSession(p, q)
    BY <1>6, <2>1, FlushTells
  <2>3. Room(p, n)
    BY <1>5, <1>6, <2>1, FlushRoom
  <2> QED BY <2>2, <2>3, <1>2 DEF SameSession, p
<1>8. CASE ~(Len(q.buffer) >= Capacity)
  <2>1. p = q
    BY <1>1, <1>8
  <2>2. Len(q.buffer) < Capacity
    BY <1>3, <1>8, Bounds
  <2> QED BY <2>1, <2>2, <1>2, <1>5, <1>6 DEF Room, p
<1> QED BY <1>7, <1>8

(* The tracker's pushes. *)
LEMMA PushesThread ==
  ASSUME NEW r, NEW rec, NEW known, NEW last, Tells(r, rec, known, last), ~r.stopped,
         NEW n \in Nat, Room(r, n),
         NEW kind \in {"start", "switch"}, NEW c \in Contexts, kind = "start" <=> c \notin known
  PROVE  /\ Tells(Push(r, kind, c, 0), rec, known \cup {c}, c)
         /\ SameSession(Push(r, kind, c, 0), r)
         /\ Room(Push(r, kind, c, 0), n)
<1> DEFINE q == Added(r, kind, c, 0)
           S == Due(r)
           T == Due(q)
<1>1. WellFormed(r) /\ Pushed(kind, c, 0) /\ c \in Nat
  BY Bounds DEF Tells, Pushed
<1>2. /\ WellFormed(q) /\ SameSession(q, r) /\ q.events = r.events /\ q.lost = r.lost
      /\ q.failed = r.failed /\ Ids(q) = Ids(r)
  <2>1. AddedTo(q, r, kind, c, 0)
    BY <1>1, Adding
  <2>2. WellFormed(q)
    BY <2>1 DEF AddedTo
  <2>3. Ids(q) = Ids(r)
    BY <1>1, AddedIds
  <2> QED BY <1>1, <2>2, <2>3, AddedSession
<1>3. S \in Seq(Event) /\ T = S \o <<[kind |-> kind, id |-> c]>>
  <2>1. S \in Seq(Event) /\ T = S \o Entries(kind, c, 0)
    BY <1>1, DueGrows
  <2>2. Entries(kind, c, 0) = <<[kind |-> kind, id |-> c]>>
    BY DEF Entries
  <2> QED BY <2>1, <2>2
<1>4. r.events \in Seq(Event) /\ Len(r.events) \in Nat
  BY <1>1, DueTyped
<1>5. q.spans = r.spans
  BY <1>2 DEF SameSession
<1> HIDE DEF q, S, T
<1>6. /\ Told(S, rec, r.lost) => Told(T, rec, r.lost)
      /\ Complete(S, rec, r.lost) => Complete(T, rec, r.lost)
      /\ ValuesIn(S) => ValuesIn(T)
      /\ EventsThreaded(S, rec) => EventsThreaded(T, rec)
      /\ SpansIn(S, r.spans, rec) => SpansIn(T, r.spans, rec)
      /\ Waiting(S, Len(r.events), Ids(r)) => Waiting(T, Len(r.events), Ids(r))
  <2>1. /\ \A x, lost : Told(S, x, lost) => Told(T, x, lost)
        /\ \A x, lost : Complete(S, x, lost) => Complete(T, x, lost)
        /\ ValuesIn(S) => ValuesIn(T)
        /\ \A x : EventsThreaded(S, x) => EventsThreaded(T, x)
        /\ \A x, spans : SpansIn(S, spans, x) => SpansIn(T, spans, x)
        /\ \A base, ids : Waiting(S, base, ids) => Waiting(T, base, ids)
    <3>1. Tracked(S, T, kind, c)
      BY <1>3 DEF Tracked
    <3> QED BY <3>1, ThreadEntry
  <2> QED BY <2>1
<1>7. Bounded(q)
  BY <1>2, <1>5 DEF Tells, Bounded
<1>8. Threaded(q, rec, known \cup {c}, c)
  <2>1. CASE r.failed
    BY <2>1, <1>2 DEF Threaded
  <2>2. CASE ~r.failed
    <3>1. EventsThreaded(S, rec) /\ ThreadsIn(S, known, last)
      BY <2>2 DEF Tells, Threaded, S
    <3>2. ThreadsIn(T, known \cup {c}, c)
      <4>1. Tracked(S, T, kind, c)
        BY <1>3 DEF Tracked
      <4> QED BY <3>1, <4>1, ThreadRules
    <3> QED BY <1>6, <3>1, <3>2 DEF Threaded, T
  <2> QED BY <2>1, <2>2
<1>9. /\ rec \in Seq(Record) /\ Once(rec, r.lost) /\ Told(S, rec, r.lost)
      /\ Complete(S, rec, r.lost) /\ ValuesIn(r.events) /\ ValuesIn(S)
      /\ SpansIn(S, r.spans, rec) /\ Waiting(S, Len(r.events), Ids(r))
  BY DEF Tells, S
<1>10. Tells(q, rec, known \cup {c}, c)
  BY <1>2, <1>5, <1>6, <1>7, <1>8, <1>9 DEF Tells, T
<1> QED BY <1>1, <1>10, PushTells DEF q

(* The program's, with what is noted of them. *)
OpenAre(spans, open) ==
  \A s \in DOMAIN spans : spans[s].closed = Unclosed <=> spans[s].request \in open

LEMMA PushesProgram ==
  ASSUME NEW r, NEW rec, NEW known, NEW last, Tells(r, rec, known, last), ~r.stopped,
         NEW m \in Nat, Room(r, m),
         NEW kind \in {"event", "write"}, NEW id, NEW n \in 1..m, NEW ctx \in Contexts,
         NEW open \in SUBSET Requests, kind = "event" => id = n /\ ctx = last, id \in Nat,
         RecordsOf(rec, n) = {}, n \notin r.lost, OpenAre(r.spans, open)
  PROVE  LET after == Append(rec, [kind |-> kind, ctx |-> ctx, of |-> n, open |-> open])
         IN /\ Tells(Push(r, kind, id, n), after, known, last)
            /\ SameSession(Push(r, kind, id, n), r)
            /\ Room(Push(r, kind, id, n), m)
<1> DEFINE q == Added(r, kind, id, n)
           S == Due(r)
           T == Due(q)
           after == Append(rec, [kind |-> kind, ctx |-> ctx, of |-> n, open |-> open])
<1>1. WellFormed(r) /\ Pushed(kind, id, n) /\ n \in Nat /\ n # 0 /\ rec \in Seq(Record)
  BY DEF Tells, Pushed
<1>2. /\ WellFormed(q) /\ SameSession(q, r) /\ q.events = r.events /\ q.lost = r.lost
      /\ q.failed = r.failed /\ Ids(q) = Ids(r) \cup {n}
  <2>1. AddedTo(q, r, kind, id, n)
    BY <1>1, Adding
  <2>2. WellFormed(q)
    BY <2>1 DEF AddedTo
  <2>3. Ids(q) = Ids(r) \cup {n}
    BY <1>1, AddedIds
  <2> QED BY <1>1, <2>2, <2>3, AddedSession
<1>3. S \in Seq(Event) /\ T = S \o Entries(kind, n, n)
  <2>1. S \in Seq(Event) /\ T = S \o Entries(kind, id, n)
    BY <1>1, DueGrows
  <2>2. Entries(kind, id, n) = Entries(kind, n, n)
    BY DEF Entries
  <2> QED BY <2>1, <2>2
<1>4. /\ r.events \in Seq(Event) /\ Len(r.events) \in Nat /\ Len(S) \in Nat
      /\ Len(r.events) <= Len(S)
  BY <1>1, <1>3, DueTyped, LenProperties DEF Extends, S
<1>5. q.spans = r.spans
  BY <1>2 DEF SameSession
<1>6. Entered(S, T, rec, after, kind, ctx, n, open)
  BY <1>1, <1>3 DEF Entered
<1>7. after \in Seq(Record)
  <2>1. RecordedAs(rec, after, ctx, n, open)
    BY <1>6, EntryHistory
  <2> QED BY <2>1 DEF RecordedAs
<1> HIDE DEF q, S, T, after
<1>8. /\ rec \in Seq(Record) /\ Once(rec, r.lost) /\ Told(S, rec, r.lost)
      /\ Complete(S, rec, r.lost) /\ ValuesIn(r.events) /\ ValuesIn(S)
      /\ SpansIn(S, r.spans, rec) /\ Waiting(S, Len(r.events), Ids(r)) /\ Bounded(r)
  BY DEF Tells, S
<1>9. Once(after, r.lost) /\ Told(T, after, r.lost) /\ Complete(T, after, r.lost)
  BY <1>6, <1>8, EntryTold
<1>10. ValuesIn(T)
  BY <1>6, <1>8, EntryValues
<1>11. SpansIn(T, r.spans, after)
  <2>1. ASSUME NEW s \in DOMAIN r.spans
        PROVE  Inside(r.spans[s], Len(S) + 1) <=> r.spans[s].request \in open
    <3>1. r.spans[s].opened \in 0..Len(r.events) /\ r.spans[s].closed \in -1..Len(r.events)
      BY <1>8 DEF Bounded
    <3>2. Inside(r.spans[s], Len(S) + 1) <=> r.spans[s].closed = Unclosed
      BY <3>1, <1>4 DEF Inside, Unclosed
    <3> QED BY <3>2 DEF OpenAre
  <2> DEFINE spans == r.spans
             lost == r.lost
  <2>2. \A s \in DOMAIN spans : Inside(spans[s], Len(S) + 1) <=> spans[s].request \in open
    BY <2>1
  <2>3. Told(S, rec, lost) /\ SpansIn(S, spans, rec)
    BY <1>8
  <2> HIDE DEF spans, lost
  <2>4. SpansIn(T, spans, after)
    BY <1>6, <2>2, <2>3, EntrySpans
  <2> QED BY <2>4 DEF spans
<1>12. Waiting(T, Len(r.events), Ids(r) \cup {n})
  <2> DEFINE base == Len(r.events)
             ids == Ids(r)
  <2>1. base \in 0..Len(S) /\ Waiting(S, base, ids)
    BY <1>4, <1>8
  <2> HIDE DEF base, ids
  <2>2. Waiting(T, base, ids \cup {n})
    BY <1>6, <2>1, EntryWaits
  <2> QED BY <2>2 DEF base, ids
<1>13. Bounded(q)
  BY <1>2, <1>5, <1>8 DEF Bounded
<1>14. Threaded(q, after, known, last)
  <2>1. CASE r.failed
    BY <2>1, <1>2 DEF Threaded
  <2>2. CASE ~r.failed
    <3>1. EventsThreaded(S, rec) /\ ThreadsIn(S, known, last)
      BY <2>2 DEF Tells, Threaded, S
    <3>2. EventsThreaded(T, after) /\ ThreadsIn(T, known, last)
      BY <1>6, <1>8, <3>1, EntryThreads
    <3> QED BY <3>2 DEF Threaded, T
  <2> QED BY <2>1, <2>2
<1>15. Tells(q, after, known, last)
  BY <1>2, <1>5, <1>7, <1>8, <1>9, <1>10, <1>11, <1>12, <1>13, <1>14 DEF Tells, T
<1>16. n \in 0..m
  OBVIOUS
<1> QED BY <1>1, <1>15, <1>16, PushTells DEF q, after

(* After the session stopped, nothing more reaches the native recorder. *)
LEMMA PushStopped ==
  ASSUME NEW r, NEW rec, NEW known, NEW last, Tells(r, rec, known, last), r.stopped,
         NEW n \in Nat, Room(r, n),
         NEW kind, NEW id, NEW of, Pushed(kind, id, of), of \in 0..n
  PROVE  /\ Tells(Push(r, kind, id, of), rec, known, last)
         /\ SameSession(Push(r, kind, id, of), r)
         /\ Room(Push(r, kind, id, of), n)
<1> DEFINE q == Added(r, kind, id, of)
<1>1. WellFormed(r)
  BY DEF Tells
<1>2. /\ WellFormed(q) /\ SameSession(q, r) /\ q.events = r.events /\ q.lost = r.lost
      /\ q.failed = r.failed
  <2>1. AddedTo(q, r, kind, id, of)
    BY <1>1, Adding
  <2>2. WellFormed(q)
    BY <2>1 DEF AddedTo
  <2> QED BY <1>1, <2>2, AddedSession
<1>3. q.stopped /\ q.spans = r.spans /\ Due(q) = Due(r)
  BY <1>1, <1>2, DueTyped DEF SameSession
<1>4. Bounded(q)
  BY <1>2, <1>3 DEF Tells, Bounded
<1> HIDE DEF q
<1>5. Threaded(q, rec, known, last)
  BY <1>2, <1>3 DEF Tells, Threaded
<1>6. Tells(q, rec, known, last)
  BY <1>2, <1>3, <1>4, <1>5 DEF Tells
<1> QED BY <1>1, <1>6, PushTells DEF q

-----------------------------------------------------------------------------
(* The operations of the runtime, from what they tell to what they tell.   *)
SameWindow(p, r) ==
  /\ p.buffer = r.buffer /\ p.attached = r.attached /\ p.events = r.events
  /\ p.lost = r.lost /\ p.failed = r.failed

LEMMA Reframed ==
  ASSUME NEW r, NEW p, NEW rec, NEW known, NEW last, Tells(r, rec, known, last),
         p \in Runtime, SameWindow(p, r), p.spans = r.spans, p.stopped = r.stopped
  PROVE  /\ Tells(p, rec, known, last)
         /\ \A n : Room(r, n) => Room(p, n)
<1>1. /\ p.buffer = r.buffer /\ p.attached = r.attached /\ p.events = r.events
      /\ p.lost = r.lost /\ p.failed = r.failed
  BY DEF SameWindow
<1>2. \A i : Lower(p, i) = Lower(r, i)
  <2>1. \A i : Attachment(p, i) = Attachment(r, i)
    BY <1>1, Zenon DEF Attachment
  <2> DEFINE L(e, values) ==
        CASE e.kind = "event" ->
               <<e>> \o [j \in DOMAIN values |-> [kind |-> "value", id |-> values[j]]]
          [] e.kind = "write" ->
               [j \in DOMAIN values |-> [kind |-> "write", id |-> values[j]]]
          [] OTHER -> <<e>>
  <2>2. ASSUME NEW i PROVE Lower(p, i) = Lower(r, i)
    <3>1. Lower(p, i) = L(p.buffer[i], Attachment(p, i))
      BY Zenon DEF Lower
    <3>2. Lower(r, i) = L(r.buffer[i], Attachment(r, i))
      BY Zenon DEF Lower
    <3> HIDE DEF L
    <3>3. p.buffer[i] = r.buffer[i] /\ Attachment(p, i) = Attachment(r, i)
      BY <1>1, <2>1
    <3> QED BY <3>1, <3>2, <3>3
  <2> QED BY <2>2
<1>3. Lowered(p) = Lowered(r)
  BY <1>1, <1>2 DEF Lowered
<1>4. Due(p) = Due(r)
  BY <1>1, <1>3 DEF Due
<1>5. Ids(p) = Ids(r)
  BY <1>1 DEF Ids
<1>6. WellFormed(p)
  BY <1>1 DEF Tells, WellFormed
<1>7. Bounded(p)
  BY <1>1 DEF Tells, Bounded
<1>8. Threaded(p, rec, known, last)
  BY <1>1, <1>4 DEF Tells, Threaded
<1> QED BY <1>1, <1>4, <1>5, <1>6, <1>7, <1>8 DEF Tells, Room

LEMMA QuietTells ==
  ASSUME NEW r, NEW rec, NEW known, NEW last, Tells(r, rec, known, last),
         NEW e \in Record, ~OfProgram(e)
  PROVE  Tells(r, Append(rec, e), known, last)
<1> DEFINE after == Append(rec, e)
           S == Due(r)
           lost == r.lost
           spans == r.spans
<1>1. /\ rec \in Seq(Record) /\ Once(rec, lost) /\ Told(S, rec, lost) /\ Complete(S, rec, lost)
      /\ SpansIn(S, spans, rec)
  BY DEF Tells
<1>2. after \in Seq(Record)
  BY <1>1, Noted
<1>3. /\ Once(rec, lost) => Once(after, lost)
      /\ Told(S, rec, lost) => Told(S, after, lost)
      /\ Complete(S, rec, lost) => Complete(S, after, lost)
      /\ EventsThreaded(S, rec) => EventsThreaded(S, after)
      /\ SpansIn(S, spans, rec) => SpansIn(S, spans, after)
  <2> HIDE DEF S, lost, spans
  <2> QED BY <1>1, QuietRecord
<1> HIDE DEF after
<1>4. Threaded(r, after, known, last)
  BY <1>3 DEF Tells, Threaded
<1>5. Tells(r, after, known, last)
  BY <1>1, <1>2, <1>3, <1>4 DEF Tells
<1> QED BY <1>5 DEF after

(* checkContext: what the tracker knows is again what the record tells. *)
Tracks(r, rec) == Tells(r, rec, r.known, r.lastCtx)

LEMMA Checked ==
  ASSUME NEW r, NEW rec, Tracks(r, rec), NEW n \in Nat, Room(r, n),
         NEW ctx \in Contexts, r.tracking <=> ~r.stopped
  PROVE  LET p == CheckContext(r, ctx)
         IN /\ Tracks(p, rec) /\ Room(p, n)
            /\ p.tracking = r.tracking /\ p.stopped = r.stopped /\ p.spans = r.spans
            /\ ~r.stopped => p.lastCtx = ctx
<1> DEFINE p == CheckContext(r, ctx)
<1>1. CASE ~r.tracking \/ ctx = r.lastCtx
  <2>1. p = r
    BY <1>1 DEF CheckContext
  <2> QED BY <2>1, <1>1
<1>2. CASE r.tracking /\ ctx # r.lastCtx
  <2>1. ~r.stopped /\ r \in Runtime
    BY <1>2 DEF Tracks, Tells, WellFormed
  <2> DEFINE added == [r EXCEPT !.known = r.known \cup {ctx}]
             started == IF ctx \in r.known THEN r ELSE Push(added, "start", ctx, 0)
             switched == Push(started, "switch", ctx, 0)
  <2>2. p = [switched EXCEPT !.lastCtx = ctx]
    BY <1>2 DEF CheckContext
  <2>3. /\ \E last : Tells(started, rec, r.known \cup {ctx}, last)
        /\ Room(started, n)
        /\ started.known = r.known \cup {ctx}
        /\ started.tracking = r.tracking /\ started.stopped = r.stopped
        /\ started.spans = r.spans
    <3>1. CASE ctx \in r.known
      <4>1. started = r /\ r.known \cup {ctx} = r.known
        BY <3>1
      <4>2. Tells(started, rec, r.known \cup {ctx}, r.lastCtx)
        BY <4>1 DEF Tracks
      <4> HIDE DEF started
      <4> QED BY <4>1, <4>2
    <3>2. CASE ctx \notin r.known
      <4>1. started = Push(added, "start", ctx, 0)
        BY <3>2
      <4>2. /\ added.known = r.known \cup {ctx} /\ added.lastCtx = r.lastCtx
            /\ added.spans = r.spans /\ added \in Runtime
        BY <2>1, Bounds DEF Runtime
      <4>3. /\ added.tracking = r.tracking /\ added.stopped = r.stopped
            /\ SameWindow(added, r)
        BY <2>1, Zenon DEF Runtime, SameWindow
      <4> HIDE DEF added, started
      <4>4. Tells(added, rec, r.known, r.lastCtx) /\ Room(added, n)
        BY <4>2, <4>3, Reframed DEF Tracks
      <4>5. ~added.stopped
        BY <2>1, <4>3
      <4>6. /\ Tells(started, rec, r.known \cup {ctx}, ctx)
            /\ SameSession(started, added) /\ Room(started, n)
        BY <3>2, <4>1, <4>4, <4>5, PushesThread
      <4> QED BY <4>2, <4>3, <4>6 DEF SameSession
    <3> QED BY <3>1, <3>2
  <2> HIDE DEF started, added
  <2>4. PICK last : Tells(started, rec, r.known \cup {ctx}, last)
    BY <2>3
  <2>5. /\ Tells(switched, rec, r.known \cup {ctx}, ctx)
        /\ SameSession(switched, started) /\ Room(switched, n)
    <3> DEFINE known == r.known \cup {ctx}
    <3>1. ctx \in known /\ known \cup {ctx} = known
      OBVIOUS
    <3>2. Tells(started, rec, known, last) /\ ~started.stopped /\ Room(started, n)
      BY <2>1, <2>3, <2>4
    <3> HIDE DEF known
    <3>3. /\ Tells(switched, rec, known \cup {ctx}, ctx)
          /\ SameSession(switched, started) /\ Room(switched, n)
      <4>1. "switch" = "start" <=> ctx \notin known
        BY <3>1
      <4> QED BY <3>2, <4>1, PushesThread
    <3> QED BY <3>1, <3>3 DEF known
  <2> HIDE DEF switched, p
  <2>6. switched \in Runtime
    BY <2>5 DEF Tells, WellFormed
  <2>7. /\ p.known = switched.known /\ p.lastCtx = ctx /\ p.spans = switched.spans
        /\ p \in Runtime
    BY <2>2, <2>6 DEF Runtime
  <2>8. p.tracking = switched.tracking /\ p.stopped = switched.stopped /\ SameWindow(p, switched)
    BY <2>2, <2>6, Zenon DEF Runtime, SameWindow
  <2>9. Tells(p, rec, r.known \cup {ctx}, ctx) /\ Room(p, n)
    BY <2>5, <2>7, <2>8, Reframed
  <2>10. /\ p.known = r.known \cup {ctx} /\ p.tracking = r.tracking /\ p.stopped = r.stopped
         /\ p.spans = r.spans
    BY <2>3, <2>5, <2>7, <2>8 DEF SameSession
  <2> QED BY <2>7, <2>9, <2>10 DEF Tracks, p
<1> QED BY <1>1, <1>2

(* The marks of spans move while the window is empty. *)
LEMMA Respanned ==
  ASSUME NEW r, NEW p, NEW rec, NEW known, NEW last, Tells(r, rec, known, last),
         r.buffer = <<>>, p \in Runtime, SameWindow(p, r), p.stopped = r.stopped,
         SpansIn(r.events, p.spans, rec), Bounded(p)
  PROVE  /\ Tells(p, rec, known, last)
         /\ \A n : Room(r, n) => Room(p, n)
<1>1. /\ p.buffer = r.buffer /\ p.attached = r.attached /\ p.events = r.events
      /\ p.lost = r.lost /\ p.failed = r.failed
  BY DEF SameWindow
<1>2. WellFormed(p) /\ WellFormed(r)
  BY <1>1 DEF Tells, WellFormed
<1>3. Due(p) = Due(r) /\ Due(r) = r.events
  BY <1>1, <1>2, DueTyped
<1>4. Ids(p) = Ids(r)
  BY <1>1 DEF Ids
<1>5. Threaded(p, rec, known, last)
  BY <1>1, <1>3 DEF Tells, Threaded
<1>6. SpansIn(Due(p), p.spans, rec)
  BY <1>3
<1>7. /\ rec \in Seq(Record)
      /\ Once(rec, p.lost) /\ Told(Due(p), rec, p.lost) /\ Complete(Due(p), rec, p.lost)
      /\ ValuesIn(p.events) /\ ValuesIn(Due(p))
      /\ ~p.stopped => Waiting(Due(p), Len(p.events), Ids(p))
  BY <1>1, <1>3, <1>4 DEF Tells
<1>8. Tells(p, rec, known, last)
  BY <1>2, <1>5, <1>6, <1>7 DEF Tells
<1>9. \A n : Room(r, n) => Room(p, n)
  BY <1>1, <1>4 DEF Room
<1> QED BY <1>8, <1>9

Span == [opened : Nat, closed : Int, request : Requests]

LEMMA Opened ==
  ASSUME NEW r, NEW rec, NEW known, NEW last, Tells(r, rec, known, last), r.buffer = <<>>,
         NEW q \in Requests, \A j \in DOMAIN rec : q \notin rec[j].open
  PROVE  LET p == SpanOpen(r, q)
         IN /\ Tells(p, rec, known, last)
            /\ \A n : Room(r, n) => Room(p, n)
            /\ p.known = r.known /\ p.lastCtx = r.lastCtx
            /\ p.tracking = r.tracking /\ p.stopped = r.stopped
            /\ DOMAIN p.spans = 1..(Len(r.spans) + 1) /\ Len(p.spans) = Len(r.spans) + 1
            /\ Len(r.spans) \in Nat
            /\ \A s \in 1..Len(r.spans) : p.spans[s] = r.spans[s]
            /\ p.spans[Len(r.spans) + 1].request = q
            /\ p.spans[Len(r.spans) + 1].closed = Unclosed
<1> DEFINE p == SpanOpen(r, q)
           span == [opened |-> Len(r.events), closed |-> Unclosed, request |-> q]
           spans == Append(r.spans, span)
<1>1. r \in Runtime /\ WellFormed(r)
  BY DEF Tells, WellFormed
<1>2. /\ r.spans \in Seq(Span) /\ Len(r.spans) \in Nat /\ DOMAIN r.spans = 1..Len(r.spans)
      /\ r.events \in Seq(Event) /\ Len(r.events) \in Nat /\ DOMAIN r.events = 1..Len(r.events)
  BY <1>1, Fields DEF Span
<1>3. span \in Span /\ span.opened = Len(r.events) /\ span.closed = Unclosed /\ span.request = q
  BY <1>2 DEF Span, Unclosed
<1>4. p = [r EXCEPT !.spans = spans]
  BY DEF SpanOpen
<1> HIDE DEF span
<1>5. /\ spans \in Seq(Span) /\ Len(spans) = Len(r.spans) + 1
      /\ \A s \in 1..Len(r.spans) : spans[s] = r.spans[s]
      /\ spans[Len(r.spans) + 1] = span
  BY <1>2, <1>3
<1>6. DOMAIN spans = 1..(Len(r.spans) + 1)
  BY <1>2, <1>5, LenProperties
<1> HIDE DEF spans, p
<1>7. p.spans = spans /\ p \in Runtime /\ p.known = r.known /\ p.lastCtx = r.lastCtx
  BY <1>1, <1>4, <1>5 DEF Runtime, Span
<1>8. SameWindow(p, r) /\ p.stopped = r.stopped /\ p.tracking = r.tracking
  BY <1>1, <1>4, Zenon DEF Runtime, SameWindow
<1>9. Bounded(p)
  <2>1. p.events = r.events
    BY <1>8 DEF SameWindow
  <2> SUFFICES ASSUME NEW s \in DOMAIN p.spans
               PROVE  /\ p.spans[s].opened \in 0..Len(r.events)
                      /\ p.spans[s].closed \in -1..Len(r.events)
    BY <2>1 DEF Bounded
  <2>2. CASE s \in 1..Len(r.spans)
    BY <2>2, <1>2, <1>5, <1>7 DEF Tells, Bounded
  <2>3. CASE s = Len(r.spans) + 1
    BY <2>3, <1>2, <1>3, <1>5, <1>7 DEF Unclosed
  <2>4. s \in 1..Len(r.spans) \/ s = Len(r.spans) + 1
    BY <1>2, <1>6, <1>7
  <2> QED BY <2>2, <2>3, <2>4
<1>10. SpansIn(r.events, p.spans, rec)
  <2>1. SpansIn(r.events, r.spans, rec)
    BY <1>1, DueTyped DEF Tells
  <2> SUFFICES ASSUME NEW s \in DOMAIN p.spans, NEW i \in OwnIn(r.events),
                      NEW j \in RecordsOf(rec, r.events[i].id)
               PROVE  Inside(p.spans[s], i) <=> p.spans[s].request \in rec[j].open
    BY DEF SpansIn
  <2>2. CASE s \in 1..Len(r.spans)
    BY <2>1, <2>2, <1>2, <1>5, <1>7 DEF SpansIn
  <2>3. CASE s = Len(r.spans) + 1
    <3>1. i \in 1..Len(r.events) /\ j \in DOMAIN rec
      BY <1>2 DEF OwnIn, RecordsOf
    <3>2. p.spans[s] = span
      BY <2>3, <1>5, <1>7
    <3>3. ~Inside(p.spans[s], i)
      BY <3>1, <3>2, <1>2, <1>3 DEF Inside
    <3> QED BY <3>1, <3>2, <3>3, <1>3
  <2>4. s \in 1..Len(r.spans) \/ s = Len(r.spans) + 1
    BY <1>2, <1>6, <1>7
  <2> QED BY <2>2, <2>3, <2>4
<1>11. Tells(p, rec, known, last) /\ \A n : Room(r, n) => Room(p, n)
  BY <1>7, <1>8, <1>9, <1>10, Respanned
<1> QED BY <1>2, <1>3, <1>5, <1>6, <1>7, <1>8, <1>11 DEF p

LEMMA Closed ==
  ASSUME NEW r, NEW rec, NEW known, NEW last, Tells(r, rec, known, last), r.buffer = <<>>,
         NEW t \in DOMAIN r.spans
  PROVE  LET p == SpanClose(r, t)
         IN /\ Tells(p, rec, known, last)
            /\ \A n : Room(r, n) => Room(p, n)
            /\ p.known = r.known /\ p.lastCtx = r.lastCtx
            /\ p.tracking = r.tracking /\ p.stopped = r.stopped
            /\ DOMAIN p.spans = DOMAIN r.spans /\ Len(p.spans) = Len(r.spans)
            /\ \A s \in DOMAIN r.spans : p.spans[s].request = r.spans[s].request
            /\ \A s \in DOMAIN r.spans : s # t => p.spans[s].closed = r.spans[s].closed
            /\ p.spans[t].closed # Unclosed
<1> DEFINE p == SpanClose(r, t)
<1>1. r \in Runtime /\ WellFormed(r)
  BY DEF Tells, WellFormed
<1>2. /\ r.spans \in Seq(Span) /\ Len(r.spans) \in Nat /\ DOMAIN r.spans = 1..Len(r.spans)
      /\ r.events \in Seq(Event) /\ Len(r.events) \in Nat /\ DOMAIN r.events = 1..Len(r.events)
  BY <1>1, Fields DEF Span
<1>3. CASE r.spans[t].closed # Unclosed
  <2>1. p = r
    BY <1>3 DEF SpanClose
  <2> QED BY <2>1, <1>3
<1>4. CASE r.spans[t].closed = Unclosed
  <2> DEFINE end == Len(r.events)
             span == [r.spans[t] EXCEPT !.closed = end]
             spans == [r.spans EXCEPT ![t] = span]
  <2>1. p = [r EXCEPT !.spans = spans]
    BY <1>4 DEF SpanClose
  <2>2. r.spans[t] \in Span
    BY <1>2, ElementOfSeq
  <2>3. /\ span \in Span /\ span.opened = r.spans[t].opened /\ span.closed = end
        /\ span.request = r.spans[t].request
    <3>1. ASSUME NEW x \in Span, NEW e \in Int
          PROVE  LET y == [x EXCEPT !.closed = e]
                 IN /\ y \in Span /\ y.opened = x.opened /\ y.closed = e
                    /\ y.request = x.request
      BY DEF Span
    <3>2. end \in Int
      BY <1>2
    <3> QED BY <2>2, <3>1, <3>2
  <2> HIDE DEF span
  <2>4. /\ spans \in Seq(Span) /\ DOMAIN spans = DOMAIN r.spans /\ spans[t] = span
        /\ \A s \in DOMAIN r.spans : s # t => spans[s] = r.spans[s]
    BY <1>2, <2>3, ExceptSeq
  <2>5. Len(spans) = Len(r.spans)
    BY <1>2, <2>4, LenProperties
  <2> HIDE DEF spans, p
  <2>6. p.spans = spans /\ p \in Runtime /\ p.known = r.known /\ p.lastCtx = r.lastCtx
    BY <1>1, <2>1, <2>4 DEF Runtime, Span
  <2>7. SameWindow(p, r) /\ p.stopped = r.stopped /\ p.tracking = r.tracking
    BY <1>1, <2>1, Zenon DEF Runtime, SameWindow
  <2>8. \A s \in DOMAIN r.spans : r.spans[s].opened \in 0..Len(r.events)
                                  /\ r.spans[s].closed \in -1..Len(r.events)
    BY DEF Tells, Bounded
  <2>9. Bounded(p)
    <3>1. p.events = r.events
      BY <2>7 DEF SameWindow
    <3> SUFFICES ASSUME NEW s \in DOMAIN p.spans
                 PROVE  /\ p.spans[s].opened \in 0..Len(r.events)
                        /\ p.spans[s].closed \in -1..Len(r.events)
      BY <3>1 DEF Bounded
    <3>2. CASE s = t
      BY <3>2, <1>2, <2>3, <2>4, <2>6, <2>8
    <3>3. CASE s # t
      BY <3>3, <2>4, <2>6, <2>8
    <3> QED BY <3>2, <3>3
  <2>10. SpansIn(r.events, p.spans, rec)
    <3>1. SpansIn(r.events, r.spans, rec)
      BY <1>1, DueTyped DEF Tells
    <3> SUFFICES ASSUME NEW s \in DOMAIN p.spans, NEW i \in OwnIn(r.events),
                        NEW j \in RecordsOf(rec, r.events[i].id)
                 PROVE  Inside(p.spans[s], i) <=> p.spans[s].request \in rec[j].open
      BY DEF SpansIn
    <3>2. s \in DOMAIN r.spans
      BY <2>4, <2>6
    <3>3. Inside(r.spans[s], i) <=> r.spans[s].request \in rec[j].open
      BY <3>1, <3>2 DEF SpansIn
    <3>4. CASE s = t
      <4>1. p.spans[s] = span /\ i \in 1..end
        BY <3>4, <1>2, <2>4, <2>6 DEF OwnIn
      <4>2. r.spans[t].opened \in 0..end /\ end \in Nat
        BY <1>2, <2>8
      <4>3. end # Unclosed
        BY <4>2 DEF Unclosed
      <4> HIDE DEF end
      <4>4. Inside(span, i) <=> i > r.spans[t].opened
        BY <4>1, <4>2, <4>3, <2>3 DEF Inside
      <4>5. Inside(r.spans[s], i) <=> i > r.spans[t].opened
        BY <3>4, <1>4 DEF Inside
      <4> QED BY <3>3, <3>4, <4>1, <4>4, <4>5, <2>3
    <3>5. CASE s # t
      BY <3>2, <3>3, <3>5, <2>4, <2>6
    <3> QED BY <3>4, <3>5
  <2>11. Tells(p, rec, known, last) /\ \A n : Room(r, n) => Room(p, n)
    BY <2>6, <2>7, <2>9, <2>10, Respanned
  <2>12. end # Unclosed
    BY <1>2 DEF Unclosed
  <2>13. ASSUME NEW s \in DOMAIN r.spans
         PROVE  /\ p.spans[s].request = r.spans[s].request
                /\ s # t => p.spans[s].closed = r.spans[s].closed
    BY <2>3, <2>4, <2>6
  <2>14. p.spans[t].closed # Unclosed
    BY <2>3, <2>4, <2>6, <2>12
  <2> QED BY <2>4, <2>5, <2>6, <2>7, <2>11, <2>13, <2>14 DEF p
<1> QED BY <1>3, <1>4

(* stop: what is left is flushed, and then nothing waits. *)
LEMMA Stopping ==
  ASSUME NEW r, NEW rec, NEW known, NEW last, Tells(r, rec, known, last),
         NEW n, Room(r, n)
  PROVE  LET p == [FlushOf([r EXCEPT !.tracking = FALSE]) EXCEPT !.stopped = TRUE]
         IN /\ Tells(p, rec, known, last) /\ Room(p, n)
            /\ p.known = r.known /\ p.lastCtx = r.lastCtx
            /\ ~p.tracking /\ p.stopped /\ p.spans = r.spans
<1> DEFINE a == [r EXCEPT !.tracking = FALSE]
           f == FlushOf(a)
           p == [f EXCEPT !.stopped = TRUE]
<1>1. r \in Runtime
  BY DEF Tells, WellFormed
<1>2. a \in Runtime /\ a.known = r.known /\ a.lastCtx = r.lastCtx /\ a.spans = r.spans
  BY <1>1 DEF Runtime
<1>3. SameWindow(a, r) /\ a.stopped = r.stopped /\ ~a.tracking
  BY <1>1, Zenon DEF Runtime, SameWindow
<1> HIDE DEF a
<1>4. Tells(a, rec, known, last) /\ Room(a, n)
  BY <1>2, <1>3, Reframed
<1>5. /\ Tells(f, rec, known, last) /\ SameSession(f, a) /\ f.buffer = <<>>
      /\ f.attached = <<>> /\ Room(f, n)
  <2>1. Ids(a) \cup a.lost \subseteq 1..n
    BY <1>4 DEF Room
  <2> QED BY <1>4, <2>1, FlushTells, FlushRoom
<1> HIDE DEF f
<1>6. f \in Runtime /\ WellFormed(f)
  BY <1>5 DEF Tells, WellFormed
<1>7. p \in Runtime /\ p.known = f.known /\ p.lastCtx = f.lastCtx /\ p.spans = f.spans
  BY <1>6 DEF Runtime
<1>8. SameWindow(p, f) /\ p.stopped /\ p.tracking = f.tracking
  BY <1>6, Zenon DEF Runtime, SameWindow
<1> HIDE DEF p
<1>9. /\ p.buffer = <<>> /\ p.attached = f.attached /\ p.events = f.events
      /\ p.lost = f.lost /\ p.failed = f.failed
  BY <1>5, <1>8 DEF SameWindow
<1>10. WellFormed(p)
  BY <1>5, <1>6, <1>7, <1>9 DEF WellFormed
<1>11. Due(p) = Due(f)
  BY <1>5, <1>6, <1>9, <1>10, DueTyped
<1>12. Bounded(p) /\ Threaded(p, rec, known, last)
  BY <1>5, <1>7, <1>9, <1>11 DEF Tells, Bounded, Threaded
<1>13. Tells(p, rec, known, last)
  BY <1>5, <1>7, <1>8, <1>9, <1>10, <1>11, <1>12 DEF Tells
<1>14. Room(p, n)
  BY <1>5, <1>9 DEF Room, Ids
<1> QED BY <1>3, <1>2, <1>5, <1>7, <1>8, <1>13, <1>14 DEF SameSession, p, f, a

-----------------------------------------------------------------------------
(* The calls under way, the requests, and the whole invariant. *)
Call == [ctx : Contexts, of : Nat]
Calling(rec, enc, n) ==
  /\ n \in Nat /\ enc \in Seq(Call)
  /\ \A i \in DOMAIN enc : enc[i].of \in 1..n /\ RecordsOf(rec, enc[i].of) = {}
  /\ \A i, k \in DOMAIN enc : enc[i].of = enc[k].of => i = k
  /\ \A j \in DOMAIN rec : OfProgram(rec[j]) => rec[j].of \in 1..n
InContext(r, enc) == ~r.stopped => \A i \in DOMAIN enc : enc[i].ctx = r.lastCtx
Served(reqs, rec) ==
  /\ reqs \in [Requests -> [phase : {"none", "open", "settled"}, spanId : Nat]]
  /\ \A j \in DOMAIN rec : \A q \in rec[j].open : reqs[q].phase # "none"
Numbered(reqs, spans) == \A q \in Requests : reqs[q].spanId <= Len(spans)
Asks(reqs, spans) ==
  /\ \A s \in DOMAIN spans :
       /\ reqs[spans[s].request].spanId = s
       /\ reqs[spans[s].request].phase # "none"
       /\ spans[s].closed = Unclosed <=> reqs[spans[s].request].phase = "open"
  /\ \A q \in Requests : reqs[q].phase = "open" =>
       reqs[q].spanId \in DOMAIN spans /\ spans[reqs[q].spanId].request = q

IInv ==
  /\ Tracks(rt, recorded) /\ Room(rt, calls) /\ (rt.tracking <=> ~rt.stopped)
  /\ Calling(recorded, encoding, calls) /\ InContext(rt, encoding)
  /\ Served(requests, recorded) /\ Numbered(requests, rt.spans)
  /\ ~rt.stopped => Asks(requests, rt.spans)

(* What is noted of a check, of a request's start or of its end. *)
Quietly(rec, after, open) ==
  after = rec \/ \E e \in Record : ~OfProgram(e) /\ e.open \subseteq open /\ after = Append(rec, e)

LEMMA QuietNote ==
  ASSUME NEW rec, NEW after, NEW open, Quietly(rec, after, open), NEW r, Tracks(r, rec),
         NEW enc, NEW n, Calling(rec, enc, n),
         NEW reqs, Served(reqs, rec), \A q \in open : reqs[q].phase # "none"
  PROVE  Tracks(r, after) /\ Calling(after, enc, n) /\ Served(reqs, after)
<1>1. CASE after = rec
  BY <1>1
<1>2. CASE \E e \in Record : ~OfProgram(e) /\ e.open \subseteq open /\ after = Append(rec, e)
  <2>1. PICK e \in Record : ~OfProgram(e) /\ e.open \subseteq open /\ after = Append(rec, e)
    BY <1>2
  <2>2. rec \in Seq(Record)
    BY DEF Tracks, Tells
  <2>3. Tracks(r, after)
    BY <2>1, QuietTells DEF Tracks
  <2>4. /\ \A k : RecordsOf(after, k) = RecordsOf(rec, k)
        /\ \A j \in DOMAIN after : j \in DOMAIN rec \/ after[j] = e
        /\ \A j \in DOMAIN rec : after[j] = rec[j]
    BY <2>1, <2>2, Noted
  <2>5. Calling(after, enc, n)
    BY <2>1, <2>4 DEF Calling
  <2>6. Served(reqs, after)
    BY <2>1, <2>4 DEF Served
  <2> QED BY <2>3, <2>5, <2>6
<1> QED BY <1>1, <1>2 DEF Quietly

LEMMA Noting ==
  ASSUME NEW kind \in {"check", "open", "close"}, NEW ctx \in Contexts,
         NEW open \in SUBSET Requests, Note(kind, ctx, 0, open)
  PROVE  Quietly(recorded, recorded', open)
<1> DEFINE e == [kind |-> kind, ctx |-> ctx, of |-> 0, open |-> open]
<1>1. e \in Record /\ ~OfProgram(e) /\ e.open \subseteq open
  BY DEF Record, OfProgram
<1>2. recorded' = recorded \/ recorded' = Append(recorded, e)
  BY DEF Note
<1> HIDE DEF e
<1> QED BY <1>1, <1>2 DEF Quietly

LEMMA CallingMore ==
  ASSUME NEW rec, NEW enc, NEW n, Calling(rec, enc, n), NEW ctx \in Contexts
  PROVE  Calling(rec, Append(enc, [ctx |-> ctx, of |-> n + 1]), n + 1)
<1> DEFINE call == [ctx |-> ctx, of |-> n + 1]
           after == Append(enc, call)
<1>1. n \in Nat /\ enc \in Seq(Call)
  BY DEF Calling
<1>2. call \in Call /\ call.of = n + 1
  BY <1>1 DEF Call
<1> HIDE DEF call
<1>3. /\ after \in Seq(Call) /\ Len(after) = Len(enc) + 1
      /\ \A i \in 1..Len(enc) : after[i] = enc[i]
      /\ after[Len(enc) + 1] = call
      /\ DOMAIN enc = 1..Len(enc) /\ Len(enc) \in Nat
  BY <1>1, <1>2, LenProperties
<1> HIDE DEF after
<1>4. DOMAIN after = 1..(Len(enc) + 1)
  BY <1>3, LenProperties
<1>5. \A i \in DOMAIN after : i \in DOMAIN enc \/ i = Len(enc) + 1
  BY <1>3, <1>4
<1>6. RecordsOf(rec, n + 1) = {}
  <2>1. \A j \in DOMAIN rec : OfProgram(rec[j]) => rec[j].of # n + 1
    BY <1>1 DEF Calling
  <2> QED BY <2>1 DEF RecordsOf
<1>7. \A i \in DOMAIN enc : enc[i].of \in 1..n /\ RecordsOf(rec, enc[i].of) = {}
  BY DEF Calling
<1>8. \A m \in 1..n : m \in 1..(n + 1) /\ m # n + 1
  BY <1>1
<1>9. \A i \in DOMAIN after : after[i].of \in 1..(n + 1) /\ RecordsOf(rec, after[i].of) = {}
  <2> SUFFICES ASSUME NEW i \in DOMAIN after
               PROVE  after[i].of \in 1..(n + 1) /\ RecordsOf(rec, after[i].of) = {}
    OBVIOUS
  <2>1. CASE i \in DOMAIN enc
    BY <2>1, <1>3, <1>7, <1>8
  <2>2. CASE i = Len(enc) + 1
    <3>1. after[i].of = n + 1
      BY <2>2, <1>2, <1>3
    <3> QED BY <3>1, <1>1, <1>6
  <2> QED BY <2>1, <2>2, <1>5
<1>10. \A i, k \in DOMAIN after : after[i].of = after[k].of => i = k
  <2>1. \A i, k \in DOMAIN enc : enc[i].of = enc[k].of => i = k
    BY DEF Calling
  <2> QED BY <1>2, <1>3, <1>5, <1>7, <1>8, <2>1
<1>11. \A j \in DOMAIN rec : OfProgram(rec[j]) => rec[j].of \in 1..(n + 1)
  BY <1>8 DEF Calling
<1>12. n + 1 \in Nat
  BY <1>1
<1> QED BY <1>3, <1>9, <1>10, <1>11, <1>12 DEF Calling, after, call

LEMMA CallingLess ==
  ASSUME NEW rec, NEW enc, NEW n, Calling(rec, enc, n), enc # <<>>
  PROVE  /\ Calling(rec, Front(enc), n)
         /\ Last(enc) \in Call /\ Last(enc).of \in 1..n
         /\ RecordsOf(rec, Last(enc).of) = {}
         /\ \A i \in DOMAIN Front(enc) : Front(enc)[i].of # Last(enc).of
         /\ \A r : InContext(r, enc) =>
              InContext(r, Front(enc)) /\ (~r.stopped => Last(enc).ctx = r.lastCtx)
<1> DEFINE front == Front(enc)
<1>1. enc \in Seq(Call) /\ n \in Nat
  BY DEF Calling
<1>2. /\ Len(enc) \in Nat /\ Len(enc) # 0 /\ DOMAIN enc = 1..Len(enc)
      /\ front \in Seq(Call) /\ Len(front) = Len(enc) - 1
      /\ \A i \in 1..(Len(enc) - 1) : front[i] = enc[i]
  <2>1. /\ Len(enc) \in Nat /\ Len(enc) # 0 /\ DOMAIN enc = 1..Len(enc)
        /\ \A i \in 1..Len(enc) : enc[i] \in Call
    BY <1>1, LenProperties, EmptySeq, ElementOfSeq
  <2> DEFINE k == Len(enc) - 1
  <2>2. front = SubSeq(enc, 1, k)
    BY DEF Front
  <2>3. k \in Nat /\ 1 \in Int /\ k \in Int /\ \A i \in 1..k : i \in 1..Len(enc)
    BY <2>1
  <2>4. \A i \in 1..k : enc[i] \in Call
    BY <2>1, <2>3
  <2> HIDE DEF k, front
  <2>5. /\ front \in Seq(Call)
        /\ Len(front) = IF 1 <= k THEN k - 1 + 1 ELSE 0
        /\ \A i \in 1..(k - 1 + 1) : front[i] = enc[1 + i - 1]
    BY <2>2, <2>3, <2>4, SubSeqProperties
  <2>6. Len(front) = k /\ \A i \in 1..k : i \in 1..(k - 1 + 1) /\ 1 + i - 1 = i
    BY <2>3, <2>5
  <2>7. \A i \in 1..k : front[i] = enc[i]
    BY <2>5, <2>6
  <2> QED BY <2>1, <2>5, <2>6, <2>7 DEF k
<1> HIDE DEF front
<1>3. DOMAIN front = 1..(Len(enc) - 1)
  BY <1>2, LenProperties
<1>4. Len(enc) \in DOMAIN enc /\ Last(enc) = enc[Len(enc)]
  BY <1>2 DEF Last
<1>5. \A i \in DOMAIN front : i \in DOMAIN enc /\ i # Len(enc) /\ front[i] = enc[i]
  BY <1>2, <1>3
<1>6. Last(enc) \in Call
  <2>1. enc[Len(enc)] \in Call
    BY <1>1, <1>2, <1>4, ElementOfSeq
  <2> QED BY <2>1, <1>4
<1>7. Calling(rec, front, n)
  BY <1>2, <1>5 DEF Calling
<1>8. ASSUME NEW r, InContext(r, enc)
      PROVE  InContext(r, front) /\ (~r.stopped => Last(enc).ctx = r.lastCtx)
  BY <1>4, <1>5, <1>8 DEF InContext
<1>9. /\ Last(enc).of \in 1..n /\ RecordsOf(rec, Last(enc).of) = {}
      /\ \A i \in DOMAIN front : front[i].of # Last(enc).of
  BY <1>4, <1>5 DEF Calling
<1> QED BY <1>6, <1>7, <1>8, <1>9 DEF front

LEMMA CallingProgram ==
  ASSUME NEW rec \in Seq(Record), NEW enc, NEW n, Calling(rec, enc, n),
         NEW e \in Record, OfProgram(e), e.of \in 1..n, \A i \in DOMAIN enc : enc[i].of # e.of
  PROVE  Calling(Append(rec, e), enc, n)
<1> DEFINE after == Append(rec, e)
<1>1. /\ \A k : k # e.of => RecordsOf(after, k) = RecordsOf(rec, k)
      /\ \A j \in DOMAIN after : j \in DOMAIN rec \/ after[j] = e
      /\ \A j \in DOMAIN rec : after[j] = rec[j]
  BY Noted
<1> HIDE DEF after
<1>2. Calling(after, enc, n)
  BY <1>1 DEF Calling
<1> QED BY <1>2 DEF after

LEMMA ServedMore ==
  ASSUME NEW rec \in Seq(Record), NEW reqs, Served(reqs, rec), NEW e \in Record,
         \A q \in e.open : reqs[q].phase # "none"
  PROVE  Served(reqs, Append(rec, e))
<1> DEFINE after == Append(rec, e)
<1>1. /\ \A j \in DOMAIN after : j \in DOMAIN rec \/ after[j] = e
      /\ \A j \in DOMAIN rec : after[j] = rec[j]
  BY Noted
<1> HIDE DEF after
<1>2. Served(reqs, after)
  BY <1>1 DEF Served
<1> QED BY <1>2 DEF after

LEMMA InFlightAre ==
  ASSUME IInv, ~rt.stopped
  PROVE  OpenAre(rt.spans, InFlight)
<1>1. rt.spans \in Seq(Span) /\ DOMAIN rt.spans = 1..Len(rt.spans)
  BY Fields DEF IInv, Tracks, Tells, WellFormed, Span
<1> SUFFICES ASSUME NEW s \in DOMAIN rt.spans
             PROVE  rt.spans[s].closed = Unclosed <=> rt.spans[s].request \in InFlight
  BY DEF OpenAre
<1>2. rt.spans[s] \in Span
  BY <1>1, ElementOfSeq
<1>3. rt.spans[s].request \in Requests
  BY <1>2 DEF Span
<1>4. rt.spans[s].closed = Unclosed <=> requests[rt.spans[s].request].phase = "open"
  BY DEF IInv, Asks
<1> QED BY <1>3, <1>4 DEF InFlight

LEMMA InFlightPhases ==
  /\ InFlight \in SUBSET Requests
  /\ \A q \in InFlight : requests[q].phase = "open"
BY DEF InFlight

-----------------------------------------------------------------------------
(* Every action keeps the invariant. *)
LEMMA CallBeginsInv ==
  ASSUME IInv, NEW ctx \in Contexts, CallBegins(ctx)
  PROVE  IInv'
<1> DEFINE p == CheckContext(rt, ctx)
<1>1. /\ calls \in Nat /\ calls' = calls + 1 /\ rt' = p
      /\ encoding' = Append(encoding, [ctx |-> ctx, of |-> calls + 1])
      /\ requests' = requests /\ encoding \in Seq(Call)
      /\ encoding # <<>> => Last(encoding).ctx = ctx
  BY DEF CallBegins, IInv, Calling, Runs
<1>2. /\ Tracks(p, recorded) /\ Room(p, calls)
      /\ p.tracking = rt.tracking /\ p.stopped = rt.stopped /\ p.spans = rt.spans
      /\ ~rt.stopped => p.lastCtx = ctx
  BY <1>1, Checked DEF IInv
<1> HIDE DEF p
<1>3. Calling(recorded, encoding', calls')
  BY <1>1, CallingMore DEF IInv
<1>4. Quietly(recorded, recorded', InFlight)
  BY InFlightPhases, Noting DEF CallBegins
<1>5. Tracks(p, recorded') /\ Calling(recorded', encoding', calls') /\ Served(requests, recorded')
  BY <1>2, <1>3, <1>4, InFlightPhases, QuietNote DEF IInv
<1>6. Room(p, calls + 1)
  <2>1. \A m \in 1..calls : m \in 1..(calls + 1)
    BY <1>1
  <2> QED BY <1>2, <2>1 DEF Room
<1>7. InContext(p, encoding')
  <2> SUFFICES ASSUME ~p.stopped, NEW i \in DOMAIN encoding'
               PROVE  encoding'[i].ctx = ctx
    BY <1>2 DEF InContext
  <2> DEFINE call == [ctx |-> ctx, of |-> calls + 1]
  <2>1. call \in Call /\ call.ctx = ctx
    BY <1>1 DEF Call
  <2> HIDE DEF call
  <2>2. /\ DOMAIN encoding = 1..Len(encoding) /\ Len(encoding) \in Nat
        /\ DOMAIN Append(encoding, call) = 1..(Len(encoding) + 1)
        /\ \A k \in 1..Len(encoding) : Append(encoding, call)[k] = encoding[k]
        /\ Append(encoding, call)[Len(encoding) + 1] = call
    <3>1. /\ DOMAIN encoding = 1..Len(encoding) /\ Len(encoding) \in Nat
          /\ Append(encoding, call) \in Seq(Call)
          /\ Len(Append(encoding, call)) = Len(encoding) + 1
          /\ \A k \in 1..Len(encoding) : Append(encoding, call)[k] = encoding[k]
          /\ Append(encoding, call)[Len(encoding) + 1] = call
      BY <1>1, <2>1, LenProperties
    <3>2. DOMAIN Append(encoding, call) = 1..Len(Append(encoding, call))
      BY <3>1, LenProperties
    <3> QED BY <3>1, <3>2
  <2>3. encoding' = Append(encoding, call)
    BY <1>1 DEF call
  <2>4. \A k \in DOMAIN encoding : encoding[k].ctx = rt.lastCtx
    BY <1>2 DEF IInv, InContext
  <2>5. CASE i \in 1..Len(encoding)
    <3>1. Len(encoding) \in DOMAIN encoding /\ encoding # <<>>
      BY <2>2, <2>5
    <3>2. Last(encoding).ctx = rt.lastCtx
      BY <2>4, <3>1 DEF Last
    <3> QED BY <1>1, <2>2, <2>3, <2>4, <2>5, <3>1, <3>2
  <2>6. CASE i = Len(encoding) + 1
    BY <2>1, <2>2, <2>3, <2>6
  <2>7. i \in 1..Len(encoding) \/ i = Len(encoding) + 1
    BY <2>2, <2>3
  <2> QED BY <2>5, <2>6, <2>7
<1>8. Numbered(requests, p.spans) /\ (~p.stopped => Asks(requests, p.spans))
  BY <1>2 DEF IInv
<1>9. p.tracking <=> ~p.stopped
  BY <1>2 DEF IInv
<1> QED BY <1>1, <1>5, <1>6, <1>7, <1>8, <1>9 DEF IInv

LEMMA CallFailsInv ==
  ASSUME IInv, CallFails
  PROVE  IInv'
<1>1. Calling(recorded, Front(encoding), calls) /\ InContext(rt, Front(encoding))
  BY CallingLess DEF IInv, CallFails
<1>2. /\ encoding' = Front(encoding) /\ rt' = rt /\ requests' = requests /\ calls' = calls
      /\ recorded' = recorded
  BY DEF CallFails
<1> QED BY <1>1, <1>2 DEF IInv

(* What the program records reaches the window, and the history. *)
LEMMA ProgramKeeps ==
  ASSUME IInv, NEW kind \in {"event", "write"}, NEW id \in Nat, NEW m \in Nat, calls <= m,
         NEW n \in 1..m, NEW ctx \in Contexts, NEW enc, Calling(recorded, enc, m),
         kind = "event" /\ ~rt.stopped => id = n /\ ctx = rt.lastCtx,
         RecordsOf(recorded, n) = {}, \A i \in DOMAIN enc : enc[i].of # n,
         Note(kind, ctx, n, InFlight), rt' = Push(rt, kind, id, n),
         requests' = requests, calls' = m, encoding' = enc, InContext(rt, enc)
  PROVE  IInv'
<1> DEFINE p == Push(rt, kind, id, n)
           e == [kind |-> kind, ctx |-> ctx, of |-> n, open |-> InFlight]
<1>1. Tells(rt, recorded, rt.known, rt.lastCtx) /\ recorded \in Seq(Record)
  BY DEF IInv, Tracks, Tells
<1>2. Room(rt, m)
  <2>1. \A k \in 1..calls : k \in 1..m
    BY DEF IInv, Calling
  <2> QED BY <2>1 DEF IInv, Room
<1>3. /\ e \in Record /\ e.open = InFlight /\ OfProgram(e) /\ e.of = n
  BY InFlightPhases DEF Record, OfProgram
<1>4. CASE rt.stopped
  <2>1. Pushed(kind, id, n) /\ n \in 0..m
    BY DEF Pushed
  <2>2. /\ Tells(p, recorded, rt.known, rt.lastCtx) /\ SameSession(p, rt) /\ Room(p, m)
    BY <1>1, <1>2, <1>4, <2>1, PushStopped
  <2>3. recorded' = recorded
    BY <1>4 DEF Note
  <2> HIDE DEF p
  <2>4. Tracks(p, recorded) /\ InContext(p, enc)
    BY <2>2 DEF Tracks, SameSession, InContext
  <2>5. /\ p.spans = rt.spans /\ p.stopped = rt.stopped /\ p.tracking = rt.tracking
    BY <2>2 DEF SameSession
  <2>6. rt' = p
    BY DEF p
  <2> QED BY <2>2, <2>3, <2>4, <2>5, <2>6 DEF IInv
<1>5. CASE ~rt.stopped
  <2> DEFINE after == Append(recorded, e)
  <2>1. n \notin rt.lost
    BY <1>1 DEF Tells, Once
  <2>2. OpenAre(rt.spans, InFlight) /\ InFlight \in SUBSET Requests
    BY <1>5, InFlightAre, InFlightPhases
  <2>3. kind = "event" => id = n /\ ctx = rt.lastCtx
    BY <1>5
  <2>4. /\ Tells(p, after, rt.known, rt.lastCtx) /\ SameSession(p, rt) /\ Room(p, m)
    BY <1>1, <1>2, <1>5, <2>1, <2>2, <2>3, PushesProgram
  <2>5. recorded' = after
    BY <1>5 DEF Note
  <2> HIDE DEF p, e
  <2>6. Calling(after, enc, m)
    BY <1>1, <1>3, CallingProgram
  <2>7. Served(requests, after)
    <3>1. \A q \in e.open : requests[q].phase # "none"
      BY <1>3, InFlightPhases
    <3> QED BY <1>1, <1>3, <3>1, ServedMore DEF IInv
  <2> HIDE DEF after
  <2>8. Tracks(p, after) /\ InContext(p, enc)
    BY <2>4 DEF Tracks, SameSession, InContext
  <2>9. /\ p.spans = rt.spans /\ p.stopped = rt.stopped /\ p.tracking = rt.tracking
    BY <2>4 DEF SameSession
  <2>10. rt' = p
    BY DEF p
  <2> QED BY <2>4, <2>5, <2>6, <2>7, <2>8, <2>9, <2>10 DEF IInv
<1> QED BY <1>4, <1>5

LEMMA CallEndsInv ==
  ASSUME IInv, CallEnds
  PROVE  IInv'
<1> DEFINE call == Last(encoding)
<1>1. /\ encoding # <<>> /\ rt' = Push(rt, "event", call.of, call.of)
      /\ Note("event", call.ctx, call.of, InFlight) /\ encoding' = Front(encoding)
      /\ requests' = requests /\ calls' = calls
  BY DEF CallEnds
<1>2. /\ Calling(recorded, Front(encoding), calls)
      /\ call \in Call /\ call.of \in 1..calls
      /\ RecordsOf(recorded, call.of) = {}
      /\ \A i \in DOMAIN Front(encoding) : Front(encoding)[i].of # call.of
      /\ InContext(rt, Front(encoding)) /\ (~rt.stopped => call.ctx = rt.lastCtx)
  BY <1>1, CallingLess DEF IInv
<1>3. calls \in Nat /\ calls <= calls
  BY DEF IInv, Calling
<1> HIDE DEF call
<1>4. call.of \in Nat /\ call.ctx \in Contexts
  BY <1>2 DEF Call
<1> QED BY <1>1, <1>2, <1>3, <1>4, ProgramKeeps

LEMMA ConsoleWritesInv ==
  ASSUME IInv, NEW ctx \in Contexts, ConsoleWrites(ctx)
  PROVE  IInv'
<1> DEFINE m == calls + 1
<1>1. calls \in Nat
  BY DEF IInv, Calling
<1>2. /\ rt' = Push(rt, "write", 0, m) /\ Note("write", ctx, m, InFlight)
      /\ encoding' = encoding /\ requests' = requests /\ calls' = m
  BY DEF ConsoleWrites
<1>3. m \in Nat /\ calls <= m /\ m \in 1..m /\ 0 \in Nat
      /\ \A k \in 1..calls : k \in 1..m /\ k # m
  BY <1>1
<1> HIDE DEF m
<1>4. /\ \A i \in DOMAIN encoding : encoding[i].of \in 1..calls
      /\ \A j \in DOMAIN recorded : OfProgram(recorded[j]) => recorded[j].of \in 1..calls
  BY DEF IInv, Calling
<1>5. Calling(recorded, encoding, m)
  BY <1>3, <1>4 DEF IInv, Calling
<1>6. RecordsOf(recorded, m) = {} /\ \A i \in DOMAIN encoding : encoding[i].of # m
  BY <1>3, <1>4 DEF RecordsOf
<1>7. InContext(rt, encoding)
  BY DEF IInv
<1> QED BY <1>2, <1>3, <1>5, <1>6, <1>7, ProgramKeeps

LEMMA FlushInv ==
  ASSUME IInv, Flush
  PROVE  IInv'
<1> DEFINE f == FlushOf(rt)
<1>1. /\ rt' = f /\ encoding' = encoding /\ requests' = requests /\ calls' = calls
      /\ recorded' = recorded
  BY DEF Flush
<1>2. /\ Tells(f, recorded, rt.known, rt.lastCtx) /\ SameSession(f, rt) /\ Room(f, calls)
  BY FlushTells, FlushRoom DEF IInv, Tracks, Room
<1> HIDE DEF f
<1>3. Tracks(f, recorded) /\ InContext(f, encoding)
  BY <1>2 DEF IInv, Tracks, SameSession, InContext
<1>4. f.spans = rt.spans /\ f.stopped = rt.stopped /\ f.tracking = rt.tracking
  BY <1>2 DEF SameSession
<1> QED BY <1>1, <1>2, <1>3, <1>4 DEF IInv

LEMMA StopInv ==
  ASSUME IInv, Stop
  PROVE  IInv'
<1> DEFINE p == [FlushOf([rt EXCEPT !.tracking = FALSE]) EXCEPT !.stopped = TRUE]
<1>1. /\ rt' = p /\ encoding' = encoding /\ requests' = requests /\ calls' = calls
      /\ recorded' = recorded
  BY DEF Stop
<1>2. /\ Tells(p, recorded, rt.known, rt.lastCtx) /\ Room(p, calls)
      /\ p.known = rt.known /\ p.lastCtx = rt.lastCtx
      /\ ~p.tracking /\ p.stopped /\ p.spans = rt.spans
  BY Stopping DEF IInv, Tracks
<1> HIDE DEF p
<1>3. Tracks(p, recorded) /\ InContext(p, encoding)
  BY <1>2 DEF Tracks, InContext
<1> QED BY <1>1, <1>2, <1>3 DEF IInv

LEMMA RequestArrivesInv ==
  ASSUME IInv, NEW ctx \in Contexts, NEW q \in Requests, RequestArrives(q, ctx)
  PROVE  IInv'
<1>1. /\ encoding = <<>> /\ requests[q].phase = "none" /\ encoding' = encoding /\ calls' = calls
      /\ Note("open", ctx, 0, InFlight \cup {q})
  BY DEF RequestArrives
<1>2. /\ requests \in [Requests -> [phase : {"none", "open", "settled"}, spanId : Nat]]
      /\ \A j \in DOMAIN recorded : q \notin recorded[j].open
  BY <1>1 DEF IInv, Served
<1>3. Quietly(recorded, recorded', InFlight \cup {q})
  BY <1>1, InFlightPhases, Noting
<1>4. ASSUME NEW n \in Nat, requests' = [requests EXCEPT ![q] = [phase |-> "open", spanId |-> n]]
      PROVE  /\ Served(requests', recorded)
             /\ \A r : Tracks(r, recorded) => Tracks(r, recorded')
             /\ Served(requests', recorded') /\ Calling(recorded', encoding', calls')
             /\ requests'[q].phase = "open" /\ requests'[q].spanId = n
             /\ \A k \in Requests : k # q => requests'[k] = requests[k]
  <2>1. /\ requests'[q] = [phase |-> "open", spanId |-> n]
        /\ \A k \in Requests : k # q => requests'[k] = requests[k]
        /\ requests' \in [Requests -> [phase : {"none", "open", "settled"}, spanId : Nat]]
    BY <1>2, <1>4
  <2>2. requests'[q].phase = "open" /\ requests'[q].spanId = n
    BY <2>1
  <2>3. recorded \in Seq(Record)
    BY DEF IInv, Tracks, Tells
  <2>4. \A j \in DOMAIN recorded : recorded[j].open \in SUBSET Requests
    <3>1. \A j \in DOMAIN recorded : recorded[j] \in Record
      BY <2>3, LenProperties, ElementOfSeq
    <3> QED BY <3>1 DEF Record
  <2>5. Served(requests', recorded)
    BY <1>2, <2>1, <2>4 DEF IInv, Served
  <2>6. \A k \in InFlight \cup {q} : requests'[k].phase # "none"
    <3>1. ASSUME NEW k \in InFlight \cup {q} PROVE requests'[k].phase # "none"
      <4>1. CASE k = q
        BY <4>1, <2>2
      <4>2. CASE k # q
        <5>1. k \in Requests /\ requests[k].phase = "open" /\ requests'[k] = requests[k]
          BY <4>2, <2>1, InFlightPhases
        <5> QED BY <5>1
      <4> QED BY <4>1, <4>2
    <3> QED BY <3>1
  <2> DEFINE after == requests'
             noted == recorded'
             open == InFlight \cup {q}
  <2>7. Quietly(recorded, noted, open) /\ Served(after, recorded)
        /\ Calling(recorded, encoding, calls) /\ \A k \in open : after[k].phase # "none"
    BY <1>3, <2>5, <2>6 DEF IInv
  <2> HIDE DEF after, noted, open
  <2>8. \A r : Tracks(r, recorded) => Tracks(r, noted)
    BY <2>7, QuietNote
  <2>9. Served(after, noted) /\ Calling(noted, encoding, calls)
    BY <2>7, QuietNote DEF IInv
  <2> QED BY <1>1, <2>1, <2>2, <2>5, <2>8, <2>9 DEF after, noted
<1>5. CASE rt.stopped
  <2>1. rt' = rt /\ requests' = [requests EXCEPT ![q] = [phase |-> "open", spanId |-> 0]]
    BY <1>5 DEF RequestArrives
  <2>2. /\ Tracks(rt, recorded') /\ Served(requests', recorded')
        /\ Calling(recorded', encoding', calls')
        /\ requests'[q].spanId = 0
        /\ \A k \in Requests : k # q => requests'[k] = requests[k]
    BY <1>4, <2>1 DEF IInv
  <2>3. Len(rt.spans) \in Nat
    BY Fields DEF IInv, Tracks, Tells, WellFormed
  <2>4. Numbered(requests', rt.spans)
    BY <2>2, <2>3 DEF IInv, Numbered
  <2>5. InContext(rt, encoding)
    BY DEF IInv
  <2> QED BY <1>1, <1>5, <2>1, <2>2, <2>4, <2>5 DEF IInv
<1>6. CASE ~rt.stopped
  <2> DEFINE p == CheckContext(rt, ctx)
             f == FlushOf(p)
             o == SpanOpen(f, q)
  <2>1. /\ rt' = o
        /\ requests' = [requests EXCEPT ![q] = [phase |-> "open", spanId |-> Len(rt'.spans)]]
    BY <1>6 DEF RequestArrives, WebRequestStart
  <2>2. /\ Tracks(p, recorded) /\ Room(p, calls)
        /\ p.tracking = rt.tracking /\ p.stopped = rt.stopped /\ p.spans = rt.spans
    BY Checked DEF IInv, Calling
  <2> HIDE DEF p
  <2>3. /\ Tells(f, recorded, p.known, p.lastCtx) /\ SameSession(f, p) /\ f.buffer = <<>>
        /\ Room(f, calls)
    BY <2>2, FlushTells, FlushRoom DEF Tracks, Room
  <2> HIDE DEF f
  <2>4. /\ Tells(o, recorded, p.known, p.lastCtx)
        /\ Room(o, calls)
        /\ o.known = f.known /\ o.lastCtx = f.lastCtx
        /\ o.tracking = f.tracking /\ o.stopped = f.stopped
        /\ DOMAIN o.spans = 1..(Len(f.spans) + 1) /\ Len(o.spans) = Len(f.spans) + 1
        /\ Len(f.spans) \in Nat
        /\ \A s \in 1..Len(f.spans) : o.spans[s] = f.spans[s]
        /\ o.spans[Len(f.spans) + 1].request = q
        /\ o.spans[Len(f.spans) + 1].closed = Unclosed
    BY <1>2, <2>3, Opened
  <2> HIDE DEF o
  <2>5. /\ f.spans = rt.spans /\ f.known = p.known /\ f.lastCtx = p.lastCtx
        /\ f.stopped = rt.stopped /\ f.tracking = rt.tracking
    BY <2>2, <2>3 DEF SameSession
  <2>6. Tracks(o, recorded)
    BY <2>4, <2>5 DEF Tracks
  <2> DEFINE n == Len(rt.spans) + 1
  <2>7. n \in Nat /\ requests' = [requests EXCEPT ![q] = [phase |-> "open", spanId |-> n]]
    BY <2>1, <2>4, <2>5
  <2>8. /\ Tracks(o, recorded') /\ Served(requests', recorded')
        /\ Calling(recorded', encoding', calls')
        /\ requests'[q].phase = "open" /\ requests'[q].spanId = n
        /\ \A k \in Requests : k # q => requests'[k] = requests[k]
    BY <1>4, <2>6, <2>7
  <2>9. /\ Len(o.spans) = n /\ DOMAIN o.spans = 1..n /\ Len(rt.spans) \in Nat
        /\ \A s \in 1..Len(rt.spans) : o.spans[s] = rt.spans[s]
        /\ o.spans[n].request = q /\ o.spans[n].closed = Unclosed
        /\ n = Len(rt.spans) + 1
    BY <2>4, <2>5
  <2>10. rt.spans \in Seq(Span) /\ DOMAIN rt.spans = 1..Len(rt.spans)
    BY Fields DEF IInv, Tracks, Tells, WellFormed, Span
  <2> HIDE DEF n
  <2>11. Numbered(requests', o.spans)
    <3>1. \A k \in Requests : requests[k].spanId \in Nat /\ requests[k].spanId <= Len(rt.spans)
      BY <1>2 DEF IInv, Numbered
    <3> SUFFICES ASSUME NEW k \in Requests PROVE requests'[k].spanId <= n
      BY <2>9 DEF Numbered
    <3>2. CASE k = q
      BY <3>2, <2>7, <2>8
    <3>3. CASE k # q
      BY <3>1, <3>3, <2>8, <2>9
    <3> QED BY <3>2, <3>3
  <2>12. Asks(requests', o.spans)
    <3>1. Asks(requests, rt.spans)
      BY <1>6 DEF IInv
    <3>2. ASSUME NEW s \in DOMAIN o.spans
          PROVE  /\ requests'[o.spans[s].request].spanId = s
                 /\ requests'[o.spans[s].request].phase # "none"
                 /\ o.spans[s].closed = Unclosed
                      <=> requests'[o.spans[s].request].phase = "open"
      <4>1. CASE s = n
        BY <4>1, <2>8, <2>9
      <4>2. CASE s \in 1..Len(rt.spans)
        <5>1. rt.spans[s] \in Span
          BY <4>2, <2>10, ElementOfSeq
        <5>2. rt.spans[s].request \in Requests /\ s \in DOMAIN rt.spans
          BY <4>2, <5>1, <2>10 DEF Span
        <5>3. rt.spans[s].request # q
          BY <3>1, <5>2, <1>1 DEF Asks
        <5> QED BY <3>1, <4>2, <5>2, <5>3, <2>8, <2>9 DEF Asks
      <4>3. s = n \/ s \in 1..Len(rt.spans)
        BY <2>9
      <4> QED BY <4>1, <4>2, <4>3
    <3>3. ASSUME NEW k \in Requests, requests'[k].phase = "open"
          PROVE  /\ requests'[k].spanId \in DOMAIN o.spans
                 /\ o.spans[requests'[k].spanId].request = k
      <4>1. CASE k = q
        <5>1. n \in 1..n
          BY <2>9
        <5> QED BY <4>1, <5>1, <2>8, <2>9
      <4>2. CASE k # q
        <5>1. requests'[k] = requests[k]
          BY <4>2, <2>8
        <5>2. /\ requests[k].spanId \in 1..Len(rt.spans)
              /\ rt.spans[requests[k].spanId].request = k
          BY <3>1, <3>3, <5>1, <2>10 DEF Asks
        <5>3. requests[k].spanId \in 1..n
          BY <5>2, <2>9
        <5> QED BY <5>1, <5>2, <5>3, <2>9
      <4> QED BY <4>1, <4>2
    <3> QED BY <3>2, <3>3 DEF Asks
  <2>13. (o.tracking <=> ~o.stopped) /\ InContext(o, encoding')
    <3>1. DOMAIN encoding = {}
      BY <1>1
    <3> QED BY <1>1, <3>1, <2>4, <2>5 DEF IInv, InContext
  <2> QED BY <1>1, <2>1, <2>4, <2>8, <2>11, <2>12, <2>13 DEF IInv
<1> QED BY <1>5, <1>6

LEMMA RequestSettlesInv ==
  ASSUME IInv, NEW ctx \in Contexts, NEW q \in Requests, RequestSettles(q, ctx)
  PROVE  IInv'
<1>1. /\ encoding = <<>> /\ requests[q].phase = "open" /\ encoding' = encoding /\ calls' = calls
      /\ Note("close", ctx, 0, InFlight)
      /\ requests' = [requests EXCEPT ![q].phase = "settled"]
  BY DEF RequestSettles
<1>2. requests \in [Requests -> [phase : {"none", "open", "settled"}, spanId : Nat]]
  BY DEF IInv, Served
<1>3. /\ requests'[q].phase = "settled" /\ requests'[q].spanId = requests[q].spanId
      /\ \A k \in Requests : k # q => requests'[k] = requests[k]
      /\ requests' \in [Requests -> [phase : {"none", "open", "settled"}, spanId : Nat]]
  <2>1. requests[q] \in [phase : {"none", "open", "settled"}, spanId : Nat]
    BY <1>2
  <2>2. /\ requests'[q] = [requests[q] EXCEPT !.phase = "settled"]
        /\ \A k \in Requests : k # q => requests'[k] = requests[k]
    BY <1>1, <1>2
  <2>3. ASSUME NEW x \in [phase : {"none", "open", "settled"}, spanId : Nat]
        PROVE  LET y == [x EXCEPT !.phase = "settled"]
               IN /\ y \in [phase : {"none", "open", "settled"}, spanId : Nat]
                  /\ y.phase = "settled" /\ y.spanId = x.spanId
    OBVIOUS
  <2>4. /\ requests'[q] \in [phase : {"none", "open", "settled"}, spanId : Nat]
        /\ requests'[q].phase = "settled" /\ requests'[q].spanId = requests[q].spanId
    BY <2>1, <2>2, <2>3
  <2> QED BY <1>1, <1>2, <2>2, <2>4
<1>4. /\ Served(requests', recorded)
      /\ \A k \in InFlight : requests'[k].phase # "none"
  <2>1. \A k \in Requests : requests[k].phase # "none" => requests'[k].phase # "none"
    BY <1>3
  <2>2. \A j \in DOMAIN recorded : recorded[j].open \in SUBSET Requests
    <3>1. recorded \in Seq(Record)
      BY DEF IInv, Tracks, Tells
    <3>2. \A j \in DOMAIN recorded : recorded[j] \in Record
      BY <3>1, LenProperties, ElementOfSeq
    <3> QED BY <3>2 DEF Record
  <2>3. \A k \in InFlight : k \in Requests /\ requests[k].phase # "none"
    BY InFlightPhases
  <2>4. \A j \in DOMAIN recorded : \A k \in recorded[j].open : requests[k].phase # "none"
    BY DEF IInv, Served
  <2> QED BY <1>3, <2>1, <2>2, <2>3, <2>4 DEF Served
<1>5. /\ Served(requests', recorded') /\ Calling(recorded', encoding', calls')
      /\ \A r : Tracks(r, recorded) => Tracks(r, recorded')
  <2> DEFINE after == requests'
             noted == recorded'
             open == InFlight
  <2>1. Quietly(recorded, noted, open)
    BY <1>1, InFlightPhases, Noting
  <2>2. /\ Served(after, recorded) /\ Calling(recorded, encoding, calls)
        /\ \A k \in open : after[k].phase # "none"
    BY <1>4 DEF IInv
  <2> HIDE DEF after, noted, open
  <2>3. \A r : Tracks(r, recorded) => Tracks(r, noted)
    BY <2>1, <2>2, QuietNote
  <2>4. Served(after, noted) /\ Calling(noted, encoding, calls)
    BY <2>1, <2>2, QuietNote DEF IInv
  <2> QED BY <1>1, <2>3, <2>4 DEF after, noted
<1>6. CASE rt.stopped
  <2>1. rt' = rt
    BY <1>6 DEF RequestSettles
  <2>2. Numbered(requests', rt.spans)
    <3>1. \A k \in Requests : requests'[k].spanId = requests[k].spanId
      BY <1>3
    <3> QED BY <3>1 DEF IInv, Numbered
  <2>3. InContext(rt, encoding) /\ Tracks(rt, recorded')
    BY <1>5 DEF IInv
  <2> QED BY <1>1, <1>5, <1>6, <2>1, <2>2, <2>3 DEF IInv
<1>7. CASE ~rt.stopped
  <2> DEFINE t == requests[q].spanId
             p == CheckContext(rt, ctx)
             f == FlushOf(p)
             o == SpanClose(f, t)
  <2>1. rt.spans \in Seq(Span) /\ DOMAIN rt.spans = 1..Len(rt.spans)
    BY Fields DEF IInv, Tracks, Tells, WellFormed, Span
  <2>2. Asks(requests, rt.spans)
    BY <1>7 DEF IInv
  <2>3. t \in DOMAIN rt.spans /\ rt.spans[t].request = q /\ t # 0
    BY <1>1, <2>1, <2>2 DEF Asks
  <2>4. rt' = o
    BY <1>7, <2>3 DEF RequestSettles, WebRequestStop
  <2>5. /\ Tracks(p, recorded) /\ Room(p, calls)
        /\ p.tracking = rt.tracking /\ p.stopped = rt.stopped /\ p.spans = rt.spans
    BY Checked DEF IInv, Calling
  <2> HIDE DEF p, t
  <2>6. /\ Tells(f, recorded, p.known, p.lastCtx) /\ SameSession(f, p) /\ f.buffer = <<>>
        /\ Room(f, calls)
    BY <2>5, FlushTells, FlushRoom DEF Tracks, Room
  <2> HIDE DEF f
  <2>7. /\ f.spans = rt.spans /\ f.known = p.known /\ f.lastCtx = p.lastCtx
        /\ f.stopped = rt.stopped /\ f.tracking = rt.tracking
    BY <2>5, <2>6 DEF SameSession
  <2>8. t \in DOMAIN f.spans
    BY <2>3, <2>7
  <2>9. /\ Tells(o, recorded, p.known, p.lastCtx)
        /\ Room(o, calls)
        /\ o.known = f.known /\ o.lastCtx = f.lastCtx
        /\ o.tracking = f.tracking /\ o.stopped = f.stopped
        /\ DOMAIN o.spans = DOMAIN f.spans /\ Len(o.spans) = Len(f.spans)
        /\ \A s \in DOMAIN f.spans : o.spans[s].request = f.spans[s].request
        /\ \A s \in DOMAIN f.spans : s # t => o.spans[s].closed = f.spans[s].closed
        /\ o.spans[t].closed # Unclosed
    BY <2>6, <2>8, Closed
  <2> HIDE DEF o
  <2>10. Tracks(o, recorded')
    <3>1. Tracks(o, recorded)
      BY <2>7, <2>9 DEF Tracks
    <3> QED BY <3>1, <1>5
  <2>11. Numbered(requests', o.spans)
    <3>1. \A k \in Requests : requests'[k].spanId = requests[k].spanId
      BY <1>3
    <3> QED BY <3>1, <2>7, <2>9 DEF IInv, Numbered
  <2>12. Asks(requests', o.spans)
    <3>1. ASSUME NEW s \in DOMAIN o.spans
          PROVE  /\ requests'[o.spans[s].request].spanId = s
                 /\ requests'[o.spans[s].request].phase # "none"
                 /\ o.spans[s].closed = Unclosed
                      <=> requests'[o.spans[s].request].phase = "open"
      <4>1. s \in DOMAIN rt.spans /\ o.spans[s].request = rt.spans[s].request
        BY <2>7, <2>9
      <4>2. CASE s = t
        <5>1. o.spans[s].request = q /\ o.spans[s].closed # Unclosed
          BY <4>1, <4>2, <2>3, <2>9
        <5> QED BY <4>2, <5>1, <1>3 DEF t
      <4>3. CASE s # t
        <5>1. rt.spans[s] \in Span
          BY <4>1, <2>1, ElementOfSeq
        <5>2. rt.spans[s].request \in Requests
          BY <5>1 DEF Span
        <5>3. rt.spans[s].request # q
          BY <4>1, <4>3, <2>2 DEF Asks, t
        <5>4. requests'[rt.spans[s].request] = requests[rt.spans[s].request]
          BY <5>2, <5>3, <1>3
        <5>5. o.spans[s].closed = rt.spans[s].closed
          BY <4>1, <4>3, <2>7, <2>9
        <5> QED BY <4>1, <5>4, <5>5, <2>2 DEF Asks
      <4> QED BY <4>2, <4>3
    <3>2. ASSUME NEW k \in Requests, requests'[k].phase = "open"
          PROVE  /\ requests'[k].spanId \in DOMAIN o.spans
                 /\ o.spans[requests'[k].spanId].request = k
      <4>1. k # q /\ requests'[k] = requests[k]
        BY <3>2, <1>3
      <4>2. requests[k].spanId \in DOMAIN rt.spans /\ rt.spans[requests[k].spanId].request = k
        BY <3>2, <4>1, <2>2 DEF Asks
      <4> QED BY <4>1, <4>2, <2>7, <2>9
    <3> QED BY <3>1, <3>2 DEF Asks
  <2>13. (o.tracking <=> ~o.stopped) /\ InContext(o, encoding')
    <3>1. DOMAIN encoding = {}
      BY <1>1
    <3> QED BY <1>1, <3>1, <2>7, <2>9 DEF IInv, InContext
  <2> QED BY <1>1, <1>5, <2>4, <2>9, <2>10, <2>11, <2>12, <2>13 DEF IInv
<1> QED BY <1>6, <1>7

LEMMA InitInv ==
  ASSUME Init
  PROVE  IInv
<1>1. PICK ctx \in Contexts :
        rt = Push([buffer |-> <<>>, attached |-> <<>>, known |-> {ctx},
                   lastCtx |-> ctx, tracking |-> TRUE, stopped |-> FALSE,
                   batches |-> 0, events |-> <<>>, spans |-> <<>>,
                   lost |-> {}, failed |-> FALSE], "start", ctx, 0)
  BY DEF Init
<1>2. /\ encoding = <<>> /\ calls = 0 /\ recorded = <<>>
      /\ requests = [q \in Requests |-> [phase |-> "none", spanId |-> 0]]
  BY DEF Init
<1> DEFINE r == [buffer |-> <<>>, attached |-> <<>>, known |-> {ctx},
                 lastCtx |-> ctx, tracking |-> TRUE, stopped |-> FALSE,
                 batches |-> 0, events |-> <<>>, spans |-> <<>>,
                 lost |-> {}, failed |-> FALSE]
           q == Added(r, "start", ctx, 0)
           S == <<[kind |-> "start", id |-> ctx]>>
           p == Push(r, "start", ctx, 0)
<1>3. /\ r.buffer = <<>> /\ r.attached = <<>> /\ r.known = {ctx} /\ r.lastCtx = ctx
      /\ r.events = <<>> /\ r.spans = <<>> /\ r.lost = {}
  OBVIOUS
<1>4. r.tracking /\ ~r.stopped /\ ~r.failed
  BY Zenon
<1>5. r \in Runtime
  <2>1. /\ <<>> \in Seq(Event) /\ <<>> \in Seq([eventIndex : Nat, of : Nat])
        /\ <<>> \in Seq(Span)
    OBVIOUS
  <2>2. {ctx} \in SUBSET Contexts /\ 0 \in Nat /\ {} \in SUBSET Nat
    OBVIOUS
  <2>3. TRUE \in BOOLEAN /\ FALSE \in BOOLEAN
    OBVIOUS
  <2> QED BY <2>1, <2>2, <2>3, Zenon DEF Runtime, Span
<1>6. ctx \in Nat
  BY Bounds
<1> HIDE DEF r
<1>7. WellFormed(r)
  BY <1>3, <1>5 DEF WellFormed
<1>8. Pushed("start", ctx, 0) /\ 0 \in 0..0 /\ 0 \in Nat
  BY <1>6 DEF Pushed
<1>9. Room(r, 0)
  BY <1>3, Bounds DEF Room, Ids
<1>10. /\ WellFormed(q) /\ SameSession(q, r) /\ q.events = <<>> /\ q.lost = {} /\ ~q.failed
       /\ Ids(q) = {}
  <2>1. AddedTo(q, r, "start", ctx, 0)
    BY <1>7, <1>8, Adding
  <2>2. WellFormed(q)
    BY <2>1 DEF AddedTo
  <2>3. SameSession(q, r) /\ q.events = r.events /\ q.lost = r.lost /\ q.failed = r.failed
    BY <1>7, AddedSession
  <2>4. Ids(q) = Ids(r)
    BY <1>7, <1>8, AddedIds
  <2>5. Ids(r) = {}
    BY <1>3 DEF Ids
  <2> QED BY <2>2, <2>3, <2>4, <2>5, <1>3, <1>4
<1>11. Due(q) = S
  <2>1. Due(q) = Due(r) \o Entries("start", ctx, 0)
    BY <1>4, <1>7, <1>8, DueGrows
  <2>2. Due(r) = <<>>
    BY <1>3, <1>7, DueTyped
  <2>3. Entries("start", ctx, 0) = S
    BY DEF Entries
  <2>4. S \in Seq(Event)
    BY <1>6 DEF Event
  <2> QED BY <2>1, <2>2, <2>3, <2>4, ConcatEmptySeq
<1>12. /\ DOMAIN S = {1} /\ Len(S) = 1 /\ S[1] = [kind |-> "start", id |-> ctx]
       /\ S[1].kind = "start" /\ S[1].id = ctx
  OBVIOUS
<1> HIDE DEF S, q, p
<1>13. OwnIn(S) = {} /\ ValuesIn(S) /\ DOMAIN q.events = {} /\ ValuesIn(q.events)
  BY <1>10, <1>12 DEF OwnIn, OfProgram, ValuesIn
<1>14. q.spans = <<>> /\ q.known = {ctx} /\ q.lastCtx = ctx
       /\ (q.stopped <=> r.stopped) /\ (q.tracking <=> r.tracking)
  BY <1>3, <1>10 DEF SameSession
<1>15. Threaded(q, <<>>, {ctx}, ctx)
  <2>1. EventsThreaded(S, <<>>)
    BY <1>12 DEF EventsThreaded
  <2>2. ThreadIn(S, Len(S), ctx)
    <3>1. OfThread(S[1]) /\ 1 \in 1..1 /\ \A m \in (1 + 1)..1 : ~OfThread(S[m])
      BY <1>12 DEF OfThread
    <3> QED BY <3>1, <1>12 DEF ThreadIn
  <2>3. ASSUME NEW c \in Contexts PROVE c \in {ctx} <=> Started1(S, c)
    <3>1. Started1(S, c) <=> S[1] = [kind |-> "start", id |-> c]
      BY <1>12 DEF Started1
    <3>2. S[1] = [kind |-> "start", id |-> c] => c = ctx
      <4>1. [kind |-> "start", id |-> c].id = c
        OBVIOUS
      <4> QED BY <4>1, <1>12
    <3> QED BY <3>1, <3>2, <1>12
  <2>4. ThreadsIn(S, {ctx}, ctx)
    BY <1>12, <2>2, <2>3 DEF ThreadsIn
  <2> QED BY <1>11, <2>1, <2>4 DEF Threaded
<1>16. Tells(q, <<>>, {ctx}, ctx)
  <2>1. Bounded(q)
    BY <1>14 DEF Bounded
  <2>2. <<>> \in Seq(Record)
    OBVIOUS
  <2>3. Once(<<>>, {}) /\ Told(S, <<>>, {}) /\ Complete(S, <<>>, {})
    BY <1>13 DEF Once, Told, Complete
  <2>4. SpansIn(S, q.spans, <<>>)
    BY <1>13 DEF SpansIn
  <2>5. Waiting(S, Len(q.events), Ids(q))
    BY <1>10, <1>13 DEF Waiting
  <2> QED BY <1>10, <1>11, <1>13, <1>15, <2>1, <2>2, <2>3, <2>4, <2>5 DEF Tells
<1>17. Tells(p, <<>>, {ctx}, ctx) /\ SameSession(p, r) /\ Room(p, 0)
  BY <1>7, <1>8, <1>9, <1>16, PushTells DEF q, p
<1>18. rt = p
  BY <1>1 DEF r, p
<1>19. /\ p.spans = <<>> /\ p.known = {ctx} /\ p.lastCtx = ctx /\ p.tracking /\ ~p.stopped
  BY <1>3, <1>4, <1>17 DEF SameSession
<1>20. Tracks(p, recorded) /\ InContext(p, encoding)
  BY <1>2, <1>17, <1>19 DEF Tracks, InContext
<1>21. Calling(recorded, encoding, calls)
  BY <1>2 DEF Calling
<1>22. Served(requests, recorded) /\ Numbered(requests, p.spans) /\ Asks(requests, p.spans)
  <2>1. requests \in [Requests -> [phase : {"none", "open", "settled"}, spanId : Nat]]
    BY <1>2
  <2>2. \A k \in Requests : requests[k].phase = "none" /\ requests[k].spanId = 0
    BY <1>2
  <2> QED BY <1>2, <1>19, <2>1, <2>2 DEF Served, Numbered, Asks
<1> QED BY <1>2, <1>17, <1>18, <1>19, <1>20, <1>21, <1>22 DEF IInv

LEMMA NextInv ==
  ASSUME IInv, [Next]_vars
  PROVE  IInv'
<1>1. ASSUME NEW ctx \in Contexts, CallBegins(ctx) PROVE IInv'
  BY <1>1, CallBeginsInv
<1>2. ASSUME NEW ctx \in Contexts, ConsoleWrites(ctx) PROVE IInv'
  BY <1>2, ConsoleWritesInv
<1>3. ASSUME NEW ctx \in Contexts, NEW q \in Requests, RequestArrives(q, ctx) PROVE IInv'
  BY <1>3, RequestArrivesInv
<1>4. ASSUME NEW ctx \in Contexts, NEW q \in Requests, RequestSettles(q, ctx) PROVE IInv'
  BY <1>4, RequestSettlesInv
<1>5. CASE CallEnds
  BY <1>5, CallEndsInv
<1>6. CASE CallFails
  BY <1>6, CallFailsInv
<1>7. CASE Flush
  BY <1>7, FlushInv
<1>8. CASE Stop
  BY <1>8, StopInv
<1>9. CASE UNCHANGED vars
  BY <1>9 DEF vars, IInv
<1> QED BY <1>1, <1>2, <1>3, <1>4, <1>5, <1>6, <1>7, <1>8, <1>9 DEF Next

-----------------------------------------------------------------------------
(* What the invariant says of the recording. *)
LEMMA InvTyped ==
  ASSUME IInv
  PROVE  TypeOK
<1>1. WellFormed(rt) /\ Bounded(rt) /\ Room(rt, calls) /\ Calling(recorded, encoding, calls)
      /\ Served(requests, recorded) /\ Numbered(requests, rt.spans)
  BY DEF IInv, Tracks, Tells
<1>2. /\ rt.buffer \in Seq(Event) /\ rt.attached \in Seq([eventIndex : Nat, of : Nat])
      /\ rt.known \in SUBSET Contexts /\ rt.lastCtx \in Contexts /\ rt.events \in Seq(Event)
      /\ Len(rt.attached) \in Nat /\ DOMAIN rt.attached = 1..Len(rt.attached)
      /\ Len(rt.spans) \in Nat
  BY <1>1, Fields DEF WellFormed
<1>3. Len(rt.buffer) < Capacity /\ rt.lost \subseteq 1..calls /\ Ids(rt) \subseteq 1..calls
  BY <1>1 DEF Room
<1>4. rt.attached \in Seq([eventIndex : 1..Len(rt.buffer), of : 1..calls])
  <2> DEFINE s == rt.attached
             T == [eventIndex : 1..Len(rt.buffer), of : 1..calls]
  <2>1. ASSUME NEW a \in 1..Len(s) PROVE s[a] \in T
    <3>1. s[a] \in [eventIndex : Nat, of : Nat]
      BY <1>2, ElementOfSeq
    <3>2. s[a].eventIndex \in 1..Len(rt.buffer)
      BY <1>1, <1>2 DEF WellFormed
    <3>3. s[a].of \in 1..calls
      BY <1>2, <1>3 DEF Ids
    <3> QED BY <3>1, <3>2, <3>3
  <2>2. s \in [1..Len(s) -> [eventIndex : Nat, of : Nat]]
    BY <1>2, LenProperties
  <2> HIDE DEF T
  <2>3. s \in [1..Len(s) -> T]
    BY <2>1, <2>2
  <2>4. Len(s) \in Nat
    BY <1>2
  <2> HIDE DEF s
  <2>5. s \in Seq(T)
    BY <2>3, <2>4, SeqDef
  <2> QED BY <2>5 DEF s, T
<1>5. \A i \in DOMAIN encoding : encoding[i] \in [ctx : Contexts, of : 1..calls]
  <2>1. encoding \in Seq(Call)
    BY <1>1 DEF Calling
  <2> SUFFICES ASSUME NEW i \in DOMAIN encoding
               PROVE  encoding[i] \in [ctx : Contexts, of : 1..calls]
    OBVIOUS
  <2>2. encoding[i] \in Call
    BY <2>1, LenProperties, ElementOfSeq
  <2>3. encoding[i].of \in 1..calls
    BY <1>1 DEF Calling
  <2> QED BY <2>2, <2>3 DEF Call
<1>6. \A q \in Requests : requests[q].spanId \in 0..Len(rt.spans)
  <2>1. \A q \in Requests : requests[q].spanId \in Nat
    BY <1>1 DEF Served
  <2> QED BY <1>1, <1>2, <2>1 DEF Numbered
<1> QED BY <1>1, <1>2, <1>3, <1>4, <1>5, <1>6 DEF TypeOK, Bounded

LEMMA InvDelivered ==
  ASSUME IInv
  PROVE  DeliveredOnce
<1> DEFINE S == rt.events
           T == Due(rt)
           lost == rt.lost
<1>1. /\ Once(recorded, lost) /\ Told(T, recorded, lost) /\ Complete(T, recorded, lost)
      /\ ~rt.stopped => Waiting(T, Len(S), Ids(rt))
      /\ WellFormed(rt)
  BY DEF IInv, Tracks, Tells
<1>2. /\ S \in Seq(Event) /\ T \in Seq(Event) /\ Extends(S, T) /\ Len(S) \in Nat
      /\ rt.stopped => T = S
  BY <1>1, DueTyped
<1>3. /\ DOMAIN S = 1..Len(S) /\ DOMAIN T = 1..Len(T) /\ Len(T) \in Nat
  BY <1>2, LenProperties
<1> HIDE DEF S, T, lost
<1>4. ASSUME NEW i \in OwnIn(S) PROVE i \in OwnIn(T) /\ T[i] = S[i] /\ i \in 1..Len(S)
  BY <1>2, <1>3 DEF OwnIn, Extends
<1>5. ASSUME NEW i \in OwnIn(T), ~(i > Len(S)) PROVE i \in OwnIn(S) /\ T[i] = S[i]
  <2>1. i \in 1..Len(S)
    BY <1>2, <1>3, <1>5 DEF OwnIn
  <2>2. T[i] = S[i]
    BY <1>2, <2>1 DEF Extends
  <2> QED BY <1>3, <2>1, <2>2 DEF OwnIn
<1> DEFINE kept == {j \in DOMAIN recorded : OfProgram(recorded[j]) /\ recorded[j].of \notin lost}
           is(i, j) == S[i].id = recorded[j].of
           waits(j) == ~rt.stopped /\ recorded[j].of \in Ids(rt)
<1>6. ASSUME NEW i \in OwnIn(S) PROVE \E j \in kept : is(i, j)
  <2>1. RecordsOf(recorded, S[i].id) # {} /\ S[i].id \notin lost
    BY <1>1, <1>4 DEF Told
  <2> QED BY <2>1 DEF RecordsOf
<1>7. ASSUME NEW j \in kept PROVE waits(j) \/ \E i \in OwnIn(S) : is(i, j)
  <2>1. PICK i \in OwnIn(T) : T[i].id = recorded[j].of
    BY <1>1 DEF Complete
  <2>2. CASE i > Len(S)
    <3>1. ~rt.stopped
      BY <1>2, <1>3, <2>1, <2>2 DEF OwnIn
    <3>2. T[i].id \in Ids(rt)
      BY <1>1, <2>2, <3>1 DEF Waiting
    <3> QED BY <2>1, <3>1, <3>2
  <2>3. CASE ~(i > Len(S))
    BY <1>5, <2>1, <2>3
  <2> QED BY <2>2, <2>3
<1>8. ASSUME NEW i1 \in OwnIn(T), NEW i2 \in OwnIn(T), NEW j1 \in kept, NEW j2 \in kept,
             T[i1].id = recorded[j1].of, T[i2].id = recorded[j2].of, i1 < i2
      PROVE  j1 < j2
  <2>1. j1 \in RecordsOf(recorded, T[i1].id) /\ j2 \in RecordsOf(recorded, T[i2].id)
    BY <1>8 DEF RecordsOf
  <2> QED BY <1>1, <1>8, <2>1 DEF Told
<1>9. DOMAIN recorded \subseteq Nat
  <2>1. recorded \in Seq(Record)
    BY DEF IInv, Tracks, Tells
  <2> QED BY <2>1, LenProperties
<1>10. ASSUME NEW i1 \in OwnIn(S), NEW i2 \in OwnIn(S), NEW j1 \in kept, NEW j2 \in kept,
              is(i1, j1), is(i2, j2)
       PROVE  i1 < i2 <=> j1 < j2
  <2>1. /\ i1 \in OwnIn(T) /\ i2 \in OwnIn(T)
        /\ T[i1].id = recorded[j1].of /\ T[i2].id = recorded[j2].of
        /\ i1 \in Nat /\ i2 \in Nat /\ j1 \in Nat /\ j2 \in Nat
    BY <1>3, <1>4, <1>9, <1>10
  <2>2. i1 < i2 => j1 < j2
    BY <1>8, <2>1
  <2>3. i2 < i1 => j2 < j1
    BY <1>8, <2>1
  <2>4. i1 = i2 => j1 = j2
    <3> SUFFICES ASSUME i1 = i2 PROVE j1 = j2
      OBVIOUS
    <3>1. recorded[j1].of = recorded[j2].of
      BY <2>1
    <3> QED BY <3>1, <1>1 DEF Once
  <2> QED BY <2>1, <2>2, <2>3, <2>4
<1>11. ASSUME NEW i \in OwnIn(S), NEW j1 \in kept, NEW j2 \in kept, is(i, j1), waits(j2)
       PROVE  j1 < j2
  <2>1. PICK i2 \in OwnIn(T) : i2 > Len(S) /\ T[i2].id = recorded[j2].of
    BY <1>1, <1>11 DEF Waiting
  <2>2. i \in OwnIn(T) /\ T[i].id = recorded[j1].of /\ i \in 1..Len(S)
    BY <1>4, <1>11
  <2>3. i2 \in 1..Len(T)
    BY <1>3 DEF OwnIn
  <2>4. i < i2
    BY <1>2, <1>3, <2>1, <2>2, <2>3
  <2> QED BY <1>8, <2>1, <2>2, <2>4
<1>12. \A j : waits(j) <=> ~rt.stopped /\ \E a \in DOMAIN rt.attached :
                             rt.attached[a].of = recorded[j].of
  BY DEF Ids
<1>13. OwnIn(S) = Own
  BY DEF OwnIn, Own, S
<1> HIDE DEF waits
<1> QED BY <1>6, <1>7, <1>10, <1>11, <1>12, <1>13 DEF DeliveredOnce, S, lost

LEMMA ThreadFound ==
  ASSUME NEW i \in 1..Len(rt.events), Len(rt.events) \in Nat, NEW c, ThreadIn(rt.events, i, c)
  PROVE  ThreadAt(i) = c
<1> DEFINE before == {j \in 1..i : rt.events[j].kind \in {"start", "switch"}}
<1>1. PICK k \in 1..i : /\ OfThread(rt.events[k]) /\ rt.events[k].id = c
                        /\ \A m \in (k + 1)..i : ~OfThread(rt.events[m])
  BY DEF ThreadIn
<1>2. i \in Nat /\ before \in SUBSET (1..i) /\ k \in before
  BY <1>1 DEF OfThread
<1>3. \A m \in before : m \in 1..i /\ OfThread(rt.events[m])
  BY DEF OfThread
<1>4. ThreadAt(i) = IF before = {} THEN 0 ELSE rt.events[Max(before)].id
  BY DEF ThreadAt
<1> HIDE DEF before
<1>5. Max(before) \in before /\ \A y \in before : Max(before) >= y
  BY <1>2, Greatest
<1>6. Max(before) = k
  <2>1. Max(before) \in 1..i /\ Max(before) >= k /\ OfThread(rt.events[Max(before)])
    BY <1>2, <1>3, <1>5
  <2>2. Max(before) \notin (k + 1)..i
    BY <1>1, <2>1
  <2> QED BY <1>1, <1>2, <2>1, <2>2
<1> QED BY <1>1, <1>2, <1>4, <1>6

LEMMA InvThreads ==
  ASSUME IInv
  PROVE  OnItsThread
<1> DEFINE S == rt.events
           T == Due(rt)
<1>1. WellFormed(rt)
  BY DEF IInv, Tracks, Tells
<1>2. /\ S \in Seq(Event) /\ T \in Seq(Event) /\ Extends(S, T) /\ Len(S) \in Nat
  BY <1>1, DueTyped
<1>3. /\ DOMAIN S = 1..Len(S) /\ DOMAIN T = 1..Len(T) /\ Len(T) \in Nat
  BY <1>2, LenProperties
<1> SUFFICES ASSUME ~rt.failed
             PROVE  /\ \A i \in DOMAIN S : S[i].kind = "event" =>
                         \E j \in DOMAIN recorded : /\ recorded[j].of = S[i].id
                                                    /\ recorded[j].ctx = ThreadAt(i)
                    /\ \A i \in DOMAIN S : S[i].kind = "switch" =>
                         \E j \in 1..(i - 1) : S[j] = [kind |-> "start", id |-> S[i].id]
                    /\ \A i, j \in DOMAIN S : S[i].kind = "start" /\ S[i] = S[j] => i = j
  BY DEF OnItsThread
<1>4. EventsThreaded(T, recorded) /\ ThreadsIn(T, rt.known, rt.lastCtx)
  BY DEF IInv, Tracks, Tells, Threaded
<1>5. \A i \in 1..Len(S) : T[i] = S[i] /\ i \in DOMAIN T
  BY <1>2, <1>3 DEF Extends
<1> HIDE DEF T
<1>6. ASSUME NEW i \in DOMAIN S, S[i].kind = "event"
      PROVE  \E j \in DOMAIN recorded : /\ recorded[j].of = S[i].id
                                        /\ recorded[j].ctx = ThreadAt(i)
  <2>1. PICK j \in RecordsOf(recorded, S[i].id) : ThreadIn(T, i, recorded[j].ctx)
    BY <1>3, <1>4, <1>5, <1>6 DEF EventsThreaded
  <2>2. \A m \in 1..i : T[m] = S[m]
    BY <1>2, <1>3, <1>5
  <2>3. ThreadIn(S, i, recorded[j].ctx)
    <3>1. PICK k \in 1..i : /\ OfThread(T[k]) /\ T[k].id = recorded[j].ctx
                            /\ \A m \in (k + 1)..i : ~OfThread(T[m])
      BY <2>1 DEF ThreadIn
    <3>2. \A m \in (k + 1)..i : m \in 1..i
      OBVIOUS
    <3>3. OfThread(S[k]) /\ S[k].id = recorded[j].ctx /\ \A m \in (k + 1)..i : ~OfThread(S[m])
      BY <2>2, <3>1, <3>2
    <3> QED BY <3>3 DEF ThreadIn
  <2>4. ThreadAt(i) = recorded[j].ctx
    BY <1>2, <1>3, <2>3, ThreadFound
  <2> QED BY <2>1, <2>4 DEF RecordsOf
<1>7. ASSUME NEW i \in DOMAIN S, S[i].kind = "switch"
      PROVE  \E j \in 1..(i - 1) : S[j] = [kind |-> "start", id |-> S[i].id]
  <2>1. PICK j \in 1..(i - 1) : T[j] = [kind |-> "start", id |-> S[i].id]
    BY <1>3, <1>4, <1>5, <1>7 DEF ThreadsIn
  <2>2. j \in 1..Len(S)
    BY <1>2, <1>3
  <2> QED BY <1>5, <2>1, <2>2
<1>8. ASSUME NEW i \in DOMAIN S, NEW j \in DOMAIN S, S[i].kind = "start", S[i] = S[j]
      PROVE  i = j
  BY <1>3, <1>4, <1>5, <1>8 DEF ThreadsIn
<1> QED BY <1>6, <1>7, <1>8

LEMMA InvKept ==
  ASSUME IInv
  PROVE  EventsKept
<1>1. DeliveredOnce /\ OnItsThread
  BY InvDelivered, InvThreads
<1>2. ValuesOwn
  <2>1. ValuesIn(rt.events)
    BY DEF IInv, Tracks, Tells
  <2> QED BY <2>1 DEF ValuesIn, ValuesOwn
<1>3. SpansCover
  <2> DEFINE S == rt.events
             T == Due(rt)
  <2>1. WellFormed(rt) /\ SpansIn(T, rt.spans, recorded)
    BY DEF IInv, Tracks, Tells
  <2>2. /\ S \in Seq(Event) /\ T \in Seq(Event) /\ Extends(S, T) /\ Len(S) \in Nat
    BY <2>1, DueTyped
  <2>3. /\ DOMAIN S = 1..Len(S) /\ DOMAIN T = 1..Len(T) /\ Len(T) \in Nat
    BY <2>2, LenProperties
  <2> HIDE DEF T
  <2> SUFFICES ASSUME NEW s \in DOMAIN rt.spans, rt.spans[s].closed # Unclosed,
                      NEW i \in Own, NEW j \in OfRecord(S[i].id)
               PROVE  i \in (rt.spans[s].opened + 1)..rt.spans[s].closed
                        <=> rt.spans[s].request \in recorded[j].open
    BY DEF SpansCover
  <2>4. i \in OwnIn(T) /\ T[i] = S[i]
    BY <2>2, <2>3 DEF Own, OwnIn, Extends
  <2>5. j \in RecordsOf(recorded, T[i].id)
    BY <2>4 DEF OfRecord, RecordsOf
  <2>6. Inside(rt.spans[s], i) <=> rt.spans[s].request \in recorded[j].open
    BY <2>1, <2>4, <2>5 DEF SpansIn
  <2> QED BY <2>6 DEF Inside
<1> QED BY <1>1, <1>2, <1>3 DEF EventsKept

(* Every reachable state satisfies the inductive invariant: what has come  *)
(* and what still waits tells the history, and the calls under way and the *)
(* requests agree with it.                                                 *)
THEOREM NodeInvariance == Spec => []IInv
<1>1. Init => IInv
  BY InitInv
<1>2. IInv /\ [Next]_vars => IInv'
  BY NextInv
<1> QED BY <1>1, <1>2, PTL DEF Spec

(* The state of the runtime and of the native recorder is well formed: the *)
(* window is never full between two calls, so that push never writes past  *)
(* its end, its attachments are of events in it, and the marks of spans    *)
(* lie within the vector (EventBuffer.push, span_open, span_close).        *)
THEOREM NodeTyped == Spec => []TypeOK
<1>1. IInv => TypeOK
  BY InvTyped
<1> QED BY <1>1, NodeInvariance, PTL

(* The recording is the program's, for every window, every set of contexts *)
(* and requests and whichever batches fail: its events once and in order,  *)
(* each with its own values, on its thread and in the spans of the         *)
(* requests in flight (push, flush, checkContext, append_events,           *)
(* webRequestStart, webRequestStop).                                       *)
THEOREM RecordingKept == Spec => []EventsKept
<1>1. IInv => EventsKept
  BY InvKept
<1> QED BY <1>1, NodeInvariance, PTL
=============================================================================
