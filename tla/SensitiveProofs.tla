---------------------------- MODULE SensitiveProofs ----------------------------
(***************************************************************************)
(* Proofs about SensitiveInput, for every page, set of keys and bound.     *)
(*                                                                         *)
(* Nothing is forgotten (lost) while: a key held at a sensitive field is   *)
(* in flight; the keystroke being dispatched, if it is secret, is the last *)
(* one masked; a field that holds a secret is sensitive, and its value     *)
(* remembered; and a value the page keeps is remembered too.  And the      *)
(* replay's taints are the recorder's, at every field a document lookup    *)
(* finds.                                                                  *)
(***************************************************************************)
EXTENDS SensitiveInput, FiniteSetTheorems, SequenceTheorems, WellFoundedInduction, TLAPS

(* Where an event is seen. *)

LEMMA PageFacts ==
  /\ NoElem \notin Elems
  /\ \A e \in Elems :
       /\ Page[e].host \in Elems \cup {NoElem} /\ Page[e].root \in Modes
       /\ Page[e].host # NoElem =>
            /\ Page[e].host \in Elems /\ Page[Page[e].host].name \in {"div", "body"}
            /\ Page[Page[e].host].root \in {"open", "tracked", "unseen"}
<1>1. NoElem \notin Elems
  BY PageAssumption
<1>2. ASSUME NEW e \in Elems
      PROVE /\ Page[e].host \in Elems \cup {NoElem} /\ Page[e].root \in Modes
            /\ Page[e].host # NoElem =>
                 /\ Page[e].host \in Elems /\ Page[Page[e].host].name \in {"div", "body"}
                 /\ Page[Page[e].host].root \in {"open", "tracked", "unseen"}
  <2>1. \A g \in Elems : Page[g].host \in Elems \cup {NoElem} /\ Page[g].root \in Modes
    BY PageAssumption DEF Facts
  <2>2. Page[e].host # NoElem => Page[e].host \in Elems
    BY <2>1
  <2> QED BY <2>1, <2>2, PageAssumption DEF Modes
<1> QED BY <1>1, <1>2

LEMMA Located ==
  ASSUME NEW type, NEW e \in Elems
  PROVE  /\ eventField(type, e) \in Elems /\ Target(e) \in Elems
         /\ Plain(e) => eventField(type, e) = e /\ Target(e) = e
         /\ isTextEvent(type) /\ ~Unseen(e) => eventField(type, e) = e
         /\ Unseen(e) => eventField(type, e) = Page[e].host
         /\ Field(eventField(type, e)) => eventField(type, e) = e /\ ~Unseen(e)
         /\ Field(Target(e)) => Plain(e)
<1>1. CASE Page[e].host = NoElem
  BY <1>1, PageFacts DEF eventField, Target, Plain, Unseen
<1>2. CASE Page[e].host # NoElem
  <2>1. /\ Page[e].host \in Elems /\ ~Field(Page[e].host)
        /\ Page[Page[e].host].root \in {"open", "tracked", "unseen"}
    BY <1>2, PageFacts DEF Field
  <2>2. \/ Page[Page[e].host].root = "unseen" /\ eventField(type, e) = Page[e].host
        \/ /\ Page[Page[e].host].root # "unseen"
           /\ \/ eventField(type, e) = e
              \/ eventField(type, e) = Page[e].host /\ ~isTextEvent(type)
    BY <1>2, <2>1 DEF eventField
  <2> QED BY <1>2, <2>1, <2>2 DEF Target, Plain, Unseen
<1> QED BY <1>1, <1>2

LEMMA Controls == \A e \in Elems : Control(e) => Field(e)
  BY DEF Control, Field
-----------------------------------------------------------------------------
(* The keys in flight. *)

KeyList(keys) ==
  /\ keys \in Seq(TextKeys) /\ Len(keys) <= MaxKeysInFlight
  /\ \A i, j \in DOMAIN keys : i # j => keys[i] # keys[j]

LEMMA WithoutKey ==
  ASSUME NEW keys, KeyList(keys), NEW k
  PROVE  /\ KeyList(Without(keys, k))
         /\ \A x : x \in ToSet(Without(keys, k)) <=> x \in ToSet(keys) /\ x # k
<1> DEFINE at == {i \in DOMAIN keys : keys[i] = k}
           n == Len(keys)
<1>0. n \in Nat /\ DOMAIN keys = 1..n /\ keys \in Seq(TextKeys)
  BY DEF KeyList
<1>1. CASE at = {}
  BY <1>1 DEF Without, ToSet
<1>2. CASE at # {}
  <2> DEFINE c == CHOOSE i \in at : TRUE
             rest == SubSeq(keys, 1, c - 1) \o SubSeq(keys, c + 1, n)
  <2>1. c \in 1..n /\ keys[c] = k
    BY <1>0, <1>2
  <2>2. Without(keys, k) = rest
    BY <1>2 DEF Without, RemoveAt
  <2> HIDE DEF c, at
  <2>3. /\ rest \in Seq(TextKeys) /\ Len(rest) = n - 1
        /\ \A i \in 1..(n - 1) : rest[i] = IF i < c THEN keys[i] ELSE keys[i + 1]
    <3> DEFINE a == SubSeq(keys, 1, c - 1)
               b == SubSeq(keys, c + 1, n)
    <3> HIDE DEF n
    <3>1. \A i \in 1..n : keys[i] \in TextKeys
      BY <1>0
    <3>2. /\ a \in Seq(TextKeys) /\ Len(a) = c - 1
          /\ \A i \in 1..(c - 1) : a[i] = keys[i]
      <4>1. 1 \in Int /\ c - 1 \in Int /\ \A i \in 1..(c - 1) : keys[i] \in TextKeys
        BY <1>0, <2>1, <3>1
      <4>2. /\ a \in Seq(TextKeys) /\ Len(a) = IF 1 <= c - 1 THEN (c - 1) - 1 + 1 ELSE 0
            /\ \A i \in 1..((c - 1) - 1 + 1) : a[i] = keys[1 + i - 1]
        BY <4>1, SubSeqProperties
      <4> HIDE DEF a
      <4> QED BY <4>2, <1>0, <2>1
    <3>3. /\ b \in Seq(TextKeys) /\ Len(b) = n - c
          /\ \A i \in 1..(n - c) : b[i] = keys[c + i]
      <4>1. c + 1 \in Int /\ n \in Int /\ \A i \in (c + 1)..n : keys[i] \in TextKeys
        BY <1>0, <2>1, <3>1
      <4>2. /\ b \in Seq(TextKeys) /\ Len(b) = IF c + 1 <= n THEN n - (c + 1) + 1 ELSE 0
            /\ \A i \in 1..(n - (c + 1) + 1) : b[i] = keys[(c + 1) + i - 1]
        BY <4>1, SubSeqProperties
      <4> HIDE DEF b
      <4>3. \A i \in 1..(n - c) : (c + 1) + i - 1 = c + i
        BY <1>0, <2>1
      <4>4. n - (c + 1) + 1 = n - c
        BY <1>0, <2>1
      <4> QED BY <4>2, <4>3, <4>4, <1>0, <2>1
    <3> HIDE DEF a, b
    <3>4. /\ a \o b \in Seq(TextKeys) /\ Len(a \o b) = Len(a) + Len(b)
          /\ \A i \in 1..(Len(a) + Len(b)) : (a \o b)[i] = IF i <= Len(a) THEN a[i] ELSE b[i - Len(a)]
      BY <3>2, <3>3, ConcatProperties
    <3>5. rest = a \o b
      BY DEF a, b
    <3>6. ASSUME NEW i \in 1..(n - 1)
          PROVE  (a \o b)[i] = IF i < c THEN keys[i] ELSE keys[i + 1]
      <4>1. CASE i < c
        BY <4>1, <3>2, <3>3, <3>4, <1>0, <2>1
      <4>2. CASE i >= c
        <5>1. i - Len(a) \in 1..(n - c) /\ c + (i - Len(a)) = i + 1 /\ ~(i <= Len(a))
              /\ i \in 1..(Len(a) + Len(b))
          BY <4>2, <3>2, <3>3, <1>0, <2>1
        <5>2. (a \o b)[i] = b[i - Len(a)] /\ b[i - Len(a)] = keys[c + (i - Len(a))]
          BY <5>1, <3>3, <3>4
        <5> QED BY <5>1, <5>2, <4>2, <1>0, <2>1
      <4>3. i < c \/ i >= c
        BY <1>0, <2>1
      <4> QED BY <4>1, <4>2, <4>3, Zenon
    <3>7. Len(a \o b) = n - 1
      BY <3>2, <3>3, <3>4, <1>0, <2>1
    <3> QED BY <3>4, <3>5, <3>6, <3>7, Zenon
  <2> HIDE DEF rest
  <2>4. \A i, j \in 1..n : i # j => keys[i] # keys[j]
    BY <1>0 DEF KeyList
  <2>5. KeyList(rest)
    <3>1. Len(rest) <= MaxKeysInFlight /\ DOMAIN rest = 1..(n - 1)
      BY <2>3, <1>0, SizesAssumption DEF KeyList
    <3> HIDE DEF n
    <3>2. \A i, j \in 1..(n - 1) : i # j => rest[i] # rest[j]
      BY <2>3, <2>4, <2>1, <1>0
    <3> QED BY <2>3, <3>1, <3>2 DEF KeyList
  <2>6. ASSUME NEW x PROVE x \in ToSet(rest) <=> x \in ToSet(keys) /\ x # k
    <3> HIDE DEF n
    <3>1. DOMAIN rest = 1..(n - 1) /\ DOMAIN keys = 1..n
      BY <2>3, <1>0
    <3>2. ASSUME NEW i \in 1..(n - 1) PROVE rest[i] \in ToSet(keys) /\ rest[i] # k
      <4>1. PICK j \in 1..n : j # c /\ rest[i] = keys[j]
        <5>1. i \in 1..n /\ i + 1 \in 1..n
          BY <1>0
        <5> QED BY <5>1, <2>3, <2>1
      <4> QED BY <4>1, <2>4, <2>1, <1>0 DEF ToSet
    <3>3. ASSUME NEW i \in 1..n, keys[i] # k PROVE \E j \in 1..(n - 1) : rest[j] = keys[i]
      <4>1. CASE i < c
        <5>1. i \in 1..(n - 1)
          BY <4>1, <2>1, <1>0
        <5>2. rest[i] = keys[i]
          BY <4>1, <5>1, <2>3
        <5> QED BY <5>1, <5>2, Zenon
      <4>2. CASE i > c
        <5>1. i - 1 \in 1..(n - 1) /\ ~(i - 1 < c) /\ (i - 1) + 1 = i
          BY <4>2, <2>1, <1>0
        <5> QED BY <5>1, <2>3
      <4> QED BY <4>1, <4>2, <3>3, <2>1, <1>0
    <3> QED BY <3>1, <3>2, <3>3 DEF ToSet
  <2> QED BY <2>2, <2>5, <2>6
<1> QED BY <1>1, <1>2

LEMMA KeysKept ==
  ASSUME NEW type, NEW k, NEW masked, KeyList(keysInFlight)
  PROVE  /\ KeyList(KeysAfter(type, k, masked))
         /\ type = "keydown" /\ masked /\ k \in TextKeys =>
              k \in ToSet(KeysAfter(type, k, masked))
         /\ ToSet(KeysAfter(type, k, masked)) \subseteq ToSet(keysInFlight) \cup TextKeys
<1> DEFINE rest == Without(keysInFlight, k)
           after == KeysAfter(type, k, masked)
<1>0. KeyList(rest) /\ \A x : x \in ToSet(rest) <=> x \in ToSet(keysInFlight) /\ x # k
  BY WithoutKey
<1>1. CASE type = "keydown" /\ masked /\ k \in TextKeys
  <2> DEFINE all == Append(rest, k)
  <2>1. after = IF Len(all) > MaxKeysInFlight THEN Tail(all) ELSE all
    BY <1>1 DEF KeysAfter
  <2> HIDE DEF after, rest
  <2>2. /\ all \in Seq(TextKeys) /\ Len(all) = Len(rest) + 1 /\ Len(rest) \in Nat
        /\ \A i \in 1..Len(rest) : all[i] = rest[i]
        /\ all[Len(rest) + 1] = k
    BY <1>0, <1>1 DEF KeyList
  <2>3. \A i, j \in 1..Len(all) : i # j => all[i] # all[j]
    <3>1. \A i \in 1..Len(rest) : rest[i] # k
      BY <1>0 DEF ToSet, KeyList
    <3>2. \A i, j \in 1..Len(rest) : i # j => rest[i] # rest[j]
      BY <1>0 DEF KeyList
    <3> HIDE DEF all
    <3> QED BY <3>1, <3>2, <2>2
  <2> HIDE DEF all
  <2>4. CASE Len(all) > MaxKeysInFlight
    <3>1. /\ Tail(all) \in Seq(TextKeys) /\ Len(Tail(all)) = Len(rest)
          /\ \A i \in 1..Len(rest) : Tail(all)[i] = all[i + 1]
      BY <2>2
    <3>2. Len(rest) <= MaxKeysInFlight /\ Len(rest) >= 1
      BY <1>0, <2>2, <2>4, SizesAssumption DEF KeyList
    <3>3. DOMAIN Tail(all) = 1..Len(rest)
      BY <3>1
    <3>4. \A i, j \in 1..Len(rest) : i # j => Tail(all)[i] # Tail(all)[j]
      BY <3>1, <2>2, <2>3
    <3>5. KeyList(Tail(all))
      BY <3>1, <3>2, <3>3, <3>4 DEF KeyList
    <3>6. Tail(all)[Len(rest)] = k /\ Len(rest) \in 1..Len(rest)
      BY <3>1, <3>2, <2>2
    <3>7. k \in ToSet(Tail(all)) /\ ToSet(Tail(all)) \subseteq TextKeys
      BY <3>6, <3>3, <3>1 DEF ToSet
    <3> QED BY <2>1, <2>4, <3>5, <3>7 DEF after
  <2>5. CASE ~(Len(all) > MaxKeysInFlight)
    <3>1. DOMAIN all = 1..Len(all) /\ Len(all) \in 1..Len(all)
      BY <2>2
    <3>2. KeyList(all)
      BY <2>2, <2>3, <2>5, <3>1, SizesAssumption DEF KeyList
    <3>3. k \in ToSet(all) /\ ToSet(all) \subseteq TextKeys
      BY <3>1, <2>2 DEF ToSet
    <3> QED BY <2>1, <2>5, <3>2, <3>3 DEF after
  <2> QED BY <2>4, <2>5
<1>2. CASE type = "keydown" /\ ~(masked /\ k \in TextKeys)
  <2>1. after = IF Len(rest) > MaxKeysInFlight THEN Tail(rest) ELSE rest
    BY <1>2 DEF KeysAfter
  <2>2. Len(rest) <= MaxKeysInFlight /\ Len(rest) \in Nat
    BY <1>0 DEF KeyList
  <2>3. after = rest
    BY <2>1, <2>2, SizesAssumption
  <2> HIDE DEF after, rest
  <2> QED BY <2>3, <1>0, <1>2 DEF after
<1>3. CASE type # "keydown"
  <2>1. after = rest \/ after = keysInFlight
    BY <1>3 DEF KeysAfter
  <2> HIDE DEF after, rest
  <2> QED BY <2>1, <1>0, <1>3 DEF after
<1> QED BY <1>1, <1>2, <1>3
-----------------------------------------------------------------------------
(* The values remembered. *)

LEMMA NatMin ==
  ASSUME NEW T \in SUBSET Nat, T # {}
  PROVE  \E x \in T : \A y \in T : x <= y
<1> DEFINE R == {p \in Nat \X Nat : p[1] < p[2]}
<1>1. IsWellFoundedOn(R, Nat)
  BY NatLessThanWellFounded DEF OpToRel
<1> HIDE DEF R
<1>2. PICK x \in T : \A y \in T : ~(<<y, x>> \in R)
  BY <1>1, WFMin
<1>3. \A y \in T : y < x => <<y, x>> \in R
  BY DEF R
<1>4. ASSUME NEW y \in T PROVE x <= y
  <2>1. ~(y < x)
    BY <1>2, <1>3
  <2> QED BY <2>1
<1> QED BY <1>4

Kept(had) ==
  /\ had \subseteq Elems \X (0..MaxLength) /\ IsFiniteSet(had)
  /\ Cardinality(had) <= MaxRemembered

LEMMA Longest ==
  ASSUME NEW had, had \subseteq Elems \X (0..MaxLength), had # {}
  PROVE  \E v \in had : \A u \in had : u[2] <= v[2]
<1> DEFINE T == {MaxLength - v[2] : v \in had}
<1>1. \A v \in had : v[2] \in 0..MaxLength
  OBVIOUS
<1>2. T \in SUBSET Nat /\ T # {}
  BY <1>1, SizesAssumption
<1>3. PICK x \in T : \A y \in T : x <= y
  BY <1>2, NatMin
<1>4. PICK v \in had : x = MaxLength - v[2]
  BY <1>3
<1>5. ASSUME NEW u \in had PROVE u[2] <= v[2]
  <2>1. MaxLength - v[2] <= MaxLength - u[2]
    BY <1>3, <1>4
  <2> QED BY <2>1, <1>1, SizesAssumption
<1> QED BY <1>4, <1>5

LEMMA Remembered ==
  ASSUME NEW e \in Elems, NEW n \in 0..MaxLength, NEW had, Kept(had)
  PROVE  /\ Kept(rememberSensitive(e, n, had))
         /\ n >= MinHoled => <<e, n>> \in rememberSensitive(e, n, had)
<1> DEFINE after == rememberSensitive(e, n, had)
<1>0. <<e, n>> \in Elems \X (0..MaxLength)
  OBVIOUS
<1>1. CASE n < MinHoled \/ <<e, n>> \in had
  BY <1>1, SizesAssumption DEF rememberSensitive, Kept
<1>2. CASE ~(n < MinHoled \/ <<e, n>> \in had) /\ Cardinality(had) < MaxRemembered
  <2>1. after = had \cup {<<e, n>>}
    BY <1>2 DEF rememberSensitive
  <2>2. IsFiniteSet(had) /\ Cardinality(had) \in Nat
    BY FS_CardinalityType DEF Kept
  <2>3. IsFiniteSet(after) /\ Cardinality(after) = Cardinality(had) + 1
    <3> HIDE DEF after
    <3>1. <<e, n>> \notin had
      BY <1>2
    <3>2. /\ IsFiniteSet(had \cup {<<e, n>>})
          /\ Cardinality(had \cup {<<e, n>>}) = Cardinality(had) + 1
      BY <2>2, <3>1, FS_AddElement
    <3> QED BY <2>1, <3>2
  <2> HIDE DEF after
  <2> QED BY <2>1, <2>2, <2>3, <1>0, <1>2, SizesAssumption DEF Kept, after
<1>3. CASE ~(n < MinHoled \/ <<e, n>> \in had) /\ ~(Cardinality(had) < MaxRemembered)
  <2> DEFINE longest == CHOOSE v \in had : \A u \in had : u[2] <= v[2]
             rest == had \ {longest}
  <2>1. after = rest \cup {<<e, n>>}
    BY <1>3 DEF rememberSensitive
  <2>2. IsFiniteSet(had) /\ Cardinality(had) \in Nat /\ had \subseteq Elems \X (0..MaxLength)
        /\ Cardinality(had) <= MaxRemembered
    BY FS_CardinalityType DEF Kept
  <2>3. had # {}
    BY <2>2, <1>3, FS_EmptySet, SizesAssumption
  <2>4. longest \in had
    BY <2>2, <2>3, Longest
  <2> HIDE DEF longest
  <2>5. IsFiniteSet(rest) /\ Cardinality(rest) = Cardinality(had) - 1
    BY <2>2, <2>4, FS_RemoveElement
  <2>6. <<e, n>> \notin rest
    BY <1>3
  <2> HIDE DEF rest
  <2>7. IsFiniteSet(after) /\ Cardinality(after) = Cardinality(rest) + 1
    BY <2>1, <2>5, <2>6, FS_AddElement
  <2>8. rest \subseteq had
    BY DEF rest
  <2> HIDE DEF after
  <2>9. Kept(after) /\ <<e, n>> \in after
    BY <2>1, <2>2, <2>5, <2>7, <2>8, <1>0 DEF Kept
  <2> QED BY <2>9 DEF after
<1> QED BY <1>1, <1>2, <1>3
-----------------------------------------------------------------------------
(* The records of an event. *)

LEMMA Joined ==
  ASSUME NEW S, NEW a \in Seq(S), NEW b \in Seq(S)
  PROVE  a \o b \in Seq(S) /\ ToSet(a \o b) = ToSet(a) \cup ToSet(b)
<1>1. /\ a \o b \in Seq(S) /\ Len(a \o b) = Len(a) + Len(b)
      /\ \A i \in 1..(Len(a) + Len(b)) : (a \o b)[i] = IF i <= Len(a) THEN a[i] ELSE b[i - Len(a)]
  BY ConcatProperties
<1> DEFINE c == a \o b
<1>2. /\ c \in Seq(S) /\ Len(c) = Len(a) + Len(b)
      /\ DOMAIN c = 1..(Len(a) + Len(b)) /\ DOMAIN a = 1..Len(a) /\ DOMAIN b = 1..Len(b)
      /\ Len(a) \in Nat /\ Len(b) \in Nat
      /\ \A i \in 1..(Len(a) + Len(b)) : c[i] = IF i <= Len(a) THEN a[i] ELSE b[i - Len(a)]
  BY <1>1
<1> HIDE DEF c
<1>3. ASSUME NEW i \in DOMAIN c PROVE c[i] \in ToSet(a) \cup ToSet(b)
  <2>1. CASE i <= Len(a)
    <3>1. i \in DOMAIN a /\ c[i] = a[i]
      BY <1>2, <2>1
    <3> QED BY <3>1 DEF ToSet
  <2>2. CASE ~(i <= Len(a))
    <3>1. i - Len(a) \in DOMAIN b /\ c[i] = b[i - Len(a)]
      BY <1>2, <2>2
    <3> QED BY <3>1 DEF ToSet
  <2> QED BY <2>1, <2>2
<1>4. ASSUME NEW i \in DOMAIN a PROVE a[i] \in ToSet(c)
  BY <1>2 DEF ToSet
<1>5. ASSUME NEW i \in DOMAIN b PROVE b[i] \in ToSet(c)
  <2>1. Len(a) + i \in 1..(Len(a) + Len(b)) /\ ~(Len(a) + i <= Len(a)) /\ (Len(a) + i) - Len(a) = i
    BY <1>2
  <2>2. c[Len(a) + i] = b[i]
    BY <2>1, <1>2
  <2> QED BY <2>1, <2>2, <1>2 DEF ToSet
<1>6. ToSet(c) = ToSet(a) \cup ToSet(b)
  BY <1>3, <1>4, <1>5 DEF ToSet
<1> QED BY <1>2, <1>6 DEF c

LEMMA Singles ==
  /\ \A S : << >> \in Seq(S) /\ ToSet(<< >>) = {}
  /\ \A S : \A s \in S : <<s>> \in Seq(S) /\ ToSet(<<s>>) = {s}
  BY DEF ToSet

LEMMA Appended ==
  ASSUME NEW S, NEW a \in Seq(S), NEW s
  PROVE  /\ ToSet(Append(a, s)) = ToSet(a) \cup {s}
         /\ Append(a, s) # << >> /\ Append(a, s)[Len(Append(a, s))] = s
<1> DEFINE b == Append(a, s)
<1>1. /\ Len(b) = Len(a) + 1 /\ DOMAIN b = 1..(Len(a) + 1) /\ DOMAIN a = 1..Len(a)
      /\ Len(a) \in Nat /\ b[Len(a) + 1] = s
      /\ \A i \in 1..Len(a) : b[i] = a[i]
  OBVIOUS
<1> HIDE DEF b
<1>2. b # << >>
  BY <1>1
<1>3. ToSet(b) = ToSet(a) \cup {s}
  <2>1. ASSUME NEW i \in DOMAIN b PROVE b[i] \in ToSet(a) \cup {s}
    BY <1>1 DEF ToSet
  <2>2. ASSUME NEW i \in DOMAIN a PROVE a[i] \in ToSet(b)
    BY <1>1 DEF ToSet
  <2>3. s \in ToSet(b)
    BY <1>1 DEF ToSet
  <2> QED BY <2>1, <2>2, <2>3 DEF ToSet
<1>4. b[Len(b)] = s
  BY <1>1
<1> QED BY <1>2, <1>3, <1>4 DEF b

Scrub(type, e, sensitive, taints) ==
  LET f == eventField(type, e)
  IN sensitive /\ Field(f) /\ ScrubsText(type, f, taints)

Said(type, e, sensitive, taints, n, holding) ==
  (IF Scrub(type, e, sensitive, taints) THEN {Scrubbed(eventField(type, e), n)} ELSE {})
  \cup (IF ~domEffects(type, e) THEN {}
        ELSE IF sensitive THEN {Scrubbed(Target(e), n)}
        ELSE {DomEffect(Target(e), n, holding)})

LEMMA WrittenIsSaid ==
  ASSUME NEW type, NEW e, NEW sensitive, NEW taints, NEW n, NEW holding
  PROVE  LET W == Written(type, e, sensitive, taints, n, holding)
         IN /\ ToSet(W) = Said(type, e, sensitive, taints, n, holding)
            /\ \E S : W \in Seq(S)
<1> DEFINE f == eventField(type, e)
           s == Scrubbed(f, n)
           t == IF sensitive THEN Scrubbed(Target(e), n) ELSE DomEffect(Target(e), n, holding)
           a == IF Scrub(type, e, sensitive, taints) THEN <<s>> ELSE << >>
           b == IF ~domEffects(type, e) THEN << >> ELSE <<t>>
           S == {s, t}
<1>1. Written(type, e, sensitive, taints, n, holding) = a \o b
  <2>1. a = IF sensitive /\ Field(f) /\ ScrubsText(type, f, taints) THEN <<Scrubbed(f, n)>> ELSE << >>
    BY DEF Scrub
  <2>2. b = IF ~domEffects(type, e) THEN << >>
            ELSE IF sensitive THEN <<Scrubbed(Target(e), n)>>
            ELSE <<DomEffect(Target(e), n, holding)>>
    OBVIOUS
  <2> HIDE DEF a, b
  <2> QED BY <2>1, <2>2, Zenon DEF Written
<1>2. Said(type, e, sensitive, taints, n, holding) =
        (IF Scrub(type, e, sensitive, taints) THEN {s} ELSE {})
        \cup (IF ~domEffects(type, e) THEN {} ELSE {t})
  BY DEF Said
<1> HIDE DEF s, t
<1>3. a \in Seq(S) /\ ToSet(a) = IF Scrub(type, e, sensitive, taints) THEN {s} ELSE {}
  BY Singles
<1>4. b \in Seq(S) /\ ToSet(b) = IF ~domEffects(type, e) THEN {} ELSE {t}
  BY Singles
<1> HIDE DEF a, b, S
<1>5. a \o b \in Seq(S) /\ ToSet(a \o b) = ToSet(a) \cup ToSet(b)
  BY <1>3, <1>4, Joined
<1>6. ToSet(a \o b) = Said(type, e, sensitive, taints, n, holding)
  BY <1>2, <1>3, <1>4, <1>5
<1> QED BY <1>1, <1>5, <1>6
LEMMA AppliedTo ==
  ASSUME NEW W, \E S : W \in Seq(S), \A r \in ToSet(W) : r.record # "Input", Applied(W)
  PROVE  /\ replay' \in {replay, "failed"}
         /\ replay' = "running" =>
              /\ replay = "running"
              /\ \A r \in ToSet(W) : resolveTarget(r.target) # NoElem
              /\ \A f : f \in rTainted' <=>
                   \/ f \in rTainted
                   \/ ~isSensitive(f, rTainted)
                      /\ \E r \in ToSet(W) : r.record = "Scrubbed" /\ r.target = f
              /\ \A f \in Elems : (\E r \in ToSet(W) : r.target = f) =>
                   \E r \in ToSet(W) : r.target = f /\ rLength'[f] = r.n
<1>1. Effects(W) = DOMAIN W
  BY DEF Effects, ToSet
<1>2. CASE replay # "running"
  BY <1>2 DEF Applied, replayed
<1>3. CASE replay = "running" /\ \E i \in Effects(W) : resolveTarget(W[i].target) = NoElem
  BY <1>3 DEF Applied
<1>4. CASE replay = "running" /\ ~\E i \in Effects(W) : resolveTarget(W[i].target) = NoElem
  <2> DEFINE scrubbed == {W[i].target : i \in {i \in DOMAIN W : W[i].record = "Scrubbed"}}
  <2>1. /\ replay' = replay
        /\ rTainted' = rTainted \cup {f \in scrubbed : ~isSensitive(f, rTainted)}
        /\ rLength' = [f \in Elems |->
               IF \E i \in DOMAIN W : W[i].target = f
               THEN (CHOOSE r \in {W[i] : i \in DOMAIN W} : r.target = f).n
               ELSE rLength[f]]
    BY <1>1, <1>4 DEF Applied
  <2>2. \A r \in ToSet(W) : resolveTarget(r.target) # NoElem
    BY <1>1, <1>4 DEF ToSet
  <2>3. \A f : f \in scrubbed <=> \E r \in ToSet(W) : r.record = "Scrubbed" /\ r.target = f
    BY DEF ToSet
  <2> HIDE DEF scrubbed
  <2>4. ASSUME NEW f \in Elems, \E r \in ToSet(W) : r.target = f
        PROVE  \E r \in ToSet(W) : r.target = f /\ rLength'[f] = r.n
    <3>1. \E i \in DOMAIN W : W[i].target = f
      BY <2>4 DEF ToSet
    <3> DEFINE q == CHOOSE r \in ToSet(W) : r.target = f
    <3>2. q \in ToSet(W) /\ q.target = f
      BY <2>4
    <3>3. rLength'[f] = q.n
      BY <2>1, <3>1 DEF ToSet
    <3> HIDE DEF q
    <3> QED BY <3>2, <3>3
  <2> QED BY <1>4, <2>1, <2>2, <2>3, <2>4
<1> QED BY <1>2, <1>3, <1>4
-----------------------------------------------------------------------------
(* The invariant. *)

Typed ==
  /\ focus \in Elems
  /\ down \in [Keys -> {"up", "clear"} \cup Elems]
  /\ stroke = NoStroke
     \/ stroke \in [key : TextKeys, next : {"keypress", "beforeinput", "input"}]
  /\ length \in [Elems -> 0..MaxLength] /\ holds \in [Elems -> BOOLEAN]
  /\ marks \in [Elems -> {"none", "public", "sensitive"}]
  /\ KeyList(keysInFlight) /\ lastMasked \in TextKeys \cup {NoKey}
  /\ Kept(remembered) /\ tainted \subseteq Elems
  /\ captured = NoValue \/ captured \in Elems \X (0..MaxLength)
  /\ replay \in {"running", "failed"}

(* A field that is not in the shim's sight is never tainted. *)
TaintsSeen == \A e \in tainted : ~Unseen(e)

(* The replay's taints are the recorder's.                                 *)
TaintedAlike ==
  replay = "running" =>
    \A e \in Elems : Plain(e) => (e \in tainted <=> e \in rTainted)

(* A key whose character is a secret is in flight.                         *)
SecretsInFlight ==
  \A k \in Keys : Secret(k) => k \in TextKeys /\ k \in ToSet(keysInFlight)
(* The keystroke being dispatched is the last masked, if it is secret.     *)
StrokeMasked == stroke # NoStroke /\ Secret(stroke.key) => lastMasked = stroke.key
(* A field the shim sees and that holds a secret is sensitive, and its     *)
(* value is remembered.                                                    *)
SecretsRemembered ==
  \A e \in Elems : holds[e] /\ ~Unseen(e) =>
    /\ Field(e) /\ isSensitive(e, tainted)
    /\ length[e] >= MinHoled => <<e, length[e]>> \in remembered
(* What the page has kept is holed, or is one of the exceptions.           *)
CapturedHoled ==
  captured # NoValue =>
    \/ captured \in remembered
    \/ captured[2] < MinHoled
    \/ Untold(captured[1])

Withheld == SecretsInFlight /\ StrokeMasked /\ SecretsRemembered /\ CapturedHoled

IInv ==
  /\ Typed /\ TaintsSeen /\ TaintedAlike
  /\ lost \/ Withheld
  /\ NoSecretInClear /\ MasksAlike
-----------------------------------------------------------------------------
(* recordInput, part by part. *)

MaskedFirst(type, e, k, repeat) == keystrokeMasked(type, k, EventSensitive(type, e), repeat)
Taints(type, e, k, repeat) ==
  keystrokeTaints(type, eventField(type, e), EventSensitive(type, e),
                  MaskedFirst(type, e, k, repeat))
Sensitive(type, e, k, repeat) == EventSensitive(type, e) \/ Taints(type, e, k, repeat)
Masked(type, e, k, repeat) == MaskedFirst(type, e, k, repeat) \/ Taints(type, e, k, repeat)

Told(type, e, k, repeat, n, holding) ==
  Said(type, e, Sensitive(type, e, k, repeat), Taints(type, e, k, repeat), n, holding)

LEMMA Recording ==
  ASSUME NEW type, NEW e, NEW k, NEW repeat, NEW n, NEW holding, NEW char,
         recordInput(type, e, k, repeat, n, holding, char)
  PROVE  /\ keysInFlight' = KeysAfter(type, k, MaskedFirst(type, e, k, repeat))
         /\ lastMasked' = LastAfter(type, k, MaskedFirst(type, e, k, repeat))
         /\ tainted' = IF Taints(type, e, k, repeat) THEN tainted \cup {eventField(type, e)}
                       ELSE tainted
         /\ remembered' =
              IF Sensitive(type, e, k, repeat) /\ Field(eventField(type, e))
              THEN rememberSensitive(eventField(type, e), n, remembered) ELSE remembered
         /\ ~lost' => /\ ~lost /\ remembered \subseteq remembered'
                      /\ ToSet(Without(keysInFlight, k)) \subseteq ToSet(keysInFlight')
         /\ \E W : /\ \E S : W \in Seq(S)
                   /\ ToSet(W) = Told(type, e, k, repeat, n, holding)
                   /\ Applied(W)
                   /\ wrote' = Append(W, Input(type, Target(e), char, Masked(type, e, k, repeat)))
<1> DEFINE f == eventField(type, e)
           W == Written(type, e, Sensitive(type, e, k, repeat), Taints(type, e, k, repeat),
                        n, holding)
<1>1. /\ keysInFlight' = KeysAfter(type, k, MaskedFirst(type, e, k, repeat))
      /\ lastMasked' = LastAfter(type, k, MaskedFirst(type, e, k, repeat))
  BY Zenon DEF recordInput, MaskedFirst
<1>2. /\ tainted' = IF Taints(type, e, k, repeat) THEN tainted \cup {f} ELSE tainted
      /\ remembered' = IF Sensitive(type, e, k, repeat) /\ Field(f)
                       THEN rememberSensitive(f, n, remembered) ELSE remembered
  BY Zenon DEF recordInput, MaskedFirst, Taints, Sensitive
<1>3. ~lost' => /\ ~lost /\ remembered \subseteq remembered'
                /\ ToSet(Without(keysInFlight, k)) \subseteq ToSet(keysInFlight')
  BY DEF recordInput
<1>4. /\ Applied(W)
      /\ wrote' = Append(W, Input(type, Target(e), char, Masked(type, e, k, repeat)))
  BY Zenon DEF recordInput, MaskedFirst, Taints, Sensitive, Masked
<1>5. ToSet(W) = Told(type, e, k, repeat, n, holding) /\ \E S : W \in Seq(S)
  BY WrittenIsSaid DEF Told
<1> HIDE DEF W
<1> QED BY <1>1, <1>2, <1>3, <1>4, <1>5, Zenon
LEMMA Tainting ==
  ASSUME NEW type, NEW e \in Elems, NEW k, NEW repeat
  PROVE  /\ Taints(type, e, k, repeat) =>
              /\ ~EventSensitive(type, e) /\ isTextEvent(type)
              /\ eventField(type, e) = e /\ Field(e) /\ ~Unseen(e)
         /\ EventSensitive(type, e) /\ Field(eventField(type, e)) =>
              /\ isSensitive(eventField(type, e), tainted)
              /\ eventField(type, e) = e /\ Field(e) /\ ~Unseen(e)
<1>1. /\ Field(eventField(type, e)) => eventField(type, e) = e /\ ~Unseen(e)
  BY Located
<1>2. Taints(type, e, k, repeat) =>
        ~EventSensitive(type, e) /\ Field(eventField(type, e)) /\ isTextEvent(type)
  BY DEF Taints, keystrokeTaints, isTextEvent
<1>3. EventSensitive(type, e) /\ Field(eventField(type, e)) => isSensitive(eventField(type, e), tainted)
  BY DEF EventSensitive, textEventMaskedAt
<1> QED BY <1>1, <1>2, <1>3

LEMMA MoreTaints ==
  ASSUME NEW S, NEW T, S \subseteq T, NEW e, isSensitive(e, S)
  PROVE  isSensitive(e, T)
  BY DEF isSensitive

LEMMA RecordedTypes ==
  ASSUME Typed, NEW type, NEW e \in Elems, NEW k, NEW repeat, NEW n \in 0..MaxLength,
         NEW holding, NEW char, recordInput(type, e, k, repeat, n, holding, char)
  PROVE  /\ KeyList(keysInFlight') /\ lastMasked' \in TextKeys \cup {NoKey}
         /\ Kept(remembered') /\ tainted' \subseteq Elems
         /\ replay' \in {"running", "failed"}
<1>1. KeyList(keysInFlight')
  BY Recording, KeysKept DEF Typed
<1>2. lastMasked' \in TextKeys \cup {NoKey}
  BY Recording DEF Typed, LastAfter
<1>3. eventField(type, e) \in Elems
  BY Located
<1>4. Kept(remembered') /\ tainted' \subseteq Elems
  <2>1. /\ tainted' = IF Taints(type, e, k, repeat) THEN tainted \cup {eventField(type, e)}
                      ELSE tainted
        /\ remembered' =
             IF Sensitive(type, e, k, repeat) /\ Field(eventField(type, e))
             THEN rememberSensitive(eventField(type, e), n, remembered) ELSE remembered
    BY Recording
  <2>2. Kept(rememberSensitive(eventField(type, e), n, remembered)) /\ Kept(remembered)
    BY <1>3, Remembered DEF Typed
  <2> QED BY <2>1, <2>2, <1>3 DEF Typed
<1>5. replay' \in {"running", "failed"}
  <2>1. PICK W : /\ \E S : W \in Seq(S)
                 /\ ToSet(W) = Told(type, e, k, repeat, n, holding)
                 /\ Applied(W)
    BY Recording
  <2>2. \A r \in ToSet(W) : r.record # "Input"
    BY <2>1 DEF Told, Said, Scrubbed, DomEffect
  <2> QED BY <2>1, <2>2, AppliedTo DEF Typed
<1> QED BY <1>1, <1>2, <1>4, <1>5

LEMMA RecordedTaints ==
  ASSUME Typed, TaintsSeen, NEW type, NEW e \in Elems, NEW k, NEW repeat, NEW n, NEW holding,
         NEW char, recordInput(type, e, k, repeat, n, holding, char)
  PROVE  tainted \subseteq tainted' /\ TaintsSeen'
<1>1. tainted' = IF Taints(type, e, k, repeat) THEN tainted \cup {eventField(type, e)} ELSE tainted
  BY Recording
<1> QED BY <1>1, Tainting DEF TaintsSeen, Unseen

(* The event's field, when it is held for sensitive, is tainted or was     *)
(* sensitive before.                                                       *)
LEMMA SensitiveAfter ==
  ASSUME NEW type, NEW e \in Elems, NEW k, NEW repeat, NEW n, NEW holding,
         NEW char, recordInput(type, e, k, repeat, n, holding, char),
         Sensitive(type, e, k, repeat), Field(eventField(type, e))
  PROVE  isSensitive(e, tainted') /\ eventField(type, e) = e
<1>1. CASE EventSensitive(type, e)
  <2>1. tainted \subseteq tainted'
    BY Recording
  <2> QED BY <1>1, <2>1, Tainting, MoreTaints
<1>2. CASE Taints(type, e, k, repeat)
  <2>1. e \in tainted' /\ eventField(type, e) = e
    BY <1>2, Recording, Tainting
  <2> QED BY <2>1 DEF isSensitive
<1> QED BY <1>1, <1>2 DEF Sensitive
LEMMA Editing ==
  ASSUME NEW type, NEW e, NEW k, NEW repeat, isEditingEvent(type)
  PROVE  Masked(type, e, k, repeat) => Sensitive(type, e, k, repeat)
  BY DEF Masked, MaskedFirst, Sensitive, keystrokeMasked, isEditingEvent

(* A record at a plain field that is sensitive, or becomes so, tells the   *)
(* replay.                                                                 *)
LEMMA SaidOfPlain ==
  ASSUME NEW type, NEW e \in Elems, NEW k, NEW repeat, NEW n, NEW holding, NEW g \in Elems, Plain(g)
  PROVE  /\ Taints(type, e, k, repeat) /\ g = e =>
              \E r \in Told(type, e, k, repeat, n, holding) : r.record = "Scrubbed" /\ r.target = g
         /\ (\E r \in Told(type, e, k, repeat, n, holding) :
               r.record = "Scrubbed" /\ r.target = g) =>
              /\ g = e /\ eventField(type, e) = e
              /\ Taints(type, e, k, repeat) \/ isSensitive(g, tainted)
<1> DEFINE told == Told(type, e, k, repeat, n, holding)
           f == eventField(type, e)
<1>1. ASSUME Taints(type, e, k, repeat), g = e
      PROVE  \E r \in told : r.record = "Scrubbed" /\ r.target = g
  <2>1. f = e /\ Field(e) /\ Target(e) = e /\ Sensitive(type, e, k, repeat)
    BY <1>1, Tainting, Located DEF Sensitive
  <2>2. CASE type # "input" \/ Page[e].name = "editable"
    <3>1. Scrubbed(f, n) \in told
      BY <1>1, <2>1, <2>2 DEF Told, Said, Scrub, ScrubsText
    <3> QED BY <3>1, <2>1, <1>1 DEF Scrubbed
  <2>3. CASE type = "input" /\ Page[e].name # "editable"
    <3>1. domEffects(type, e)
      BY <2>1, <2>3 DEF domEffects, Control, Field
    <3>2. Scrubbed(Target(e), n) \in told
      BY <3>1, <2>1 DEF Told, Said
    <3> QED BY <3>2, <2>1, <1>1 DEF Scrubbed
  <2> QED BY <2>2, <2>3
<1>2. ASSUME NEW r \in told, r.record = "Scrubbed", r.target = g
      PROVE  /\ g = e /\ f = e
             /\ Taints(type, e, k, repeat) \/ isSensitive(g, tainted)
  <2>1. CASE r = Scrubbed(f, n) /\ Scrub(type, e, Sensitive(type, e, k, repeat), Taints(type, e, k, repeat))
    <3>1. Field(f) /\ Sensitive(type, e, k, repeat) /\ g = f
      BY <2>1, <1>2 DEF Scrub, Scrubbed
    <3> QED BY <3>1, Tainting, Located DEF Sensitive
  <2>2. CASE r = Scrubbed(Target(e), n) /\ Sensitive(type, e, k, repeat) /\ domEffects(type, e)
    <3>1. Field(Target(e)) /\ g = Target(e) /\ Target(e) \in Elems
      BY <2>2, <1>2, Located, Controls DEF domEffects, Scrubbed
    <3>2. g = e /\ f = e /\ Field(f)
      BY <3>1, Located
    <3> QED BY <3>2, <2>2, Tainting DEF Sensitive
  <2>3. r.record = "Scrubbed" => r # DomEffect(Target(e), n, holding)
    BY DEF DomEffect
  <2> QED BY <1>2, <2>1, <2>2, <2>3 DEF Told, Said
<1> QED BY <1>1, <1>2
LEMMA RecordedAlike ==
  ASSUME Typed, TaintedAlike, NEW type, NEW e \in Elems, NEW k, NEW repeat, NEW n,
         NEW holding, NEW char, recordInput(type, e, k, repeat, n, holding, char),
         marks' = marks, type = "input" /\ Plain(e) => length'[e] = n
  PROVE  TaintedAlike' /\ MasksAlike'
<1> DEFINE told == Told(type, e, k, repeat, n, holding)
           inp == Input(type, Target(e), char, Masked(type, e, k, repeat))
<1>1. PICK W : /\ \E S : W \in Seq(S)
               /\ ToSet(W) = told /\ Applied(W) /\ wrote' = Append(W, inp)
  BY Recording
<1>2. \A r \in told : /\ r.record # "Input" /\ r.n = n
                      /\ r.target = eventField(type, e) \/ r.target = Target(e)
  BY DEF Told, Said, Scrubbed, DomEffect
<1>3. /\ ToSet(wrote') = told \cup {inp}
      /\ wrote' # << >> /\ wrote'[Len(wrote')] = inp
  BY <1>1, Appended
<1>4. /\ inp.record = "Input" /\ inp.type = type /\ inp.target = Target(e)
      /\ inp.masked = Masked(type, e, k, repeat)
  BY DEF Input
<1>5. replay' = "running" =>
        /\ replay = "running"
        /\ \A f : f \in rTainted' <=>
             \/ f \in rTainted
             \/ ~isSensitive(f, rTainted)
                /\ \E r \in told : r.record = "Scrubbed" /\ r.target = f
        /\ \A f \in Elems : (\E r \in told : r.target = f) =>
             \E r \in told : r.target = f /\ rLength'[f] = r.n
  BY <1>1, <1>2, AppliedTo
<1>6. tainted' = IF Taints(type, e, k, repeat) THEN tainted \cup {eventField(type, e)} ELSE tainted
  BY Recording
<1> HIDE DEF told, inp
<1>7. ASSUME replay' = "running", NEW g \in Elems, Plain(g)
      PROVE  g \in tainted' <=> g \in rTainted'
  <2>1. g \in tainted <=> g \in rTainted
    BY <1>7, <1>5 DEF TaintedAlike
  <2>2. isSensitive(g, tainted) <=> isSensitive(g, rTainted)
    BY <2>1 DEF isSensitive
  <2>3. /\ Taints(type, e, k, repeat) /\ g = e =>
             \E r \in told : r.record = "Scrubbed" /\ r.target = g
        /\ (\E r \in told : r.record = "Scrubbed" /\ r.target = g) =>
             /\ g = e /\ eventField(type, e) = e
             /\ Taints(type, e, k, repeat) \/ isSensitive(g, tainted)
    BY <1>7, SaidOfPlain DEF told
  <2>4. Taints(type, e, k, repeat) => eventField(type, e) = e /\ ~isSensitive(e, tainted)
    BY Tainting DEF EventSensitive
  <2> QED BY <2>1, <2>2, <2>3, <2>4, <1>5, <1>6, <1>7
<1>8. TaintedAlike'
  BY <1>7 DEF TaintedAlike, Plain
<1>9. ReplayAlike'
  <2>1. ASSUME replay' = "running", NEW g \in Elems, Plain(g), Control(g), type = "input", Target(e) = g
        PROVE  rLength'[g] = length'[g]
    <3>1. g = e
      BY <2>1, Controls, Located
    <3>2. domEffects(type, e)
      BY <2>1 DEF domEffects
    <3>3. \E r \in told : r.target = g
      <4>1. Scrubbed(g, n) \in told \/ DomEffect(g, n, holding) \in told
        BY <3>2, <2>1 DEF told, Told, Said
      <4> QED BY <4>1 DEF Scrubbed, DomEffect
    <3>4. PICK r \in told : rLength'[g] = r.n
      BY <3>3, <2>1, <1>5
    <3> QED BY <3>1, <3>4, <1>2, <2>1
  <2> QED BY <2>1, <1>3, <1>4, <1>7 DEF ReplayAlike, Plain, Control
<1>10. MaskedIsWatched'
  <2>1. ASSUME NEW i \in DOMAIN wrote', wrote'[i].record = "Input", wrote'[i].masked,
               isTextEvent(wrote'[i].type), replay' = "running", Field(wrote'[i].target),
               wrote'[i].type \notin {"keydown", "keypress", "keyup"}
        PROVE  wrote'[i].target = e /\ isSensitive(e, rTainted)'
    <3>1. wrote'[i] \in ToSet(wrote')
      BY DEF ToSet
    <3>2. wrote'[i] = inp
      BY <3>1, <2>1, <1>2, <1>3
    <3>3. Plain(e) /\ Target(e) = e /\ eventField(type, e) = e /\ Field(e)
      BY <3>2, <2>1, <1>4, Located
    <3>4. Masked(type, e, k, repeat) /\ isEditingEvent(type)
      BY <3>2, <2>1, <1>4 DEF isTextEvent
    <3>5. Sensitive(type, e, k, repeat)
      BY <3>4, Editing
    <3>6. isSensitive(e, tainted')
      BY <3>3, <3>5, SensitiveAfter
    <3>7. e \in tainted' <=> e \in rTainted'
      BY <2>1, <3>3, <1>7
    <3>8. isSensitive(e, rTainted)'
      BY <3>6, <3>7 DEF isSensitive, isFreeTextField, Field
    <3> QED BY <3>2, <3>3, <3>8, <1>4
  <2> QED BY <2>1 DEF MaskedIsWatched, Watched, isTextEvent, isEditingEvent, isSensitive,
            isFreeTextField, Field
<1> QED BY <1>8, <1>9, <1>10 DEF MasksAlike
LEMMA RecordedClear ==
  ASSUME NEW type, NEW e \in Elems, NEW k, NEW repeat, NEW n, NEW holding, NEW char,
         recordInput(type, e, k, repeat, n, holding, char),
         lost' \/ (char => Masked(type, e, k, repeat)),
         lost' \/ (holding /\ Plain(e) /\ Control(e) => Sensitive(type, e, k, repeat))
  PROVE  NoSecretInClear'
<1> DEFINE told == Told(type, e, k, repeat, n, holding)
           inp == Input(type, Target(e), char, Masked(type, e, k, repeat))
<1>1. PICK W : /\ \E S : W \in Seq(S)
               /\ ToSet(W) = told /\ wrote' = Append(W, inp)
  BY Recording
<1>2. ToSet(wrote') = told \cup {inp}
  BY <1>1, Appended
<1>3. inp.secret = char /\ inp.masked = Masked(type, e, k, repeat)
  BY DEF Input
<1>4. ASSUME NEW r \in told, r.secret, ~lost' PROVE FALSE
  <2>1. r = DomEffect(Target(e), n, holding) /\ domEffects(type, e) /\ ~Sensitive(type, e, k, repeat)
    BY <1>4 DEF Told, Said, Scrubbed
  <2>2. holding /\ Control(Target(e)) /\ Field(Target(e))
    BY <2>1, <1>4, Located, Controls DEF DomEffect, domEffects
  <2>3. Plain(e) /\ Control(e)
    BY <2>2, Located
  <2> QED BY <2>1, <2>2, <2>3, <1>4
<1> HIDE DEF told, inp
<1>5. ASSUME NEW i \in DOMAIN wrote', wrote'[i].secret, ~wrote'[i].masked, ~lost'
      PROVE  FALSE
  <2>1. wrote'[i] \in told \cup {inp}
    BY <1>2 DEF ToSet
  <2> QED BY <2>1, <1>3, <1>4, <1>5
<1> QED BY <1>5 DEF NoSecretInClear

(* What the shim has of a key, a value or a field it keeps.                *)
LEMMA RecordedKept ==
  ASSUME NEW type, NEW e, NEW k, NEW repeat, NEW n, NEW holding, NEW char, Typed,
         recordInput(type, e, k, repeat, n, holding, char), ~lost'
  PROVE  /\ ~lost /\ remembered \subseteq remembered'
         /\ \A x \in ToSet(keysInFlight) : x # k => x \in ToSet(keysInFlight')
<1>1. /\ ~lost /\ remembered \subseteq remembered'
      /\ ToSet(Without(keysInFlight, k)) \subseteq ToSet(keysInFlight')
  BY Recording
<1>2. \A x : x \in ToSet(Without(keysInFlight, k)) <=> x \in ToSet(keysInFlight) /\ x # k
  BY WithoutKey DEF Typed
<1> QED BY <1>1, <1>2

LEMMA CapturedStays ==
  ASSUME CapturedHoled, captured' = captured, remembered \subseteq remembered', TaintsSeen',
         \A e : Unseen(e) => marks'[e] = marks[e]
  PROVE  CapturedHoled'
<1>1. ASSUME NEW e, Untold(e) PROVE Untold(e)'
  <2>1. Unseen(e) /\ e \notin tainted' /\ (~Control(e) \/ ~isSensitive(e, tainted))
    BY <1>1 DEF TaintsSeen, Unseen, Untold, RemembersRead
  <2>2. ~isSensitive(e, tainted) => ~isSensitive(e, tainted)'
    BY <2>1 DEF isSensitive, isFreeTextField, Field
  <2> QED BY <2>1, <2>2 DEF Untold, Unseen, RemembersRead, Control
<1> QED BY <1>1 DEF CapturedHoled

LEMMA HeldStays ==
  ASSUME NEW e \in Elems, SecretsRemembered, holds'[e] = holds[e], length'[e] = length[e],
         marks'[e] = marks[e], remembered \subseteq remembered', tainted \subseteq tainted',
         holds'[e], ~Unseen(e)
  PROVE  /\ Field(e) /\ isSensitive(e, tainted)'
         /\ length'[e] >= MinHoled => <<e, length'[e]>> \in remembered'
<1>1. /\ Field(e) /\ isSensitive(e, tainted)
      /\ length[e] >= MinHoled => <<e, length[e]>> \in remembered
  BY DEF SecretsRemembered
<1> QED BY <1>1 DEF isSensitive, isFreeTextField, Field

LEMMA EventKeeps ==
  ASSUME IInv, NEW type, NEW e \in Elems, NEW k, NEW repeat, NEW n \in 0..MaxLength,
         NEW holding, NEW char, recordInput(type, e, k, repeat, n, holding, char),
         marks' = marks, captured' = captured, focus' \in Elems,
         down' \in [Keys -> {"up", "clear"} \cup Elems],
         stroke' = NoStroke
           \/ stroke' \in [key : TextKeys, next : {"keypress", "beforeinput", "input"}],
         length' \in [Elems -> 0..MaxLength], holds' \in [Elems -> BOOLEAN],
         type = "input" /\ Plain(e) => length'[e] = n,
         lost' \/ /\ char => Masked(type, e, k, repeat)
                  /\ holding /\ Plain(e) /\ Control(e) => Sensitive(type, e, k, repeat)
                  /\ SecretsInFlight' /\ StrokeMasked' /\ SecretsRemembered'
  PROVE  IInv'
<1>1. Typed'
  BY RecordedTypes DEF IInv, Typed, NoValue, NoStroke, KeyList, Kept
<1>2. TaintsSeen' /\ tainted \subseteq tainted'
  BY RecordedTaints DEF IInv
<1>3. TaintedAlike' /\ MasksAlike'
  BY RecordedAlike DEF IInv
<1>4. NoSecretInClear'
  BY RecordedClear
<1>5. lost' \/ Withheld'
  <2>1. SUFFICES ASSUME ~lost' PROVE CapturedHoled'
    BY DEF Withheld
  <2>2. ~lost /\ remembered \subseteq remembered'
    BY <2>1, RecordedKept DEF IInv
  <2> QED BY <2>2, <1>2, CapturedStays DEF IInv, Withheld
<1> QED BY <1>1, <1>2, <1>3, <1>4, <1>5 DEF IInv
-----------------------------------------------------------------------------
(* The actions. *)

LEMMA HoldingSensitive ==
  ASSUME SecretsRemembered, NEW e \in Elems, NEW type, NEW k, NEW repeat
  PROVE  holds[e] /\ Plain(e) => Sensitive(type, e, k, repeat)
<1>1. Plain(e) => ~Unseen(e) /\ eventField(type, e) = e
  BY Located DEF Plain, Unseen
<1> QED BY <1>1 DEF SecretsRemembered, Sensitive, EventSensitive

LEMMA TypedIsMasked ==
  ASSUME NEW e \in Elems, NEW type, isTextEvent(type), TypedSecret(e)
  PROVE  EventSensitive(type, e)
<1>1. CASE ~Unseen(e)
  BY <1>1, Located DEF TypedSecret, EventSensitive
<1>2. CASE Unseen(e)
  <2>1. eventField(type, e) = Page[e].host /\ ~declaredPublic(Page[e].host)
    BY <1>2, Located DEF TypedSecret
  <2>2. Page[e].host # NoElem /\ Page[Page[e].host].root = "unseen"
    BY <1>2 DEF Unseen
  <2>3. Page[Page[e].host].name \in {"div", "body"}
    BY <2>2, PageFacts
  <2> QED BY <2>1, <2>2, <2>3 DEF EventSensitive, textEventMaskedAt, mayHostUnseenShadowRoot, Field
<1> QED BY <1>1, <1>2

LEMMA FlightMasked ==
  ASSUME NEW type, NEW e, NEW k, NEW repeat, k \in ToSet(keysInFlight),
         type \in {"keypress", "keyup"} \/ (type = "keydown" /\ repeat)
  PROVE  MaskedFirst(type, e, k, repeat)
<1>1. InFlight(k)
  BY DEF InFlight, ToSet
<1> QED BY <1>1 DEF MaskedFirst, keystrokeMasked

LEMMA HeldStill ==
  ASSUME SecretsRemembered, UNCHANGED <<length, holds, marks>>, remembered \subseteq remembered',
         tainted \subseteq tainted'
  PROVE  SecretsRemembered'
<1>1. ASSUME NEW e \in Elems, holds'[e], ~Unseen(e)
      PROVE  /\ Field(e) /\ isSensitive(e, tainted)'
             /\ length'[e] >= MinHoled => <<e, length'[e]>> \in remembered'
  BY <1>1, HeldStays
<1> QED BY <1>1 DEF SecretsRemembered, Unseen, Field, isSensitive, isFreeTextField

LEMMA KeyDownKeeps ==
  ASSUME IInv, NEW k \in Keys, KeyDown(k)
  PROVE  IInv'
<1> DEFINE repeat == down[k] # "up"
           char == down'[k] \in Elems
<1>1. /\ recordInput("keydown", focus, k, repeat, length[focus], holds[focus], char)
      /\ down' = [down EXCEPT ![k] = IF Secret(k) THEN @
                                     ELSE IF k \in TextKeys /\ TypedSecret(focus) THEN focus
                                     ELSE "clear"]
      /\ stroke' = IF k \in TextKeys THEN [key |-> k, next |-> "keypress"] ELSE NoStroke
      /\ UNCHANGED <<focus, length, holds, marks, captured>>
  BY DEF KeyDown, fields
<1>2. /\ focus \in Elems /\ down \in [Keys -> {"up", "clear"} \cup Elems]
      /\ length \in [Elems -> 0..MaxLength] /\ holds \in [Elems -> BOOLEAN]
      /\ KeyList(keysInFlight)
  BY DEF IInv, Typed
<1>3. /\ down' \in [Keys -> {"up", "clear"} \cup Elems]
      /\ down'[k] = IF Secret(k) THEN down[k]
                    ELSE IF k \in TextKeys /\ TypedSecret(focus) THEN focus ELSE "clear"
      /\ \A j \in Keys : j # k => down'[j] = down[j]
  BY <1>1, <1>2 DEF Secret
<1>4. stroke' = NoStroke \/ stroke' \in [key : TextKeys, next : {"keypress", "beforeinput", "input"}]
  BY <1>1
<1> HIDE DEF repeat, char
<1>5. ASSUME ~lost'
      PROVE  /\ char => Masked("keydown", focus, k, repeat)
             /\ holds[focus] /\ Plain(focus) /\ Control(focus) => Sensitive("keydown", focus, k, repeat)
             /\ SecretsInFlight' /\ StrokeMasked' /\ SecretsRemembered'
  <2>1. /\ ~lost /\ remembered \subseteq remembered'
        /\ \A x \in ToSet(keysInFlight) : x # k => x \in ToSet(keysInFlight')
    BY <1>1, <1>5, RecordedKept DEF IInv
  <2>2. Withheld /\ tainted \subseteq tainted'
    BY <2>1, <1>1, <1>2, RecordedTaints DEF IInv
  <2>3. ASSUME char PROVE k \in TextKeys /\ MaskedFirst("keydown", focus, k, repeat)
    <3>1. CASE Secret(k)
      <4>1. k \in TextKeys /\ k \in ToSet(keysInFlight)
        BY <3>1, <2>2 DEF Withheld, SecretsInFlight
      <4>2. repeat
        BY <3>1, PageAssumption DEF Secret, repeat
      <4> QED BY <4>1, <4>2, FlightMasked
    <3>2. CASE ~Secret(k)
      <4>1. k \in TextKeys /\ TypedSecret(focus)
        BY <3>2, <2>3, <1>3, PageAssumption DEF char
      <4>2. EventSensitive("keydown", focus)
        BY <4>1, <1>2, TypedIsMasked DEF isTextEvent
      <4> QED BY <4>1, <4>2 DEF MaskedFirst, keystrokeMasked
    <3> QED BY <3>1, <3>2
  <2>4. /\ keysInFlight' = KeysAfter("keydown", k, MaskedFirst("keydown", focus, k, repeat))
        /\ lastMasked' = LastAfter("keydown", k, MaskedFirst("keydown", focus, k, repeat))
    BY <1>1, Recording
  <2>5. SecretsInFlight'
    <3>1. ASSUME NEW j \in Keys, down'[j] \in Elems
          PROVE  j \in TextKeys /\ j \in ToSet(keysInFlight')
      <4>1. CASE j = k
        BY <4>1, <3>1, <2>3, <2>4, <1>2, KeysKept DEF char
      <4>2. CASE j # k
        BY <4>2, <3>1, <2>1, <2>2, <1>3 DEF Withheld, SecretsInFlight, Secret
      <4> QED BY <4>1, <4>2
    <3> QED BY <3>1 DEF SecretsInFlight, Secret, ToSet
  <2>6. StrokeMasked'
    <3>1. ASSUME stroke' # NoStroke, down'[stroke'.key] \in Elems PROVE lastMasked' = stroke'.key
      <4>1. stroke'.key = k
        BY <1>1, <3>1
      <4> QED BY <4>1, <3>1, <2>3, <2>4 DEF char, LastAfter
    <3> QED BY <3>1 DEF StrokeMasked, Secret, NoStroke
  <2>7. SecretsRemembered'
    BY <1>1, <2>1, <2>2, HeldStill DEF Withheld
  <2>8. holds[focus] /\ Plain(focus) /\ Control(focus) => Sensitive("keydown", focus, k, repeat)
    BY <1>2, <2>2, HoldingSensitive DEF Withheld
  <2> QED BY <2>3, <2>5, <2>6, <2>7, <2>8 DEF Masked
<1>6. length[focus] \in 0..MaxLength
  BY <1>2
<1> QED BY <1>1, <1>2, <1>3, <1>4, <1>5, <1>6, EventKeeps
(* An event that is no keydown and no keyup leaves the keys as they are.   *)
LEMMA KeysStay ==
  ASSUME NEW type, type \notin {"keydown", "keyup"}, NEW e, NEW k, NEW repeat, NEW n, NEW holding,
         NEW char, recordInput(type, e, k, repeat, n, holding, char), down' = down,
         stroke' = NoStroke \/ (stroke # NoStroke /\ stroke'.key = stroke.key),
         SecretsInFlight, StrokeMasked
  PROVE  SecretsInFlight' /\ StrokeMasked'
<1>1. keysInFlight' = keysInFlight /\ lastMasked' = lastMasked
  BY Recording DEF KeysAfter, LastAfter
<1>2. SecretsInFlight'
  BY <1>1 DEF SecretsInFlight, Secret, ToSet
<1>3. StrokeMasked'
  BY <1>1 DEF StrokeMasked, Secret, NoStroke
<1> QED BY <1>2, <1>3

(* The character of a secret keystroke is masked wherever an event of it   *)
(* is dispatched.                                                          *)
LEMMA StrokeIsMasked ==
  ASSUME Typed, Withheld, stroke # NoStroke, Secret(stroke.key), NEW repeat,
         NEW type \in {"keypress", "beforeinput", "input"},
         type = "keypress" \/ Field(focus)
  PROVE  /\ Masked(type, focus, stroke.key, repeat)
         /\ type # "keypress" => Sensitive(type, focus, stroke.key, repeat)
<1>1. /\ focus \in Elems /\ stroke.key \in TextKeys /\ stroke.key \in Keys
      /\ lastMasked = stroke.key /\ stroke.key \in ToSet(keysInFlight)
  BY KeysAssumption DEF Typed, Withheld, StrokeMasked, SecretsInFlight
<1>2. CASE type = "keypress"
  BY <1>1, <1>2, FlightMasked DEF Masked
<1>3. CASE type # "keypress"
  <2>1. isEditingEvent(type) /\ isTextEvent(type) /\ Field(focus)
    BY <1>3 DEF isEditingEvent, isTextEvent
  <2>2. CASE eventField(type, focus) = focus
    <3>1. InFlight(lastMasked) /\ lastMasked # NoKey
      BY <1>1, KeysAssumption DEF InFlight, ToSet
    <3>2. Sensitive(type, focus, stroke.key, repeat)
      BY <2>1, <2>2, <3>1 DEF Sensitive, Taints, keystrokeTaints
    <3>3. MaskedFirst(type, focus, stroke.key, repeat) <=> EventSensitive(type, focus)
      BY <2>1 DEF MaskedFirst, keystrokeMasked, isEditingEvent
    <3> QED BY <3>2, <3>3 DEF Sensitive, Masked
  <2>3. CASE eventField(type, focus) # focus
    <3>1. Unseen(focus) /\ eventField(type, focus) = Page[focus].host /\ ~Field(eventField(type, focus))
      BY <1>1, <2>1, <2>3, Located
    <3>2. EventSensitive(type, focus)
      BY <2>1, <3>1 DEF EventSensitive, textEventMaskedAt
    <3> QED BY <2>1, <3>2 DEF Sensitive, Masked, MaskedFirst, keystrokeMasked, isEditingEvent
  <2> QED BY <2>2, <2>3
<1> QED BY <1>2, <1>3

LEMMA KeyPressKeeps ==
  ASSUME IInv, NEW type \in {"keypress", "beforeinput"}, type = "keypress" \/ Field(focus),
         stroke # NoStroke,
         recordInput(type, focus, stroke.key, FALSE, length[focus], holds[focus], Secret(stroke.key)),
         stroke' = NoStroke
           \/ /\ stroke' \in [key : TextKeys, next : {"keypress", "beforeinput", "input"}]
              /\ stroke'.key = stroke.key,
         UNCHANGED <<focus, down, fields, marks, captured>>
  PROVE  IInv'
<1> DEFINE char == Secret(stroke.key)
<1>1. /\ recordInput(type, focus, stroke.key, FALSE, length[focus], holds[focus], char)
      /\ UNCHANGED <<focus, down, length, holds, marks, captured>>
  BY DEF fields
<1>2. /\ focus \in Elems /\ down \in [Keys -> {"up", "clear"} \cup Elems]
      /\ length \in [Elems -> 0..MaxLength] /\ holds \in [Elems -> BOOLEAN]
      /\ length[focus] \in 0..MaxLength
  BY DEF IInv, Typed
<1> HIDE DEF char
<1>3. ASSUME ~lost'
      PROVE  /\ char => Masked(type, focus, stroke.key, FALSE)
             /\ holds[focus] /\ Plain(focus) /\ Control(focus) => Sensitive(type, focus, stroke.key, FALSE)
             /\ SecretsInFlight' /\ StrokeMasked' /\ SecretsRemembered'
  <2>1. ~lost /\ remembered \subseteq remembered'
    BY <1>1, <1>3, RecordedKept DEF IInv
  <2>2. Withheld /\ tainted \subseteq tainted'
    BY <2>1, <1>1, <1>2, RecordedTaints DEF IInv
  <2>3. char => Masked(type, focus, stroke.key, FALSE)
    BY <2>2, StrokeIsMasked DEF char, IInv
  <2>4. SecretsInFlight' /\ StrokeMasked'
    BY <1>1, <2>2, KeysStay DEF Withheld
  <2>5. SecretsRemembered'
    BY <1>1, <2>1, <2>2, HeldStill DEF Withheld
  <2>6. holds[focus] /\ Plain(focus) => Sensitive(type, focus, stroke.key, FALSE)
    BY <1>2, <2>2, HoldingSensitive DEF Withheld
  <2> QED BY <2>3, <2>4, <2>5, <2>6
<1> QED BY <1>1, <1>2, <1>3, EventKeeps
LEMMA InsertTextKeeps ==
  ASSUME IInv, InsertText
  PROVE  IInv'
<1> DEFINE n == length[focus] + 1
           char == Secret(stroke.key)
           holding == holds'[focus]
<1>1. /\ stroke.next = "input" /\ Field(focus) /\ length[focus] < MaxLength
      /\ length' = [length EXCEPT ![focus] = @ + 1]
      /\ holds' = [holds EXCEPT ![focus] = @ \/ Secret(stroke.key)]
      /\ recordInput("input", focus, stroke.key, FALSE, n, holding, char)
      /\ stroke' = NoStroke /\ UNCHANGED <<focus, down, marks, captured>>
  BY DEF InsertText
<1>2. /\ focus \in Elems /\ down \in [Keys -> {"up", "clear"} \cup Elems]
      /\ length \in [Elems -> 0..MaxLength] /\ holds \in [Elems -> BOOLEAN]
      /\ stroke # NoStroke /\ Kept(remembered)
  BY <1>1 DEF IInv, Typed, NoStroke
<1>3. n \in 0..MaxLength /\ length' \in [Elems -> 0..MaxLength] /\ length'[focus] = n
      /\ \A e \in Elems : e # focus => length'[e] = length[e]
  BY <1>1, <1>2, SizesAssumption
<1>4. holds' \in [Elems -> BOOLEAN] /\ holding = (holds[focus] \/ char)
      /\ \A e \in Elems : e # focus => holds'[e] = holds[e]
  BY <1>1, <1>2
<1> HIDE DEF n, char, holding
<1>5. ASSUME ~lost'
      PROVE  /\ char => Masked("input", focus, stroke.key, FALSE)
             /\ holding /\ Plain(focus) /\ Control(focus) => Sensitive("input", focus, stroke.key, FALSE)
             /\ SecretsInFlight' /\ StrokeMasked' /\ SecretsRemembered'
  <2>1. ~lost /\ remembered \subseteq remembered'
    BY <1>1, <1>5, RecordedKept DEF IInv
  <2>2. Withheld /\ tainted \subseteq tainted'
    BY <2>1, <1>1, <1>2, RecordedTaints DEF IInv
  <2>3. char => /\ Masked("input", focus, stroke.key, FALSE)
                /\ Sensitive("input", focus, stroke.key, FALSE)
    BY <1>1, <1>2, <2>2, StrokeIsMasked DEF char, IInv
  <2>4. ASSUME holding, ~Unseen(focus)
        PROVE  Sensitive("input", focus, stroke.key, FALSE) /\ eventField("input", focus) = focus
    <3>1. eventField("input", focus) = focus
      BY <1>2, <2>4, Located DEF isTextEvent, isEditingEvent
    <3>2. CASE holds[focus]
      BY <1>2, <2>2, <2>4, <3>1, <3>2 DEF Withheld, SecretsRemembered, Sensitive, EventSensitive
    <3> QED BY <3>1, <3>2, <2>3, <2>4, <1>4
  <2>5. SecretsInFlight' /\ StrokeMasked'
    BY <1>1, <2>2, KeysStay DEF Withheld
  <2>6. ASSUME NEW e \in Elems, holds'[e], ~Unseen(e)
        PROVE  /\ Field(e) /\ isSensitive(e, tainted)'
               /\ length'[e] >= MinHoled => <<e, length'[e]>> \in remembered'
    <3>1. CASE e = focus
      <4>1. /\ Sensitive("input", focus, stroke.key, FALSE) /\ eventField("input", focus) = focus
        BY <3>1, <2>4, <2>6 DEF holding
      <4>2. isSensitive(focus, tainted')
        BY <4>1, <1>1, <1>2, SensitiveAfter
      <4>3. remembered' = rememberSensitive(focus, n, remembered)
        <5>1. remembered' =
                IF Sensitive("input", focus, stroke.key, FALSE) /\ Field(eventField("input", focus))
                THEN rememberSensitive(eventField("input", focus), n, remembered) ELSE remembered
          BY <1>1, Recording
        <5> QED BY <5>1, <4>1, <1>1
      <4>4. n >= MinHoled => <<focus, n>> \in remembered'
        BY <4>3, <1>2, <1>3, Remembered
      <4>5. isSensitive(focus, tainted)'
        BY <4>2, <1>1 DEF isSensitive, isFreeTextField, Field
      <4> QED BY <3>1, <4>4, <4>5, <1>1, <1>3
    <3>2. CASE e # focus
      BY <3>2, <2>6, <2>1, <2>2, <1>1, <1>3, <1>4, HeldStays DEF Withheld
    <3> QED BY <3>1, <3>2
  <2>7. SecretsRemembered'
    BY <2>6 DEF SecretsRemembered, Unseen, Field, isSensitive, isFreeTextField
  <2>8. Plain(focus) => ~Unseen(focus)
    BY DEF Plain, Unseen
  <2> QED BY <2>3, <2>4, <2>5, <2>7, <2>8
<1> QED BY <1>1, <1>2, <1>3, <1>4, <1>5, EventKeeps

LEMMA KeyUpKeeps ==
  ASSUME IInv, NEW k \in Keys, KeyUp(k)
  PROVE  IInv'
<1> DEFINE char == Secret(k)
<1>1. /\ stroke = NoStroke
      /\ recordInput("keyup", focus, k, FALSE, length[focus], holds[focus], char)
      /\ down' = [down EXCEPT ![k] = "up"]
      /\ UNCHANGED <<focus, stroke, length, holds, marks, captured>>
  BY DEF KeyUp, fields
<1>2. /\ focus \in Elems /\ down \in [Keys -> {"up", "clear"} \cup Elems]
      /\ length \in [Elems -> 0..MaxLength] /\ holds \in [Elems -> BOOLEAN]
      /\ length[focus] \in 0..MaxLength
  BY DEF IInv, Typed
<1>3. /\ down' \in [Keys -> {"up", "clear"} \cup Elems] /\ down'[k] = "up"
      /\ \A j \in Keys : j # k => down'[j] = down[j]
  BY <1>1, <1>2
<1> HIDE DEF char
<1>4. ASSUME ~lost'
      PROVE  /\ char => Masked("keyup", focus, k, FALSE)
             /\ holds[focus] /\ Plain(focus) /\ Control(focus) => Sensitive("keyup", focus, k, FALSE)
             /\ SecretsInFlight' /\ StrokeMasked' /\ SecretsRemembered'
  <2>1. /\ ~lost /\ remembered \subseteq remembered'
        /\ \A x \in ToSet(keysInFlight) : x # k => x \in ToSet(keysInFlight')
    BY <1>1, <1>4, RecordedKept DEF IInv
  <2>2. Withheld /\ tainted \subseteq tainted'
    BY <2>1, <1>1, <1>2, RecordedTaints DEF IInv
  <2>3. char => Masked("keyup", focus, k, FALSE)
    BY <2>2, FlightMasked DEF char, Withheld, SecretsInFlight, Masked
  <2>4. SecretsInFlight'
    <3>1. ASSUME NEW j \in Keys, down'[j] \in Elems
          PROVE  j \in TextKeys /\ j \in ToSet(keysInFlight')
      <4>1. j # k
        BY <3>1, <1>3, PageAssumption
      <4> QED BY <4>1, <3>1, <2>1, <2>2, <1>3 DEF Withheld, SecretsInFlight, Secret
    <3> QED BY <3>1 DEF SecretsInFlight, Secret, ToSet
  <2>5. StrokeMasked'
    BY <1>1 DEF StrokeMasked, NoStroke
  <2>6. SecretsRemembered'
    BY <1>1, <2>1, <2>2, HeldStill DEF Withheld
  <2>7. holds[focus] /\ Plain(focus) => Sensitive("keyup", focus, k, FALSE)
    BY <1>2, <2>2, HoldingSensitive DEF Withheld
  <2> QED BY <2>3, <2>4, <2>5, <2>6, <2>7
<1>5. stroke' = NoStroke
  BY <1>1
<1> QED BY <1>1, <1>2, <1>3, <1>4, <1>5, EventKeeps
LEMMA Silent ==
  ASSUME wrote' = << >>
  PROVE  NoSecretInClear' /\ MasksAlike'
  BY DEF NoSecretInClear, MasksAlike, ReplayAlike, MaskedIsWatched

LEMMA QuietKeeps ==
  ASSUME IInv, NoSecretInClear', MasksAlike', UNCHANGED <<marks, shim, rTainted, replay>>,
         focus' \in Elems, down' \in [Keys -> {"up", "clear"} \cup Elems],
         stroke' \in {stroke, NoStroke}, captured' \in {captured, NoValue},
         length' \in [Elems -> 0..MaxLength], holds' \in [Elems -> BOOLEAN],
         \A k \in Keys : down'[k] \in Elems => down'[k] = down[k],
         \A e \in Elems : holds'[e] => holds[e] /\ length'[e] = length[e]
  PROVE  IInv'
<1>0. UNCHANGED <<seen, remembered, keysInFlight, lastMasked, tainted, lost>>
  BY DEF shim
<1>1. Typed'
  BY <1>0 DEF IInv, Typed, NoValue, NoStroke, KeyList, Kept
<1>2. TaintsSeen' /\ TaintedAlike'
  BY <1>0 DEF IInv, TaintsSeen, TaintedAlike, Unseen, Plain
<1>3. ASSUME Withheld PROVE Withheld'
  <2>1. SecretsInFlight'
    BY <1>0, <1>3 DEF Withheld, SecretsInFlight, Secret, ToSet
  <2>2. StrokeMasked'
    <3>1. ASSUME stroke' # NoStroke, down'[stroke'.key] \in Elems PROVE lastMasked' = stroke'.key
      <4>1. stroke' = stroke /\ stroke.key \in Keys
        BY <3>1, KeysAssumption DEF IInv, Typed
      <4>2. down[stroke.key] \in Elems
        BY <4>1, <3>1
      <4> QED BY <4>1, <4>2, <3>1, <1>0, <1>3 DEF Withheld, StrokeMasked, Secret
    <3> QED BY <3>1 DEF StrokeMasked, Secret, NoStroke
  <2>3. SecretsRemembered'
    <3>1. ASSUME NEW e \in Elems, holds'[e], ~Unseen(e)
          PROVE  /\ Field(e) /\ isSensitive(e, tainted)'
                 /\ length'[e] >= MinHoled => <<e, length'[e]>> \in remembered'
      <4>1. /\ Field(e) /\ isSensitive(e, tainted) /\ length'[e] = length[e]
            /\ length[e] >= MinHoled => <<e, length[e]>> \in remembered
        BY <3>1, <1>3 DEF Withheld, SecretsRemembered
      <4> QED BY <4>1, <1>0 DEF isSensitive, isFreeTextField, Field
    <3> QED BY <3>1 DEF SecretsRemembered, Unseen, Field, isSensitive, isFreeTextField
  <2>4. CapturedHoled'
    BY <1>0, <1>2, <1>3, CapturedStays DEF Withheld, CapturedHoled
  <2> QED BY <2>1, <2>2, <2>3, <2>4 DEF Withheld
<1> QED BY <1>0, <1>1, <1>2, <1>3 DEF IInv

LEMMA KeyUpLostKeeps ==
  ASSUME IInv, NEW k \in Keys, KeyUpLost(k)
  PROVE  IInv'
<1>1. /\ down' = [down EXCEPT ![k] = "up"] /\ wrote' = << >>
      /\ UNCHANGED <<focus, stroke, length, holds, marks, captured, shim, rTainted, replay>>
  BY DEF KeyUpLost, Quiet, fields, replayed
<1>2. /\ down' \in [Keys -> {"up", "clear"} \cup Elems] /\ down'[k] = "up"
      /\ \A j \in Keys : j # k => down'[j] = down[j]
  BY <1>1 DEF IInv, Typed
<1>3. \A j \in Keys : down'[j] \in Elems => down'[j] = down[j]
  BY <1>2, PageAssumption
<1>4. NoSecretInClear' /\ MasksAlike'
  BY <1>1, Silent
<1>5. /\ focus' \in Elems /\ length' \in [Elems -> 0..MaxLength] /\ holds' \in [Elems -> BOOLEAN]
      /\ stroke' \in {stroke, NoStroke} /\ captured' \in {captured, NoValue}
      /\ \A e \in Elems : holds'[e] => holds[e] /\ length'[e] = length[e]
  BY <1>1 DEF IInv, Typed
<1>6. UNCHANGED <<marks, shim, rTainted, replay>>
  BY <1>1
<1> QED BY <1>2, <1>3, <1>4, <1>5, <1>6, QuietKeeps

LEMMA CancelKeeps ==
  ASSUME IInv, Cancel
  PROVE  IInv'
<1>1. /\ stroke' = NoStroke /\ wrote' = << >>
      /\ UNCHANGED <<focus, down, length, holds, marks, captured, shim, rTainted, replay>>
  BY DEF Cancel, Quiet, fields, replayed
<1>2. NoSecretInClear' /\ MasksAlike'
  BY <1>1, Silent
<1>3. /\ focus' \in Elems /\ length' \in [Elems -> 0..MaxLength] /\ holds' \in [Elems -> BOOLEAN]
      /\ down' \in [Keys -> {"up", "clear"} \cup Elems]
      /\ stroke' \in {stroke, NoStroke} /\ captured' \in {captured, NoValue}
      /\ \A e \in Elems : holds'[e] => holds[e] /\ length'[e] = length[e]
      /\ \A j \in Keys : down'[j] \in Elems => down'[j] = down[j]
  BY <1>1 DEF IInv, Typed
<1>4. UNCHANGED <<marks, shim, rTainted, replay>>
  BY <1>1
<1> QED BY <1>2, <1>3, <1>4, QuietKeeps

LEMMA ClearKeeps ==
  ASSUME IInv, NEW e \in Elems, Clear(e)
  PROVE  IInv'
<1>1. /\ length' = [length EXCEPT ![e] = 0] /\ holds' = [holds EXCEPT ![e] = FALSE]
      /\ wrote' = << >>
      /\ UNCHANGED <<focus, down, stroke, marks, captured, shim, rTainted, replay>>
  BY DEF Clear, platform
<1>2. NoSecretInClear' /\ MasksAlike'
  BY <1>1, Silent
<1>3. length' \in [Elems -> 0..MaxLength] /\ holds' \in [Elems -> BOOLEAN]
      /\ \A g \in Elems : holds'[g] => holds[g] /\ length'[g] = length[g]
  BY <1>1, SizesAssumption DEF IInv, Typed
<1>4. /\ focus' \in Elems /\ down' \in [Keys -> {"up", "clear"} \cup Elems]
      /\ stroke' \in {stroke, NoStroke} /\ captured' \in {captured, NoValue}
      /\ \A j \in Keys : down'[j] \in Elems => down'[j] = down[j]
  BY <1>1 DEF IInv, Typed
<1>5. UNCHANGED <<marks, shim, rTainted, replay>>
  BY <1>1
<1> QED BY <1>2, <1>3, <1>4, <1>5, QuietKeeps

LEMMA SendKeeps ==
  ASSUME IInv, Send
  PROVE  IInv'
<1> DEFINE masked == captured \in currentSensitiveValues
           out == [record |-> "Outbound", target |-> captured[1], n |-> captured[2],
                   secret |-> TRUE, type |-> "none", masked |-> masked]
<1>1. /\ captured # NoValue /\ wrote' = <<out>> /\ captured' = NoValue
      /\ UNCHANGED <<focus, down, stroke, length, holds, marks, shim, rTainted, replay>>
  BY DEF Send, platform, fields, replayed
<1>2. captured \in remembered => masked
  BY DEF currentSensitiveValues
<1>3. /\ out.record = "Outbound" /\ out.n = captured[2] /\ out.target = captured[1]
  OBVIOUS
<1>4. out.masked <=> masked
  OBVIOUS
<1>5. UNCHANGED <<seen, remembered, keysInFlight, lastMasked, tainted, lost>>
  BY <1>1 DEF shim
<1> HIDE DEF out, masked
<1>6. DOMAIN wrote' = {1} /\ wrote'[1] = out /\ Len(wrote') = 1
  BY <1>1
<1>7. NoSecretInClear'
  <2>1. ASSUME ~masked, ~lost
        PROVE  captured[2] < MinHoled \/ Untold(captured[1])
    BY <2>1, <1>1, <1>2 DEF IInv, Withheld, CapturedHoled
  <2>2. ASSUME NEW i \in DOMAIN wrote', ~wrote'[i].masked, ~lost'
        PROVE  /\ wrote'[i].record = "Outbound"
               /\ wrote'[i].n < MinHoled \/ Untold(wrote'[i].target)
    <3>1. wrote'[i] = out
      BY <1>6
    <3>2. ~masked /\ ~lost
      BY <3>1, <2>2, <1>4, <1>5
    <3> QED BY <3>1, <3>2, <2>1, <1>3, <1>5
  <2>3. \A t : Untold(t) => Untold(t)'
    BY <1>1, <1>5 DEF Untold, Unseen, RemembersRead, Control, isSensitive, isFreeTextField, Field
  <2>4. ASSUME NEW i \in DOMAIN wrote', ~wrote'[i].masked, ~lost'
        PROVE  wrote'[i].record = "Outbound" /\ (wrote'[i].n < MinHoled \/ Untold(wrote[i].target)')
    BY <2>2, <2>3, <2>4
  <2> QED BY <2>4 DEF NoSecretInClear
<1>8. MasksAlike'
  BY <1>3, <1>6 DEF MasksAlike, ReplayAlike, MaskedIsWatched
<1>9. /\ focus' \in Elems /\ length' \in [Elems -> 0..MaxLength] /\ holds' \in [Elems -> BOOLEAN]
      /\ down' \in [Keys -> {"up", "clear"} \cup Elems]
      /\ stroke' \in {stroke, NoStroke} /\ captured' \in {captured, NoValue}
      /\ \A e \in Elems : holds'[e] => holds[e] /\ length'[e] = length[e]
      /\ \A j \in Keys : down'[j] \in Elems => down'[j] = down[j]
  BY <1>1 DEF IInv, Typed
<1>10. UNCHANGED <<marks, shim, rTainted, replay>>
  BY <1>1
<1> QED BY <1>7, <1>8, <1>9, <1>10, QuietKeeps

LEMMA MoveFocusKeeps ==
  ASSUME IInv, NEW e \in Elems, MoveFocus(e)
  PROVE  IInv'
<1>1. /\ focus' = e /\ UNCHANGED <<down, stroke, length, holds, marks, captured>>
  BY DEF MoveFocus, fields
<1>2. /\ focus \in Elems /\ focus' \in Elems /\ down' \in [Keys -> {"up", "clear"} \cup Elems]
      /\ length' \in [Elems -> 0..MaxLength] /\ holds' \in [Elems -> BOOLEAN]
      /\ length[focus] \in 0..MaxLength /\ length'[focus] = length[focus]
      /\ stroke' = NoStroke
           \/ stroke' \in [key : TextKeys, next : {"keypress", "beforeinput", "input"}]
  BY <1>1 DEF IInv, Typed
<1>3. CASE recordInput("change", focus, NoKey, FALSE, length[focus], holds[focus], FALSE)
  <2>1. ASSUME ~lost'
        PROVE  /\ holds[focus] /\ Plain(focus) => Sensitive("change", focus, NoKey, FALSE)
               /\ SecretsInFlight' /\ StrokeMasked' /\ SecretsRemembered'
    <3>1. ~lost /\ remembered \subseteq remembered'
      BY <1>3, <2>1, RecordedKept DEF IInv
    <3>2. Withheld /\ tainted \subseteq tainted'
      BY <1>2, <1>3, <3>1, RecordedTaints DEF IInv
    <3>3. SecretsInFlight' /\ StrokeMasked'
      BY <1>1, <1>3, <3>2, KeysStay DEF Withheld
    <3>4. SecretsRemembered'
      BY <1>1, <3>1, <3>2, HeldStill DEF Withheld
    <3>5. holds[focus] /\ Plain(focus) => Sensitive("change", focus, NoKey, FALSE)
      BY <1>2, <3>2, HoldingSensitive DEF Withheld
    <3> QED BY <3>3, <3>4, <3>5
  <2> QED BY <1>1, <1>2, <1>3, <2>1, EventKeeps
<1>4. CASE Quiet
  <2>1. NoSecretInClear' /\ MasksAlike'
    BY <1>4, Silent DEF Quiet
  <2>2. UNCHANGED <<marks, shim, rTainted, replay>>
    BY <1>1, <1>4 DEF Quiet, replayed
  <2>3. /\ stroke' \in {stroke, NoStroke} /\ captured' \in {captured, NoValue}
        /\ \A g \in Elems : holds'[g] => holds[g] /\ length'[g] = length[g]
        /\ \A j \in Keys : down'[j] \in Elems => down'[j] = down[j]
    BY <1>1
  <2> QED BY <1>2, <2>1, <2>2, <2>3, QuietKeeps
<1> QED BY <1>3, <1>4 DEF MoveFocus

LEMMA DeclareKeeps ==
  ASSUME IInv, NEW e \in Elems, NEW mark \in {"public", "sensitive"}, Declare(e, mark)
  PROVE  IInv'
<1>1. /\ ~Unseen(e) /\ marks' = [marks EXCEPT ![e] = mark]
      /\ wrote' = << >> /\ UNCHANGED <<focus, stroke, length, captured, rTainted, replay>>
      /\ UNCHANGED <<seen, remembered, keysInFlight, lastMasked, tainted, lost>>
  BY DEF Declare, Quiet, shim, replayed
<1>2. \/ /\ mark = "public" /\ holds' = [holds EXCEPT ![e] = FALSE]
         /\ down' = [k \in Keys |-> IF down[k] = e THEN "clear" ELSE down[k]]
      \/ mark = "sensitive" /\ holds' = holds /\ down' = down
  BY DEF Declare
<1>3. /\ marks' \in [Elems -> {"none", "public", "sensitive"}] /\ marks'[e] = mark
      /\ holds' \in [Elems -> BOOLEAN] /\ down' \in [Keys -> {"up", "clear"} \cup Elems]
      /\ \A g \in Elems : holds'[g] => holds[g] /\ (g = e => mark = "sensitive")
      /\ \A g \in Elems : g # e => marks'[g] = marks[g]
  <2>1. /\ marks' \in [Elems -> {"none", "public", "sensitive"}] /\ marks'[e] = mark
        /\ \A g \in Elems : g # e => marks'[g] = marks[g]
    BY <1>1 DEF IInv, Typed
  <2>2. /\ holds' \in [Elems -> BOOLEAN]
        /\ \A g \in Elems : holds'[g] => holds[g] /\ (g = e => mark = "sensitive")
    <3>1. holds \in [Elems -> BOOLEAN]
      BY DEF IInv, Typed
    <3>2. CASE mark = "public" /\ holds' = [holds EXCEPT ![e] = FALSE]
      BY <3>1, <3>2, Zenon
    <3>3. CASE mark = "sensitive" /\ holds' = holds
      BY <3>1, <3>3, Zenon
    <3> QED BY <1>2, <3>2, <3>3, Zenon
  <2>3. down' \in [Keys -> {"up", "clear"} \cup Elems]
    BY <1>2 DEF IInv, Typed
  <2> QED BY <2>1, <2>2, <2>3
<1>4. \A k \in Keys : down'[k] \in Elems => down'[k] = down[k]
  BY <1>2, PageAssumption
<1>5. Typed'
  BY <1>1, <1>3 DEF IInv, Typed, NoValue, NoStroke, KeyList, Kept
<1>6. TaintsSeen' /\ TaintedAlike'
  BY <1>1 DEF IInv, TaintsSeen, TaintedAlike, Unseen, Plain
<1>7. NoSecretInClear' /\ MasksAlike'
  BY <1>1, Silent
<1>8. ASSUME Withheld PROVE Withheld'
  <2>1. SecretsInFlight'
    BY <1>1, <1>4, <1>8 DEF Withheld, SecretsInFlight, Secret, ToSet
  <2>2. StrokeMasked'
    <3>1. ASSUME stroke' # NoStroke, down'[stroke'.key] \in Elems PROVE lastMasked' = stroke'.key
      <4>1. stroke' = stroke /\ stroke.key \in Keys
        BY <1>1, <3>1, KeysAssumption DEF IInv, Typed
      <4>2. down[stroke.key] \in Elems
        BY <4>1, <3>1, <1>4
      <4> QED BY <4>1, <4>2, <3>1, <1>1, <1>8 DEF Withheld, StrokeMasked, Secret
    <3> QED BY <3>1 DEF StrokeMasked, Secret, NoStroke
  <2>3. SecretsRemembered'
    <3>1. ASSUME NEW g \in Elems, holds'[g], ~Unseen(g)
          PROVE  /\ Field(g) /\ isSensitive(g, tainted)'
                 /\ length'[g] >= MinHoled => <<g, length'[g]>> \in remembered'
      <4>1. /\ Field(g) /\ isSensitive(g, tainted)
            /\ length[g] >= MinHoled => <<g, length[g]>> \in remembered
        BY <3>1, <1>3, <1>8 DEF Withheld, SecretsRemembered
      <4>2. isSensitive(g, tainted)'
        <5>1. CASE g = e
          BY <5>1, <3>1, <1>3 DEF isSensitive
        <5>2. CASE g # e
          BY <5>2, <4>1, <1>1, <1>3 DEF isSensitive, isFreeTextField, Field
        <5> QED BY <5>1, <5>2
      <4> QED BY <4>1, <4>2, <1>1
    <3> QED BY <3>1 DEF SecretsRemembered, Unseen, Field, isSensitive, isFreeTextField
  <2>4. CapturedHoled'
    <3>1. \A g : Unseen(g) => marks'[g] = marks[g]
      BY <1>1 DEF IInv, Typed
    <3>2. captured' = captured /\ remembered \subseteq remembered' /\ CapturedHoled
      BY <1>1, <1>8 DEF Withheld
    <3> QED BY <3>1, <3>2, <1>6, CapturedStays
  <2> QED BY <2>1, <2>2, <2>3, <2>4 DEF Withheld
<1> QED BY <1>1, <1>5, <1>6, <1>7, <1>8 DEF IInv

LEMMA CaptureKeeps ==
  ASSUME IInv, NEW e \in Elems, Capture(e)
  PROVE  IInv'
<1>1. /\ holds[e] /\ captured' = <<e, length[e]>> /\ wrote' = << >>
      /\ UNCHANGED <<focus, down, stroke, length, holds, marks, keysInFlight, lastMasked,
                     tainted, rTainted, replay>>
  BY DEF Capture, platform, fields, replayed
<1>2. IF RemembersRead(e)
      THEN /\ remembered' = rememberSensitive(e, length[e], remembered)
           /\ ~lost' => ~lost /\ remembered \subseteq remembered'
      ELSE UNCHANGED <<remembered, lost>>
  BY DEF Capture
<1>3. length[e] \in 0..MaxLength /\ Kept(remembered)
  BY DEF IInv, Typed
<1>4. /\ Kept(rememberSensitive(e, length[e], remembered))
      /\ length[e] >= MinHoled => <<e, length[e]>> \in rememberSensitive(e, length[e], remembered)
  BY <1>3, Remembered
<1>5. Kept(remembered')
  BY <1>2, <1>3, <1>4
<1>6. <<e, length[e]>> \in Elems \X (0..MaxLength)
  BY <1>3
<1>7. Typed'
  BY <1>1, <1>5, <1>6 DEF IInv, Typed, NoStroke, KeyList, NoValue
<1>8. TaintsSeen' /\ TaintedAlike'
  BY <1>1 DEF IInv, TaintsSeen, TaintedAlike, Unseen, Plain
<1>9. NoSecretInClear' /\ MasksAlike'
  BY <1>1, Silent
<1>10. ASSUME ~lost' PROVE Withheld'
  <2>1. Withheld /\ remembered \subseteq remembered'
    BY <1>2, <1>10 DEF IInv
  <2>2. SecretsInFlight' /\ StrokeMasked'
    BY <1>1, <2>1 DEF Withheld, SecretsInFlight, StrokeMasked, Secret, ToSet, NoStroke
  <2>3. SecretsRemembered'
    BY <1>1, <2>1, HeldStill DEF Withheld
  <2>4. CapturedHoled'
    <3>1. captured'[1] = e /\ captured'[2] = length[e]
      BY <1>1
    <3>2. CASE ~Unseen(e) /\ length[e] >= MinHoled
      <4>1. <<e, length[e]>> \in remembered
        BY <1>1, <2>1, <3>2 DEF Withheld, SecretsRemembered
      <4> QED BY <1>1, <2>1, <4>1 DEF CapturedHoled
    <3>3. CASE length[e] < MinHoled
      BY <3>1, <3>3 DEF CapturedHoled
    <3>4. CASE RemembersRead(e) /\ length[e] >= MinHoled
      <4>1. <<e, length[e]>> \in remembered'
        BY <1>2, <1>4, <3>4
      <4> QED BY <1>1, <4>1 DEF CapturedHoled
    <3>5. CASE Unseen(e) /\ ~RemembersRead(e)
      <4>1. Untold(e)'
        BY <1>1, <3>5 DEF Untold, Unseen, RemembersRead, Control, isSensitive, isFreeTextField, Field
      <4>2. Untold(captured[1])'
        BY <3>1, <4>1
      <4> QED BY <4>2 DEF CapturedHoled
    <3>6. length[e] < MinHoled \/ length[e] >= MinHoled
      BY <1>3, SizesAssumption
    <3> QED BY <3>2, <3>3, <3>4, <3>5, <3>6
  <2> QED BY <2>2, <2>3, <2>4 DEF Withheld
<1> QED BY <1>7, <1>8, <1>9, <1>10 DEF IInv
-----------------------------------------------------------------------------
LEMMA InitInv == Init => IInv
<1> SUFFICES ASSUME Init PROVE IInv
  OBVIOUS
<1>1. KeyList(keysInFlight)
  BY SizesAssumption DEF Init, KeyList
<1>2. Kept(remembered)
  BY FS_EmptySet, SizesAssumption DEF Init, Kept
<1>3. Typed
  BY <1>1, <1>2, SizesAssumption DEF Init, Typed
<1>4. Withheld
  BY PageAssumption DEF Init, Withheld, SecretsInFlight, StrokeMasked, SecretsRemembered,
                        CapturedHoled, Secret
<1>5. NoSecretInClear /\ MasksAlike
  BY DEF Init, NoSecretInClear, MasksAlike, ReplayAlike, MaskedIsWatched
<1> QED BY <1>3, <1>4, <1>5 DEF Init, IInv, TaintsSeen, TaintedAlike

LEMMA StutterInv ==
  ASSUME IInv, UNCHANGED vars
  PROVE  IInv'
<1>1. UNCHANGED <<focus, down, stroke, length, holds, marks, shim, captured, wrote,
                  rTainted, rLength, replay>>
  BY DEF vars, platform, fields, replayed
<1>2. /\ NoSecretInClear' /\ MasksAlike'
  BY <1>1 DEF shim, IInv, NoSecretInClear, MasksAlike, ReplayAlike, MaskedIsWatched, Watched,
              Untold, RemembersRead, Unseen, Plain, Control, Field, isSensitive, isFreeTextField, isTextEvent, isEditingEvent
<1>3. /\ focus' \in Elems /\ down' \in [Keys -> {"up", "clear"} \cup Elems]
      /\ length' \in [Elems -> 0..MaxLength] /\ holds' \in [Elems -> BOOLEAN]
      /\ stroke' \in {stroke, NoStroke} /\ captured' \in {captured, NoValue}
      /\ \A k \in Keys : down'[k] \in Elems => down'[k] = down[k]
      /\ \A e \in Elems : holds'[e] => holds[e] /\ length'[e] = length[e]
  BY <1>1 DEF IInv, Typed
<1>4. UNCHANGED <<marks, shim, rTainted, replay>>
  BY <1>1
<1> QED BY <1>2, <1>3, <1>4, QuietKeeps

LEMMA NextInv == IInv /\ [Next]_vars => IInv'
<1> SUFFICES ASSUME IInv, [Next]_vars PROVE IInv'
  OBVIOUS
<1>1. ASSUME NEW k \in Keys, KeyDown(k) PROVE IInv'
  BY <1>1, KeyDownKeeps
<1>2. ASSUME NEW k \in Keys, KeyUp(k) PROVE IInv'
  BY <1>2, KeyUpKeeps
<1>3. ASSUME NEW k \in Keys, KeyUpLost(k) PROVE IInv'
  BY <1>3, KeyUpLostKeeps
<1>4. ASSUME KeyPress PROVE IInv'
  <2>1. /\ stroke # NoStroke
        /\ stroke' = NoStroke
             \/ /\ stroke' \in [key : TextKeys, next : {"keypress", "beforeinput", "input"}]
                /\ stroke'.key = stroke.key
    BY <1>4 DEF KeyPress, NoStroke, IInv, Typed
  <2> QED BY <1>4, <2>1, KeyPressKeeps DEF KeyPress
<1>5. ASSUME BeforeInput PROVE IInv'
  <2>1. /\ stroke # NoStroke
        /\ stroke' \in [key : TextKeys, next : {"keypress", "beforeinput", "input"}]
        /\ stroke'.key = stroke.key
    BY <1>5 DEF BeforeInput, NoStroke, IInv, Typed
  <2> QED BY <1>5, <2>1, KeyPressKeeps DEF BeforeInput
<1>6. ASSUME InsertText PROVE IInv'
  BY <1>6, InsertTextKeeps
<1>7. ASSUME Cancel PROVE IInv'
  BY <1>7, CancelKeeps
<1>8. ASSUME Send PROVE IInv'
  BY <1>8, SendKeeps
<1>9. ASSUME NEW e \in Elems, MoveFocus(e) PROVE IInv'
  BY <1>9, MoveFocusKeeps
<1>10. ASSUME NEW e \in Elems, Capture(e) PROVE IInv'
  BY <1>10, CaptureKeeps
<1>11. ASSUME NEW e \in Elems, Clear(e) PROVE IInv'
  BY <1>11, ClearKeeps
<1>12. ASSUME NEW e \in Elems, NEW mark \in {"public", "sensitive"}, Declare(e, mark) PROVE IInv'
  BY <1>12, DeclareKeeps
<1>13. ASSUME UNCHANGED vars PROVE IInv'
  BY <1>13, StutterInv
<1> QED BY <1>1, <1>2, <1>3, <1>4, <1>5, <1>6, <1>7, <1>8, <1>9, <1>10, <1>11, <1>12, <1>13 DEF Next

(* Every reachable state satisfies the invariant (recordInput, replay's    *)
(* apply, applyScrubbed).                                                  *)
THEOREM InputInvariance == Spec => []IInv
  BY InitInv, NextInv, PTL DEF Spec

(* However the visitor types and the page moves the focus, the state of    *)
(* the sensitive fields is well formed: no key is in flight twice, and the *)
(* keys and the values kept stay within MAX_KEYS_IN_FLIGHT and             *)
(* MAX_REMEMBERED (recordKeyInFlight, rememberSensitive, sensitive.ts).    *)
THEOREM InputsTyped == Spec => []TypeOK
<1>1. IInv => TypeOK
  BY DEF IInv, Typed, TypeOK, KeyList, Kept
<1> QED BY <1>1, InputInvariance, PTL

(* No record carries a secret in clear, for every page, any number of keys *)
(* down at once and every bound: the exceptions are those that the         *)
(* property names (recordInput, seams-dom.ts; holing, sensitive.ts).       *)
THEOREM SecretsWithheld == Spec => []NoSecretInClear
  BY InputInvariance, PTL DEF IInv

(* A replay masks what its record masked: at every event that it reaches   *)
(* it knows the same fields for sensitive, has as many characters in them, *)
(* and watches what it withholds (applyScrubbed, watchMaskedProps).        *)
THEOREM ReplayMasksAlike == Spec => []MasksAlike
  BY InputInvariance, PTL DEF IInv
====
