---------------------------- MODULE BrowserProofs ----------------------------
(***************************************************************************)
(* What the browser package's smaller parts promise, whatever the sizes.   *)
(* The daemon hears a page's trace whole and in order (BrowserTrace); a    *)
(* report leaves only by the page's consent, and the reporter's counters   *)
(* add up (ErrorReports); the browser takes a batch at most once as the    *)
(* page leaves (KeepaliveBudget).                                          *)
(***************************************************************************)
EXTENDS BrowserTrace, ErrorReports, KeepaliveBudget,
        SequenceTheorems, FiniteSetTheorems, TLAPS

(* The runtime's own state as its methods have it; what it knows of, sent, *)
(* waiting or lost.                                                        *)
Runtimes == [queue : Seq(Events), timer : BOOLEAN, heard : Seq(Events),
             dropped : SUBSET Events, thrown : BOOLEAN]
Told(r) == r.heard \o r.queue
Knows(r, event) == event \in r.dropped \/ \E i \in 1..Len(Told(r)) : Told(r)[i] = event
Streams(r) ==
  /\ \A i, j \in 1..Len(Told(r)) : i < j => Order(Told(r)[i]) < Order(Told(r)[j])
  /\ \A i \in 1..Len(Told(r)) : Told(r)[i] \notin r.dropped
  /\ r.dropped = {} => Told(r) # <<>> /\ Told(r)[1].kind = SessionStart
Below(r, bound) == \A event \in Events : Knows(r, event) => Order(event) <= bound
HasCalls(r, n) == \A k \in 1..n : \E event \in Events : Knows(r, event) /\ event.n = k

LEMMA Ordered ==
  ASSUME MaxCalls \in Nat, NEW event \in Events
  PROVE  Order(event) \in Nat
<1>1. event.n \in Nat /\ event.n + 1 \in Nat /\ MaxCalls + 2 \in Nat
  BY DEF Events
<1> QED BY <1>1 DEF Order

LEMMA ConcatWhole ==
  ASSUME NEW h \in Seq(Events), NEW q \in Seq(Events)
  PROVE  /\ h \o q \in Seq(Events) /\ Len(h \o q) \in Nat
         /\ Len(h) \in Nat /\ Len(q) \in Nat
         /\ Len(h \o q) = Len(h) + Len(q)
         /\ \A i \in 1..Len(h) : i \in 1..Len(h \o q) /\ (h \o q)[i] = h[i]
         /\ \A i \in 1..Len(q) : /\ Len(h) + i \in 1..Len(h \o q)
                                 /\ (h \o q)[Len(h) + i] = q[i]
         /\ \A i \in 1..Len(h \o q) :
              \/ i \in 1..Len(h)
              \/ i - Len(h) \in 1..Len(q) /\ i = Len(h) + (i - Len(h))
<1>1. /\ h \o q \in Seq(Events) /\ Len(h \o q) = Len(h) + Len(q)
      /\ \A i \in 1..Len(h) + Len(q) : (h \o q)[i] = IF i <= Len(h) THEN h[i] ELSE q[i - Len(h)]
  BY ConcatProperties
<1>2. Len(h) \in Nat /\ Len(q) \in Nat
  BY LenProperties
<1> QED BY <1>1, <1>2

LEMMA ToldWhole ==
  ASSUME NEW r \in Runtimes
  PROVE  /\ Told(r) \in Seq(Events) /\ Len(Told(r)) \in Nat
         /\ Len(r.heard) \in Nat /\ Len(r.queue) \in Nat
         /\ Len(Told(r)) = Len(r.heard) + Len(r.queue)
         /\ \A i \in 1..Len(r.heard) : i \in 1..Len(Told(r)) /\ Told(r)[i] = r.heard[i]
         /\ \A i \in 1..Len(r.queue) : /\ Len(r.heard) + i \in 1..Len(Told(r))
                                       /\ Told(r)[Len(r.heard) + i] = r.queue[i]
         /\ \A i \in 1..Len(Told(r)) :
              \/ i \in 1..Len(r.heard)
              \/ i - Len(r.heard) \in 1..Len(r.queue) /\ i = Len(r.heard) + (i - Len(r.heard))
<1>1. r.heard \in Seq(Events) /\ r.queue \in Seq(Events)
  BY DEF Runtimes
<1> QED BY <1>1, ConcatWhole DEF Told

LEMMA Changed ==
  ASSUME NEW r \in Runtimes, NEW q \in Seq(Events)
  PROVE  LET s == [r EXCEPT !.queue = q]
         IN /\ s \in Runtimes /\ s.heard = r.heard /\ s.queue = q
            /\ s.dropped = r.dropped /\ s.thrown = r.thrown /\ s.timer = r.timer
  BY DEF Runtimes

LEMMA Timed ==
  ASSUME NEW r \in Runtimes, NEW b \in BOOLEAN
  PROVE  LET s == [r EXCEPT !.timer = b]
         IN /\ s \in Runtimes /\ s.heard = r.heard /\ s.queue = r.queue
            /\ s.dropped = r.dropped /\ s.thrown = r.thrown /\ s.timer = b
  BY DEF Runtimes

(* A batch sent, or lost: nothing else is forgotten. *)
LEMMA FlushStreams ==
  ASSUME MaxCalls \in Nat, NEW r \in Runtimes, Streams(r), NEW throws \in BOOLEAN
  PROVE  LET s == flushNow(r, throws)
         IN /\ s \in Runtimes /\ Streams(s)
            /\ \A event \in Events : Knows(s, event) <=> Knows(r, event)
<1> DEFINE s == flushNow(r, throws)
           sent == [r EXCEPT !.heard = @ \o r.queue, !.queue = <<>>, !.timer = FALSE]
           lost == [r EXCEPT !.dropped = @ \cup ToSet(r.queue), !.queue = <<>>, !.timer = FALSE]
<1>1. /\ r.heard \in Seq(Events) /\ r.queue \in Seq(Events) /\ r.dropped \subseteq Events
      /\ ToSet(r.queue) \subseteq Events
  BY DEF Runtimes, ToSet
<1>2. \/ s = r \/ s = [r EXCEPT !.thrown = TRUE]
      \/ ~throws /\ s = sent
      \/ throws /\ r.queue # <<>> /\ s = lost
  <2>1. CASE throws
    BY <2>1 DEF flushNow, Runtimes
  <2>2. CASE ~throws
    BY <2>2 DEF flushNow, Runtimes
  <2> QED BY <2>1, <2>2
<1>3. CASE s = r
  BY <1>3
<1>4. CASE s = [r EXCEPT !.thrown = TRUE]
  <2>1. /\ s \in Runtimes /\ s.heard = r.heard /\ s.queue = r.queue /\ s.dropped = r.dropped
    BY <1>4 DEF Runtimes
  <2> QED BY <2>1 DEF Streams, Knows, Told
<1>5. CASE s = sent
  <2>1. /\ s \in Runtimes /\ s.heard = r.heard \o r.queue /\ s.queue = <<>>
        /\ s.dropped = r.dropped
    <3>1. r.heard \o r.queue \in Seq(Events) /\ <<>> \in Seq(Events)
      BY <1>1, ConcatProperties
    <3> DEFINE h == r.heard \o r.queue
    <3>2. s = [r EXCEPT !.heard = h, !.queue = <<>>, !.timer = FALSE]
      BY <1>5 DEF Runtimes
    <3> HIDE DEF h
    <3>3. s \in Runtimes /\ s.heard = h /\ s.queue = <<>> /\ s.dropped = r.dropped
      BY <3>1, <3>2 DEF Runtimes, h
    <3> QED BY <3>3 DEF h
  <2>2. Told(s) = Told(r)
    BY <1>1, <2>1, ConcatProperties DEF Told
  <2> QED BY <2>1, <2>2 DEF Streams, Knows
<1>6. CASE r.queue # <<>> /\ s = lost
  <2>1. /\ s \in Runtimes /\ s.heard = r.heard /\ s.queue = <<>>
        /\ s.dropped = r.dropped \cup ToSet(r.queue)
    <3> DEFINE d == r.dropped \cup ToSet(r.queue)
    <3>1. d \in SUBSET Events /\ <<>> \in Seq(Events)
      BY <1>1
    <3>2. s = [r EXCEPT !.dropped = d, !.queue = <<>>, !.timer = FALSE]
      BY <1>6 DEF Runtimes
    <3> HIDE DEF d
    <3>3. s \in Runtimes /\ s.heard = r.heard /\ s.queue = <<>> /\ s.dropped = d
      BY <3>1, <3>2 DEF Runtimes
    <3> QED BY <3>3 DEF d
  <2>2. Told(s) = r.heard
    BY <1>1, <2>1 DEF Told
  <2>3. \A x : x \in ToSet(r.queue) <=> \E i \in 1..Len(r.queue) : r.queue[i] = x
    BY <1>1 DEF ToSet
  <2>4. r.queue[1] \in ToSet(r.queue)
    BY <1>1, <1>6, <2>3
  <2>5. ASSUME NEW i \in 1..Len(r.heard)
        PROVE  r.heard[i] \notin s.dropped
    <3>1. i \in 1..Len(Told(r)) /\ Told(r)[i] = r.heard[i]
      BY ToldWhole
    <3>2. ASSUME NEW k \in 1..Len(r.queue), r.queue[k] = r.heard[i]
          PROVE  FALSE
      <4>1. /\ Len(r.heard) + k \in 1..Len(Told(r)) /\ Told(r)[Len(r.heard) + k] = r.queue[k]
            /\ Len(r.heard) \in Nat /\ Len(r.queue) \in Nat
        BY ToldWhole
      <4>2. i < Len(r.heard) + k
        BY <4>1
      <4>3. Order(Told(r)[i]) < Order(Told(r)[Len(r.heard) + k])
        BY <3>1, <4>1, <4>2 DEF Streams
      <4>4. Order(r.heard[i]) < Order(r.heard[i]) /\ r.heard[i] \in Events
        BY <1>1, <3>1, <3>2, <4>1, <4>3
      <4> QED BY <4>4, Ordered
    <3> QED BY <2>1, <2>3, <3>1, <3>2 DEF Streams
  <2>6. \A i, j \in 1..Len(r.heard) : i < j => Order(r.heard[i]) < Order(r.heard[j])
    BY ToldWhole DEF Streams
  <2>7. Streams(s)
    BY <2>1, <2>2, <2>4, <2>5, <2>6 DEF Streams
  <2>8. ASSUME NEW event \in Events
        PROVE  Knows(s, event) <=> Knows(r, event)
    <3>1. Knows(s, event) => Knows(r, event)
      <4>1. ASSUME NEW i \in 1..Len(r.heard), r.heard[i] = event
            PROVE  Knows(r, event)
        BY <4>1, ToldWhole DEF Knows
      <4>2. ASSUME NEW i \in 1..Len(r.queue), r.queue[i] = event
            PROVE  Knows(r, event)
        BY <4>2, ToldWhole DEF Knows
      <4> QED BY <2>1, <2>2, <2>3, <4>1, <4>2 DEF Knows
    <3>2. ASSUME NEW i \in 1..Len(Told(r)), Told(r)[i] = event
          PROVE  Knows(s, event)
      <4>1. \/ i \in 1..Len(r.heard)
            \/ i - Len(r.heard) \in 1..Len(r.queue) /\ i = Len(r.heard) + (i - Len(r.heard))
        BY ToldWhole
      <4>2. CASE i \in 1..Len(r.heard)
        BY <2>2, <3>2, <4>2, ToldWhole DEF Knows
      <4>3. CASE i - Len(r.heard) \in 1..Len(r.queue) /\ i = Len(r.heard) + (i - Len(r.heard))
        <5> DEFINE k == i - Len(r.heard)
        <5>1. k \in 1..Len(r.queue) /\ i = Len(r.heard) + k
          BY <4>3
        <5> HIDE DEF k
        <5>2. Told(r)[Len(r.heard) + k] = r.queue[k]
          BY <5>1, ToldWhole, Zenon
        <5>3. r.queue[k] = event
          BY <3>2, <5>1, <5>2
        <5> QED BY <2>1, <2>3, <5>1, <5>3 DEF Knows
      <4> QED BY <4>1, <4>2, <4>3
    <3> QED BY <2>1, <3>1, <3>2 DEF Knows
  <2> QED BY <2>1, <2>7, <2>8
<1> QED BY <1>2, <1>3, <1>4, <1>5, <1>6

(* An event that comes after all others is queued. *)
LEMMA QueuedStreams ==
  ASSUME MaxCalls \in Nat, NEW r \in Runtimes, Streams(r), NEW bound \in Nat, Below(r, bound),
         NEW event \in Events, Order(event) > bound
  PROVE  LET s == [r EXCEPT !.queue = Append(@, event)]
         IN /\ s \in Runtimes /\ Streams(s)
            /\ \A x \in Events : Knows(s, x) <=> Knows(r, x) \/ x = event
<1> DEFINE s == [r EXCEPT !.queue = Append(@, event)]
           told == Told(r)
<1>1. /\ s \in Runtimes /\ s.heard = r.heard /\ s.dropped = r.dropped
      /\ s.queue = Append(r.queue, event) /\ r.heard \in Seq(Events) /\ r.queue \in Seq(Events)
  <2>1. r.heard \in Seq(Events) /\ r.queue \in Seq(Events)
    BY DEF Runtimes
  <2>2. Append(r.queue, event) \in Seq(Events)
    BY <2>1, AppendProperties
  <2>3. s = [r EXCEPT !.queue = Append(r.queue, event)]
    BY DEF Runtimes
  <2> HIDE DEF s
  <2> QED BY <2>1, <2>2, <2>3, Changed
<1>2. Told(s) = Append(told, event)
  <2>1. \A h, q \in Seq(Events) : h \o Append(q, event) = Append(h \o q, event)
    OBVIOUS
  <2> QED BY <1>1, <2>1 DEF Told
<1>3. told \in Seq(Events) /\ Len(told) \in Nat
  BY ToldWhole
<1> HIDE DEF told, s
<1>4. /\ Len(Told(s)) = Len(told) + 1 /\ Told(s)[Len(told) + 1] = event
      /\ \A i \in 1..Len(told) : Told(s)[i] = told[i] /\ told[i] \in Events
  BY <1>2, <1>3
<1>5. \A i \in 1..Len(Told(s)) : i \in 1..Len(told) \/ i = Len(told) + 1
  BY <1>3, <1>4
<1>6. \A i \in 1..Len(told) : i \in 1..Len(Told(s))
  BY <1>3, <1>4
<1>7. \A i \in 1..Len(told) : Order(told[i]) <= bound /\ Order(told[i]) \in Nat
  BY <1>4, Ordered DEF Below, Knows, told
<1>8. Order(event) \in Nat
  BY Ordered
<1>9. ASSUME NEW i \in 1..Len(Told(s)), NEW j \in 1..Len(Told(s)), i < j
      PROVE  Order(Told(s)[i]) < Order(Told(s)[j])
  <2>1. i \in 1..Len(told)
    BY <1>3, <1>4, <1>9
  <2>2. CASE j \in 1..Len(told)
    BY <1>4, <1>9, <2>1, <2>2 DEF Streams, told
  <2>3. CASE j = Len(told) + 1
    BY <1>4, <1>7, <1>8, <2>1, <2>3
  <2> QED BY <1>5, <2>2, <2>3
<1>10. event \notin r.dropped
  BY <1>8 DEF Below, Knows
<1>11. \A i \in 1..Len(Told(s)) : Told(s)[i] \notin s.dropped
  BY <1>1, <1>4, <1>5, <1>10 DEF Streams, told
<1>12. s.dropped = {} => Told(s) # <<>> /\ Told(s)[1].kind = SessionStart
  <2> SUFFICES ASSUME s.dropped = {} PROVE Told(s) # <<>> /\ Told(s)[1].kind = SessionStart
    OBVIOUS
  <2>1. told # <<>> /\ told[1].kind = SessionStart
    BY <1>1 DEF Streams, told
  <2>2. 1 \in 1..Len(told)
    BY <1>3, <2>1
  <2>3. Told(s)[1] = told[1] /\ Len(Told(s)) # 0
    BY <1>3, <1>4, <2>2
  <2> QED BY <2>1, <2>3
<1>13. Streams(s)
  BY <1>9, <1>11, <1>12 DEF Streams
<1>14. Len(told) + 1 \in 1..Len(Told(s))
  BY <1>3, <1>4
<1>15. \A x \in Events : Knows(s, x) <=> Knows(r, x) \/ x = event
  BY <1>1, <1>4, <1>5, <1>6, <1>14 DEF Knows, told
<1> QED BY <1>1, <1>13, <1>15 DEF s

LEMMA SameStreams ==
  ASSUME NEW r \in Runtimes, NEW s \in Runtimes,
         s.heard = r.heard, s.queue = r.queue, s.dropped = r.dropped
  PROVE  /\ Streams(r) => Streams(s)
         /\ \A event \in Events : Knows(s, event) <=> Knows(r, event)
<1>1. Told(s) = Told(r)
  BY DEF Told
<1> QED BY <1>1 DEF Streams, Knows

LEMMA Armed ==
  ASSUME NEW r \in Runtimes, stopped \in BOOLEAN
  PROVE  LET s == armDeadline(r)
         IN /\ s \in Runtimes /\ s.heard = r.heard /\ s.queue = r.queue
            /\ s.dropped = r.dropped /\ s.thrown = r.thrown
            /\ s.timer = (r.timer \/ (flushIntervalMs > 0 /\ ~stopped))
<1> DEFINE b == r.timer \/ (flushIntervalMs > 0 /\ ~stopped)
<1>1. b \in BOOLEAN
  BY DEF Runtimes
<1>2. armDeadline(r) = [r EXCEPT !.timer = b]
  BY DEF armDeadline
<1> HIDE DEF b
<1>3. LET s == armDeadline(r)
      IN /\ s \in Runtimes /\ s.heard = r.heard /\ s.queue = r.queue
         /\ s.dropped = r.dropped /\ s.thrown = r.thrown /\ s.timer = b
  BY <1>1, <1>2, Timed
<1> QED BY <1>3 DEF b

(* What enqueue leaves knows the event, and nothing else is forgotten. *)
Adds(r, s, event) ==
  /\ s \in Runtimes /\ Streams(s)
  /\ \A x \in Events : Knows(s, x) <=> Knows(r, x) \/ x = event

LEMMA EnqueueStreams ==
  ASSUME MaxCalls \in Nat, stopped = FALSE, NEW r \in Runtimes, Streams(r),
         NEW bound \in Nat, Below(r, bound),
         NEW event \in Events, Order(event) > bound, NEW throws \in BOOLEAN,
         NEW s, s = enqueue(r, event, throws)
  PROVE  Adds(r, s, event)
<1> SUFFICES /\ s \in Runtimes /\ Streams(s)
             /\ \A x \in Events : Knows(s, x) <=> Knows(r, x) \/ x = event
  BY DEF Adds
<1> DEFINE queued == [r EXCEPT !.queue = Append(@, event)]
<1>1. /\ queued \in Runtimes /\ Streams(queued)
      /\ \A x \in Events : Knows(queued, x) <=> Knows(r, x) \/ x = event
  BY QueuedStreams
<1>2. s = flushNow(queued, throws) \/ s = armDeadline(queued) \/ s = queued
  BY DEF enqueue
<1> HIDE DEF queued
<1>3. CASE s = flushNow(queued, throws)
  BY <1>1, <1>3, FlushStreams
<1>4. CASE s = armDeadline(queued)
  <2>1. /\ s \in Runtimes /\ s.heard = queued.heard /\ s.queue = queued.queue
        /\ s.dropped = queued.dropped
    BY <1>1, <1>4, Armed
  <2> QED BY <1>1, <2>1, SameStreams
<1>5. CASE s = queued
  BY <1>1, <1>5
<1> QED BY <1>2, <1>3, <1>4, <1>5

-----------------------------------------------------------------------------
(* The invariant: what is known of is in order and comes before the next   *)
(* call's event, and until the runtime was stopped no call is missing.     *)
RuntimeInv ==
  /\ ready \in {"CONNECTING", "OPEN", "CLOSING", "CLOSED"}
  /\ flushTimer \in BOOLEAN /\ stopped \in BOOLEAN /\ thrown \in BOOLEAN
  /\ calls \in 0..MaxCalls
  /\ Own \in Runtimes /\ Streams(Own)
  /\ ~stopped => HasCalls(Own, calls)
  /\ ~stopped /\ ~thrown => Below(Own, calls + 1)

LEMMA OwnWhole == /\ Own.queue = unsent /\ Own.heard = heard /\ Own.dropped = dropped
                  /\ Own.timer = flushTimer /\ Own.thrown = FALSE
  BY DEF Own

(* What a method leaves is the runtime's state.                            *)
LEMMA SetStreams ==
  ASSUME NEW r \in Runtimes, Streams(r), Set(r)
  PROVE  /\ Own' \in Runtimes /\ Streams(Own)' /\ flushTimer' \in BOOLEAN
         /\ \A event \in Events : Knows(Own', event) <=> Knows(r, event)
<1>1. /\ Own' \in Runtimes /\ Own'.heard = r.heard /\ Own'.queue = r.queue
      /\ Own'.dropped = r.dropped /\ flushTimer' \in BOOLEAN
  BY DEF Set, Own, Runtimes
<1>2. /\ Streams(r) => Streams(Own')
      /\ \A event \in Events : Knows(Own', event) <=> Knows(r, event)
  BY <1>1, SameStreams
<1>3. Streams(Own)' = Streams(Own')
  BY DEF Streams, Told
<1> QED BY <1>1, <1>2, <1>3

(* A step that only moves what is known of.                                *)
LEMMA MovesOn ==
  ASSUME RuntimeInv, NEW r \in Runtimes, Streams(r),
         \A event \in Events : Knows(r, event) <=> Knows(Own, event), Set(r),
         ready' \in {"CONNECTING", "OPEN", "CLOSING", "CLOSED"},
         thrown' \in BOOLEAN, thrown' \/ ~thrown, UNCHANGED <<stopped, calls>>
  PROVE  RuntimeInv'
<1>1. /\ Own' \in Runtimes /\ Streams(Own)' /\ flushTimer' \in BOOLEAN
      /\ \A event \in Events : Knows(Own', event) <=> Knows(Own, event)
  BY SetStreams
<1>2. (~stopped => HasCalls(Own, calls))'
  BY <1>1 DEF RuntimeInv, HasCalls, Knows, Told
<1>3. (~stopped /\ ~thrown => Below(Own, calls + 1))'
  BY <1>1 DEF RuntimeInv, Below, Knows, Told
<1> QED BY <1>1, <1>2, <1>3 DEF RuntimeInv

LEMMA EventsOf ==
  ASSUME MaxCalls \in Nat
  PROVE  /\ Event(SessionStart, 0) \in Events /\ Order(Event(SessionStart, 0)) = 0
         /\ Event(Manifest, 0) \in Events /\ Order(Event(Manifest, 0)) = 1
         /\ Event(SessionEnd, 0) \in Events /\ Order(Event(SessionEnd, 0)) = MaxCalls + 2
         /\ \A kind \in Kinds, n \in 0..MaxCalls :
              /\ Event(kind, n) \in Events /\ Event(kind, n).n = n
              /\ Order(Event(kind, n)) = n + 1
<1> DEFINE start == Event(SessionStart, 0)
           manifest == Event(Manifest, 0)
           end == Event(SessionEnd, 0)
<1>1. start \in Events /\ manifest \in Events /\ end \in Events
  BY DEF Event, Events
<1>2. start.kind = SessionStart /\ manifest.kind = Manifest /\ end.kind = SessionEnd
  BY DEF Event
<1>3. Order(start) = 0 /\ Order(manifest) = 1 /\ Order(end) = MaxCalls + 2
  BY <1>2 DEF Order, SessionStart, Manifest, SessionEnd
<1>4. ASSUME NEW kind \in Kinds, NEW n \in 0..MaxCalls
      PROVE  /\ Event(kind, n) \in Events /\ Event(kind, n).n = n
             /\ Order(Event(kind, n)) = n + 1
  <2>1. Event(kind, n) \in Events /\ Event(kind, n).n = n /\ Event(kind, n).kind = kind
    BY DEF Event, Events
  <2>2. kind # SessionStart /\ kind # Manifest /\ kind # SessionEnd
    BY DEF Kinds, SessionStart, Manifest, SessionEnd
  <2> QED BY <2>1, <2>2 DEF Order
<1> QED BY <1>1, <1>3, <1>4

LEMMA RuntimeStarts ==
  ASSUME MaxCalls \in Nat, RuntimeInit
  PROVE  RuntimeInv
<1> DEFINE start == Event(SessionStart, 0)
           manifest == Event(Manifest, 0)
<1>1. /\ start \in Events /\ manifest \in Events /\ start.kind = SessionStart
      /\ Order(start) = 0 /\ Order(manifest) = 1
  BY EventsOf DEF Event
<1> HIDE DEF start, manifest
<1>2. unsent = <<start>> \/ unsent = <<start, manifest>>
  BY DEF RuntimeInit, start, manifest
<1>3. /\ unsent \in Seq(Events) /\ Len(unsent) \in 1..2 /\ unsent[1] = start
      /\ 2 \in 1..Len(unsent) => unsent[2] = manifest
  <2>1. CASE unsent = <<start>>
    BY <1>1, <2>1
  <2>2. CASE unsent = <<start, manifest>>
    BY <1>1, <2>2
  <2> QED BY <1>2, <2>1, <2>2
<1>4. heard = <<>> /\ heard \o unsent = unsent /\ dropped = {} /\ calls = 0
  BY <1>3 DEF RuntimeInit
<1>5. Own \in Runtimes /\ Told(Own) = unsent /\ Own.dropped = {}
  BY <1>3, <1>4 DEF RuntimeInit, Own, Runtimes, Told
<1>6. \A i \in 1..Len(unsent) : i = 1 \/ i = 2
  <2>1. Len(unsent) = 1 \/ Len(unsent) = 2
    BY <1>3
  <2>2. \A i \in 1..1 : i = 1
    OBVIOUS
  <2>3. \A i \in 1..2 : i = 1 \/ i = 2
    OBVIOUS
  <2> QED BY <2>1, <2>2, <2>3
<1>7. Streams(Own)
  <2>1. \A i, j \in 1..Len(unsent) : i < j => Order(unsent[i]) < Order(unsent[j])
    BY <1>1, <1>3, <1>6
  <2>2. unsent # <<>> /\ unsent[1].kind = SessionStart
    BY <1>1, <1>3
  <2> QED BY <1>5, <2>1, <2>2 DEF Streams
<1>8. Below(Own, 0 + 1)
  <2>1. \A i \in 1..Len(unsent) : Order(unsent[i]) <= 0 + 1
    BY <1>1, <1>3, <1>6
  <2> QED BY <1>5, <2>1 DEF Below, Knows
<1>9. HasCalls(Own, calls)
  BY <1>4 DEF HasCalls
<1>10. calls \in 0..MaxCalls
  BY <1>4
<1>11. /\ ready \in {"CONNECTING", "OPEN", "CLOSING", "CLOSED"}
       /\ flushTimer \in BOOLEAN /\ stopped \in BOOLEAN /\ thrown \in BOOLEAN
  BY DEF RuntimeInit
<1> QED BY <1>4, <1>5, <1>7, <1>8, <1>9, <1>10, <1>11 DEF RuntimeInv

LEMMA FlushedNow ==
  ASSUME MaxCalls \in Nat, RuntimeInv, NEW throws \in BOOLEAN
  PROVE  LET r == flushNow(Own, throws)
         IN /\ r \in Runtimes /\ Streams(r) /\ r.thrown \in BOOLEAN
            /\ \A event \in Events : Knows(r, event) <=> Knows(Own, event)
<1>1. LET r == flushNow(Own, throws)
      IN /\ r \in Runtimes /\ Streams(r)
         /\ \A event \in Events : Knows(r, event) <=> Knows(Own, event)
  BY FlushStreams DEF RuntimeInv
<1> QED BY <1>1 DEF Runtimes

LEMMA FlushKeeps ==
  ASSUME MaxCalls \in Nat, RuntimeInv, Flush \/ safeFlushOnLifecycle \/ onopen
  PROVE  RuntimeInv'
<1>1. PICK throws \in BOOLEAN :
        LET r == flushNow(Own, throws)
        IN /\ Set(r) /\ thrown' \in {thrown, r.thrown, thrown \/ r.thrown}
           /\ thrown' \/ ~thrown
  <2>1. CASE Flush
    BY <2>1 DEF Flush
  <2>2. CASE safeFlushOnLifecycle
    BY <2>2 DEF safeFlushOnLifecycle, RuntimeInv
  <2>3. CASE onopen
    BY <2>3 DEF onopen, RuntimeInv
  <2> QED BY <2>1, <2>2, <2>3
<1>2. /\ ready' \in {"CONNECTING", "OPEN", "CLOSING", "CLOSED"}
      /\ UNCHANGED <<stopped, calls>>
  BY DEF RuntimeInv, Flush, safeFlushOnLifecycle, onopen
<1>3. LET r == flushNow(Own, throws)
      IN /\ r \in Runtimes /\ Streams(r) /\ r.thrown \in BOOLEAN
         /\ \A event \in Events : Knows(r, event) <=> Knows(Own, event)
  BY FlushedNow
<1>4. thrown \in BOOLEAN
  BY DEF RuntimeInv
<1>5. thrown' \in BOOLEAN
  BY <1>1, <1>3, <1>4
<1> QED BY <1>1, <1>2, <1>3, <1>5, MovesOn

LEMMA DeadlineKeeps ==
  ASSUME MaxCalls \in Nat, RuntimeInv, onFlushDeadline
  PROVE  RuntimeInv'
<1> DEFINE due == [Own EXCEPT !.timer = FALSE]
<1>1. PICK throws \in BOOLEAN :
        LET r == flushNow(due, throws)
        IN /\ Set(r) \/ Set(armDeadline(r))
           /\ thrown' = (thrown \/ r.thrown)
  BY DEF onFlushDeadline
<1>2. /\ ready' \in {"CONNECTING", "OPEN", "CLOSING", "CLOSED"}
      /\ UNCHANGED <<stopped, calls>>
  BY DEF RuntimeInv, onFlushDeadline
<1>3. /\ due \in Runtimes /\ due.heard = Own.heard /\ due.queue = Own.queue
      /\ due.dropped = Own.dropped
  <2>1. Own \in Runtimes /\ FALSE \in BOOLEAN
    BY DEF RuntimeInv
  <2> QED BY <2>1, Timed
<1>4. Streams(due) /\ \A event \in Events : Knows(due, event) <=> Knows(Own, event)
  BY <1>3, SameStreams DEF RuntimeInv
<1> DEFINE flushed == flushNow(due, throws)
<1> HIDE DEF due
<1>5. /\ flushed \in Runtimes /\ Streams(flushed)
      /\ \A event \in Events : Knows(flushed, event) <=> Knows(Own, event)
  BY <1>3, <1>4, FlushStreams
<1> HIDE DEF flushed
<1>6. (thrown' \in BOOLEAN) /\ (thrown' \/ ~thrown)
  BY <1>1, <1>5 DEF RuntimeInv, Runtimes, flushed
<1>7. CASE Set(flushed)
  BY <1>2, <1>5, <1>6, <1>7, MovesOn
<1>8. CASE Set(armDeadline(flushed))
  <2> DEFINE s == armDeadline(flushed)
  <2>1. /\ s \in Runtimes /\ s.heard = flushed.heard /\ s.queue = flushed.queue /\ s.dropped = flushed.dropped
    BY <1>5, Armed DEF RuntimeInv
  <2> HIDE DEF s
  <2>2. Streams(s) /\ \A event \in Events : Knows(s, event) <=> Knows(Own, event)
    BY <1>5, <2>1, SameStreams
  <2>3. Set(s)
    BY <1>8 DEF s
  <2> QED BY <1>2, <1>6, <2>1, <2>2, <2>3, MovesOn
<1> QED BY <1>1, <1>7, <1>8 DEF flushed

LEMMA CallKeeps ==
  ASSUME MaxCalls \in Nat, RuntimeInv, Call
  PROVE  RuntimeInv'
<1>1. PICK kind \in Kinds, throws \in BOOLEAN :
        LET r == enqueue(Own, Event(kind, calls + 1), throws)
        IN Set(r) /\ thrown' = r.thrown
  BY DEF Call
<1> DEFINE event == Event(kind, calls + 1)
           r == enqueue(Own, event, throws)
<1>2. /\ calls < MaxCalls /\ ~thrown /\ calls' = calls + 1
      /\ UNCHANGED <<ready, opening, stopped>>
  BY DEF Call
<1>3. /\ event \in Events /\ event.n = calls + 1 /\ Order(event) = calls + 2
      /\ calls \in Nat /\ calls' \in 0..MaxCalls
  <2>1. calls \in Nat /\ calls + 1 \in 0..MaxCalls
    BY <1>2 DEF RuntimeInv
  <2>2. event \in Events /\ event.n = calls + 1 /\ Order(event) = calls + 1 + 1
    BY <2>1, EventsOf
  <2> QED BY <1>2, <2>1, <2>2
<1> HIDE DEF event
<1>4. CASE stopped
  <2>1. r = Own
    BY <1>4 DEF enqueue
  <2>2. Own \in Runtimes /\ Streams(Own) /\ Set(Own)
    BY <1>1, <2>1 DEF RuntimeInv, event
  <2>3. Own' \in Runtimes /\ Streams(Own)' /\ flushTimer' \in BOOLEAN
    BY <2>2, SetStreams
  <2>4. thrown' = FALSE
    BY <1>1, <2>1, OwnWhole DEF event
  <2> QED BY <1>2, <1>3, <1>4, <2>3, <2>4 DEF RuntimeInv
<1>5. CASE ~stopped
  <2>1. /\ Own \in Runtimes /\ Streams(Own) /\ Below(Own, calls + 1) /\ HasCalls(Own, calls)
        /\ stopped = FALSE /\ calls + 1 \in Nat /\ Order(event) > calls + 1
    BY <1>2, <1>3, <1>5 DEF RuntimeInv
  <2>2. /\ r \in Runtimes /\ Streams(r)
        /\ \A x \in Events : Knows(r, x) <=> Knows(Own, x) \/ x = event
    <3>1. r = enqueue(Own, event, throws)
      OBVIOUS
    <3> DEFINE bound == calls + 1
    <3>2. Below(Own, bound) /\ bound \in Nat /\ Order(event) > bound
      BY <2>1
    <3> HIDE DEF r, bound
    <3>3. Adds(Own, r, event)
      BY <1>3, <2>1, <3>1, <3>2, EnqueueStreams
    <3> QED BY <3>3 DEF Adds
  <2>3. Set(r) /\ thrown' = r.thrown
    BY <1>1 DEF event
  <2> HIDE DEF r
  <2>4. /\ Own' \in Runtimes /\ Streams(Own)' /\ flushTimer' \in BOOLEAN
        /\ \A x \in Events : Knows(Own', x) <=> Knows(Own, x) \/ x = event
    BY <2>2, <2>3, SetStreams
  <2>5. HasCalls(Own', calls')
    <3> SUFFICES ASSUME NEW k \in 1..calls'
                 PROVE  \E x \in Events : Knows(Own', x) /\ x.n = k
      BY DEF HasCalls
    <3>1. k \in 1..calls \/ k = calls + 1
      BY <1>2, <1>3
    <3>2. CASE k \in 1..calls
      BY <2>1, <2>4, <3>2 DEF HasCalls
    <3>3. CASE k = calls + 1
      BY <1>3, <2>4, <3>3
    <3> QED BY <3>1, <3>2, <3>3
  <2>6. Below(Own', calls' + 1)
    <3> SUFFICES ASSUME NEW x \in Events, Knows(Own', x)
                 PROVE  Order(x) <= calls' + 1
      BY DEF Below
    <3>1. Order(x) \in Nat
      BY Ordered
    <3>2. CASE Knows(Own, x)
      BY <1>2, <1>3, <2>1, <3>1, <3>2 DEF Below
    <3>3. CASE x = event
      BY <1>2, <1>3, <3>3
    <3> QED BY <2>4, <3>2, <3>3
  <2>7. HasCalls(Own, calls)' /\ Below(Own, calls + 1)'
    BY <2>5, <2>6 DEF HasCalls, Below, Knows, Told
  <2>8. thrown' \in BOOLEAN
    BY <2>2, <2>3 DEF Runtimes
  <2> QED BY <1>2, <1>3, <2>4, <2>7, <2>8 DEF RuntimeInv
<1> QED BY <1>4, <1>5

LEMMA StopKeeps ==
  ASSUME MaxCalls \in Nat, RuntimeInv, stop
  PROVE  RuntimeInv'
<1> DEFINE event == Event(SessionEnd, 0)
<1>1. PICK throws \in BOOLEAN :
        LET ended == enqueue(Own, event, throws)
            r == IF ended.thrown THEN ended ELSE flushNow(ended, throws)
        IN IF r.thrown THEN Set(r) /\ thrown' = TRUE /\ UNCHANGED <<stopped, ready>>
           ELSE /\ Set([r EXCEPT !.timer = FALSE]) /\ stopped' = TRUE
                /\ ready' = IF ready = "CLOSED" THEN "CLOSED" ELSE "CLOSING"
                /\ UNCHANGED thrown
  BY DEF stop
<1>2. event \in Events /\ Order(event) = MaxCalls + 2 /\ stopped = FALSE /\ calls' = calls
  BY EventsOf DEF stop, RuntimeInv
<1> HIDE DEF event
<1>3. /\ Own \in Runtimes /\ Streams(Own) /\ Below(Own, calls + 1) /\ HasCalls(Own, calls)
      /\ calls \in Nat /\ calls + 1 \in Nat /\ Order(event) > calls + 1
  BY <1>2 DEF RuntimeInv, stop
<1> DEFINE ended == enqueue(Own, event, throws)
<1>4. /\ ended \in Runtimes /\ Streams(ended)
      /\ \A x \in Events : Knows(ended, x) <=> Knows(Own, x) \/ x = event
  <2>1. ended = enqueue(Own, event, throws)
    OBVIOUS
  <2> DEFINE bound == calls + 1
  <2>2. Below(Own, bound) /\ bound \in Nat /\ Order(event) > bound
    BY <1>3
  <2> HIDE DEF ended, bound
  <2>3. Adds(Own, ended, event)
    BY <1>2, <1>3, <2>1, <2>2, EnqueueStreams
  <2> QED BY <2>3 DEF Adds
<1> HIDE DEF ended
<1> DEFINE last == IF ended.thrown THEN ended ELSE flushNow(ended, throws)
<1>5. /\ last \in Runtimes /\ Streams(last)
      /\ \A x \in Events : Knows(last, x) <=> Knows(Own, x) \/ x = event
  <2>1. CASE ended.thrown
    BY <1>4, <2>1
  <2>2. CASE ~ended.thrown
    <3>1. last = flushNow(ended, throws)
      BY <2>2
    <3>2. LET s == flushNow(ended, throws)
          IN /\ s \in Runtimes /\ Streams(s)
             /\ \A x \in Events : Knows(s, x) <=> Knows(ended, x)
      BY <1>4, FlushStreams
    <3> HIDE DEF last
    <3> QED BY <1>4, <3>1, <3>2
  <2> QED BY <2>1, <2>2
<1>6. IF last.thrown THEN Set(last) /\ thrown' = TRUE /\ UNCHANGED <<stopped, ready>>
      ELSE /\ Set([last EXCEPT !.timer = FALSE]) /\ stopped' = TRUE
           /\ ready' = IF ready = "CLOSED" THEN "CLOSED" ELSE "CLOSING"
           /\ UNCHANGED thrown
  BY <1>1 DEF ended
<1> HIDE DEF last
<1>7. CASE last.thrown
  <2>1. Set(last) /\ thrown' = TRUE /\ UNCHANGED <<stopped, ready>>
    BY <1>6, <1>7
  <2>2. /\ Own' \in Runtimes /\ Streams(Own)' /\ flushTimer' \in BOOLEAN
        /\ \A x \in Events : Knows(Own', x) <=> Knows(last, x)
    BY <1>5, <2>1, SetStreams
  <2>3. HasCalls(Own', calls)
    BY <1>3, <1>5, <2>2 DEF HasCalls
  <2>4. HasCalls(Own, calls)'
    BY <1>2, <2>3 DEF HasCalls, Knows, Told
  <2> QED BY <1>2, <2>1, <2>2, <2>4 DEF RuntimeInv
<1>8. CASE ~last.thrown
  <2> DEFINE over == [last EXCEPT !.timer = FALSE]
  <2>1. /\ Set(over) /\ stopped' = TRUE
        /\ ready' = IF ready = "CLOSED" THEN "CLOSED" ELSE "CLOSING"
        /\ UNCHANGED thrown
    BY <1>6, <1>8
  <2>2. /\ over \in Runtimes /\ over.heard = last.heard /\ over.queue = last.queue
        /\ over.dropped = last.dropped
    BY <1>5, FALSE \in BOOLEAN, Timed
  <2> HIDE DEF over
  <2>3. Streams(over)
    BY <1>5, <2>2, SameStreams
  <2>4. Own' \in Runtimes /\ Streams(Own)' /\ flushTimer' \in BOOLEAN
    BY <2>1, <2>2, <2>3, SetStreams
  <2>5. ready' \in {"CONNECTING", "OPEN", "CLOSING", "CLOSED"}
    BY <2>1
  <2>6. stopped' \in BOOLEAN /\ thrown' \in BOOLEAN
    BY <2>1 DEF RuntimeInv
  <2> QED BY <1>2, <2>1, <2>4, <2>5, <2>6 DEF RuntimeInv
<1> QED BY <1>7, <1>8

LEMMA SocketKeeps ==
  ASSUME RuntimeInv, Opens \/ Closes
  PROVE  RuntimeInv'
<1>1. Own' = Own /\ UNCHANGED <<flushTimer, stopped, calls, thrown>>
  BY DEF Opens, Closes, Own
<1>2. Streams(Own)' /\ (HasCalls(Own, calls) => HasCalls(Own, calls)')
      /\ (Below(Own, calls + 1) => Below(Own, calls + 1)')
  BY <1>1 DEF RuntimeInv, Streams, HasCalls, Below, Knows, Told
<1>3. ready' \in {"CONNECTING", "OPEN", "CLOSING", "CLOSED"}
  BY DEF Opens, Closes
<1> QED BY <1>1, <1>2, <1>3 DEF RuntimeInv

LEMMA StutterKeeps ==
  ASSUME RuntimeInv, UNCHANGED traced
  PROVE  RuntimeInv'
<1>1. Own' = Own /\ UNCHANGED <<ready, flushTimer, stopped, calls, thrown>>
  BY DEF traced, Own
<1>2. Streams(Own)' /\ (HasCalls(Own, calls) => HasCalls(Own, calls)')
      /\ (Below(Own, calls + 1) => Below(Own, calls + 1)')
  BY <1>1 DEF RuntimeInv, Streams, HasCalls, Below, Knows, Told
<1> QED BY <1>1, <1>2 DEF RuntimeInv

LEMMA StreamHolds ==
  ASSUME MaxCalls \in Nat, RuntimeInv
  PROVE  RuntimeTypeOK /\ HeardInOrder
<1> DEFINE told == heard \o unsent
           known == ToSet(told) \cup dropped
<1>1. /\ Own \in Runtimes /\ Streams(Own) /\ Told(Own) = told /\ Own.dropped = dropped
      /\ Own.queue = unsent /\ Own.heard = heard
  BY OwnWhole DEF RuntimeInv, Told
<1>2. /\ unsent \in Seq(Events) /\ heard \in Seq(Events) /\ dropped \subseteq Events
      /\ told \in Seq(Events)
  <2>1. unsent \in Seq(Events) /\ heard \in Seq(Events) /\ dropped \subseteq Events
    BY <1>1 DEF Runtimes
  <2> QED BY <2>1, ConcatProperties
<1>3. RuntimeTypeOK
  BY <1>2 DEF RuntimeTypeOK, RuntimeInv
<1> HIDE DEF told
<1>4. DOMAIN told = 1..Len(told) /\ Len(told) \in Nat
  BY <1>2
<1>5. \A x : x \in ToSet(told) <=> \E i \in 1..Len(told) : told[i] = x
  BY <1>4 DEF ToSet
<1>6. \A i, j \in DOMAIN told : i < j => Order(told[i]) < Order(told[j])
  BY <1>1, <1>4 DEF Streams
<1>7. \A event \in dropped : event \notin ToSet(told)
  BY <1>1, <1>5 DEF Streams
<1>8. \A event \in Events : Knows(Own, event) => event \in known
  BY <1>1, <1>5 DEF Knows
<1>9. ~stopped => \A n \in 1..calls : \E event \in known : event.n = n
  BY <1>8 DEF RuntimeInv, HasCalls
<1>10. dropped = {} /\ heard # <<>> => heard[1].kind = SessionStart
  <2> SUFFICES ASSUME dropped = {}, heard # <<>>
               PROVE  heard[1].kind = SessionStart
    OBVIOUS
  <2>1. told[1].kind = SessionStart
    BY <1>1 DEF Streams
  <2>2. 1 \in 1..Len(heard)
    BY <1>2
  <2>3. told[1] = heard[1]
    BY <1>2, <2>2, ConcatWhole DEF told
  <2> QED BY <2>1, <2>3
<1> QED BY <1>3, <1>6, <1>7, <1>9, <1>10 DEF HeardInOrder, told

LEMMA RuntimeKeeps ==
  ASSUME MaxCalls \in Nat, RuntimeInv, [RuntimeNext]_traced
  PROVE  RuntimeInv'
  BY CallKeeps, FlushKeeps, DeadlineKeeps, StopKeeps, SocketKeeps, StutterKeeps DEF RuntimeNext

(* Whatever the threshold and however many calls, and whatever throws: the *)
(* daemon hears the session from its start, in the page's order, each event*)
(* once, and misses only the batches whose send threw (enqueue, flushNow,  *)
(* stop).                                                                  *)
THEOREM HeardAlwaysInOrder ==
  ASSUME MaxCalls \in Nat
  PROVE  RuntimeSpec => [](RuntimeTypeOK /\ HeardInOrder)
<1>1. RuntimeInit => RuntimeInv
  BY RuntimeStarts
<1>2. RuntimeInv /\ [RuntimeNext]_traced => RuntimeInv'
  BY RuntimeKeeps
<1>3. RuntimeInv => RuntimeTypeOK /\ HeardInOrder
  BY StreamHolds
<1> QED BY <1>1, <1>2, <1>3, PTL DEF RuntimeSpec

-----------------------------------------------------------------------------
(* With nothing in the queue that cannot be written, no flush throws.      *)
Writable == "unwritable key" \notin Edges
Awaited == ~thrown /\ NothingStranded

LEMMA FlushEmpties ==
  ASSUME Writable, NEW r \in Runtimes, NEW throws \in BOOLEAN, r.thrown = FALSE
  PROVE  LET s == flushNow(r, throws)
         IN s.thrown = FALSE /\ (ready = "OPEN" => s.queue = <<>>)
<1>1. r.queue \in Seq(Events)
  BY DEF Runtimes
<1>2. \A event \in Events : event.kind # "BigKey"
  BY DEF Events, Kinds, Writable, SessionStart, Manifest, SessionEnd
<1>3. ~Unwritable(r.queue)
  BY <1>1, <1>2 DEF Unwritable, ToSet
<1>4. CASE ready # "OPEN" \/ r.queue = <<>>
  BY <1>4 DEF flushNow
<1>5. CASE ~(ready # "OPEN" \/ r.queue = <<>>)
  <2>1. CASE throws
    BY <1>3, <1>5, <2>1 DEF flushNow, Runtimes
  <2>2. CASE ~throws
    BY <1>3, <1>5, <2>2 DEF flushNow, Runtimes
  <2> QED BY <2>1, <2>2
<1> QED BY <1>4, <1>5

(* What waits after an event is queued has a deadline: the batch's first   *)
(* event arms it.                                                          *)
LEMMA EnqueueAwaits ==
  ASSUME Writable, stopped \in BOOLEAN, NEW r \in Runtimes, r.thrown = FALSE,
         NEW event \in Events, NEW throws \in BOOLEAN
  PROVE  LET s == enqueue(r, event, throws)
         IN /\ s.thrown = FALSE
            /\ flushIntervalMs > 0 /\ ready = "OPEN" /\ ~stopped /\ s.queue # <<>> =>
                 s.timer \/ (r.queue # <<>> /\ s.timer = r.timer)
<1> DEFINE queued == [r EXCEPT !.queue = Append(@, event)]
           s == enqueue(r, event, throws)
<1>1. r.queue \in Seq(Events) /\ Append(r.queue, event) \in Seq(Events)
  BY AppendProperties DEF Runtimes
<1>2. /\ queued \in Runtimes /\ queued.queue = Append(r.queue, event)
      /\ queued.thrown = FALSE /\ queued.timer = r.timer
  <2>1. queued = [r EXCEPT !.queue = Append(r.queue, event)]
    BY DEF Runtimes
  <2> HIDE DEF queued
  <2> QED BY <1>1, <2>1, Changed
<1>3. Len(queued.queue) = 1 \/ r.queue # <<>>
  BY <1>1, <1>2
<1>4. \/ stopped /\ s = r
      \/ s = flushNow(queued, throws)
      \/ Len(queued.queue) = 1 /\ s = armDeadline(queued)
      \/ Len(queued.queue) # 1 /\ s = queued
  BY DEF enqueue
<1> HIDE DEF queued, s
<1>5. CASE stopped /\ s = r
  BY <1>5 DEF s
<1>6. CASE s = flushNow(queued, throws)
  BY <1>2, <1>6, FlushEmpties DEF s
<1>7. CASE s = armDeadline(queued)
  BY <1>2, <1>7, Armed DEF s
<1>8. CASE Len(queued.queue) # 1 /\ s = queued
  BY <1>2, <1>3, <1>8 DEF s
<1> QED BY <1>4, <1>5, <1>6, <1>7, <1>8

LEMMA AwaitedKeeps ==
  ASSUME MaxCalls \in Nat, Writable, RuntimeInv, Awaited, [RuntimeNext]_traced
  PROVE  Awaited'
<1>1. /\ Own \in Runtimes /\ Own.thrown = FALSE /\ Own.queue = unsent /\ Own.timer = flushTimer
      /\ stopped \in BOOLEAN /\ thrown = FALSE /\ flushTimer \in BOOLEAN
  BY OwnWhole DEF RuntimeInv, Awaited
<1>2. CASE Call
  <2>1. PICK kind \in Kinds, throws \in BOOLEAN :
          LET r == enqueue(Own, Event(kind, calls + 1), throws)
          IN Set(r) /\ thrown' = r.thrown
    BY <1>2 DEF Call
  <2> DEFINE event == Event(kind, calls + 1)
             r == enqueue(Own, event, throws)
  <2>2. event \in Events
    <3>1. calls + 1 \in 0..MaxCalls
      BY <1>2 DEF Call, RuntimeInv
    <3> QED BY <3>1, EventsOf
  <2> HIDE DEF event
  <2>3. /\ r.thrown = FALSE
        /\ flushIntervalMs > 0 /\ ready = "OPEN" /\ ~stopped /\ r.queue # <<>> =>
             r.timer \/ (unsent # <<>> /\ r.timer = flushTimer)
    BY <1>1, <2>2, EnqueueAwaits
  <2>4. Set(r) /\ thrown' = r.thrown /\ UNCHANGED <<ready, opening, stopped>>
    BY <1>2, <2>1 DEF Call, event
  <2> HIDE DEF r
  <2>5. /\ unsent' = r.queue /\ flushTimer' = r.timer /\ thrown' = FALSE
        /\ UNCHANGED <<ready, opening, stopped>>
    BY <2>3, <2>4 DEF Set
  <2>6. flushIntervalMs > 0 /\ ready = "OPEN" /\ unsent # <<>> /\ ~stopped =>
          flushTimer \/ opening
    BY DEF Awaited, NothingStranded
  <2>7. flushIntervalMs > 0 /\ ready' = "OPEN" /\ unsent' # <<>> /\ ~stopped' =>
          flushTimer' \/ opening'
    BY <2>3, <2>5, <2>6
  <2> QED BY <2>5, <2>7 DEF Awaited, NothingStranded
<1>3. CASE Flush \/ safeFlushOnLifecycle \/ onopen
  <2>1. PICK throws \in BOOLEAN :
          LET r == flushNow(Own, throws)
          IN Set(r) /\ (thrown' = r.thrown \/ thrown' = thrown \/ thrown' = (thrown \/ r.thrown))
    <3>1. CASE Flush
      BY <3>1 DEF Flush
    <3>2. CASE safeFlushOnLifecycle
      BY <3>2 DEF safeFlushOnLifecycle
    <3>3. CASE onopen
      BY <3>3 DEF onopen
    <3> QED BY <1>3, <3>1, <3>2, <3>3
  <2>2. ready' = ready
    BY <1>3 DEF Flush, safeFlushOnLifecycle, onopen
  <2> DEFINE r == flushNow(Own, throws)
  <2>3. r.thrown = FALSE /\ (ready = "OPEN" => r.queue = <<>>)
    BY <1>1, FlushEmpties
  <2>4. Set(r) /\ (thrown' = r.thrown \/ thrown' = thrown \/ thrown' = (thrown \/ r.thrown))
    BY <2>1
  <2> HIDE DEF r
  <2>5. unsent' = r.queue /\ ~thrown'
    BY <1>1, <2>3, <2>4 DEF Set
  <2> QED BY <2>2, <2>3, <2>5 DEF Awaited, NothingStranded
<1>4. CASE onFlushDeadline
  <2> DEFINE due == [Own EXCEPT !.timer = FALSE]
  <2>1. PICK throws \in BOOLEAN :
          LET r == flushNow(due, throws)
          IN (Set(r) \/ Set(armDeadline(r))) /\ thrown' = (thrown \/ r.thrown)
    BY <1>4 DEF onFlushDeadline
  <2>2. due \in Runtimes /\ due.thrown = FALSE
    BY <1>1, FALSE \in BOOLEAN, Timed
  <2> DEFINE r == flushNow(due, throws)
  <2> HIDE DEF due
  <2>3. r.thrown = FALSE /\ (ready = "OPEN" => r.queue = <<>>)
    BY <2>2, FlushEmpties
  <2>4. (Set(r) \/ Set(armDeadline(r))) /\ thrown' = (thrown \/ r.thrown)
    BY <2>1
  <2>5. \E s \in {r, armDeadline(r)} : Set(s)
    BY <2>4
  <2>6. r \in Runtimes => armDeadline(r).queue = r.queue
    BY <1>1, Armed
  <2>7. r \in Runtimes
    <3>1. due.heard = Own.heard /\ due.queue = Own.queue /\ due.dropped = Own.dropped
      BY <1>1, FALSE \in BOOLEAN, Timed DEF due
    <3>2. Streams(due)
      BY <1>1, <2>2, <3>1, SameStreams DEF RuntimeInv
    <3> QED BY <2>2, <3>2, FlushStreams
  <2> HIDE DEF r
  <2>8. unsent' = r.queue /\ ~thrown'
    BY <1>1, <2>3, <2>4, <2>6, <2>7 DEF Set
  <2>9. ready' = ready
    BY <1>4 DEF onFlushDeadline
  <2> QED BY <2>3, <2>8, <2>9 DEF Awaited, NothingStranded
<1>5. CASE stop
  <2> DEFINE event == Event(SessionEnd, 0)
  <2>1. PICK throws \in BOOLEAN :
          LET ended == enqueue(Own, event, throws)
              r == IF ended.thrown THEN ended ELSE flushNow(ended, throws)
          IN IF r.thrown THEN Set(r) /\ thrown' = TRUE /\ UNCHANGED <<stopped, ready>>
             ELSE /\ Set([r EXCEPT !.timer = FALSE]) /\ stopped' = TRUE
                  /\ ready' = IF ready = "CLOSED" THEN "CLOSED" ELSE "CLOSING"
                  /\ UNCHANGED thrown
    BY <1>5 DEF stop
  <2>2. event \in Events /\ Order(event) = MaxCalls + 2 /\ stopped = FALSE
    BY <1>1, <1>5, EventsOf DEF stop
  <2> HIDE DEF event
  <2>3. /\ Streams(Own) /\ Below(Own, calls + 1)
        /\ calls + 1 \in Nat /\ Order(event) > calls + 1
    BY <1>5, <2>2 DEF RuntimeInv, stop
  <2> DEFINE ended == enqueue(Own, event, throws)
  <2>4. ended.thrown = FALSE
    BY <1>1, <2>2, EnqueueAwaits
  <2>5. ended \in Runtimes
    <3>1. ended = enqueue(Own, event, throws)
      OBVIOUS
    <3> DEFINE bound == calls + 1
    <3>2. Below(Own, bound) /\ bound \in Nat /\ Order(event) > bound
      BY <2>3
    <3> HIDE DEF ended, bound
    <3>3. Adds(Own, ended, event)
      BY <1>1, <2>2, <2>3, <3>1, <3>2, EnqueueStreams
    <3> QED BY <3>3 DEF Adds
  <2> DEFINE last == IF ended.thrown THEN ended ELSE flushNow(ended, throws)
  <2>6. IF last.thrown THEN Set(last) /\ thrown' = TRUE /\ UNCHANGED <<stopped, ready>>
        ELSE /\ Set([last EXCEPT !.timer = FALSE]) /\ stopped' = TRUE
             /\ ready' = IF ready = "CLOSED" THEN "CLOSED" ELSE "CLOSING"
             /\ UNCHANGED thrown
    BY <2>1
  <2> HIDE DEF ended
  <2>7. last.thrown = FALSE
    <3>1. last = flushNow(ended, throws)
      BY <2>4
    <3>2. flushNow(ended, throws).thrown = FALSE
      BY <2>4, <2>5, FlushEmpties
    <3> HIDE DEF last
    <3> QED BY <3>1, <3>2
  <2> HIDE DEF last
  <2>8. stopped' = TRUE /\ thrown' = thrown
    BY <2>6, <2>7
  <2> QED BY <1>1, <2>8 DEF Awaited, NothingStranded
<1>6. CASE Opens \/ Closes
  BY <1>1, <1>6 DEF Opens, Closes, Awaited, NothingStranded
<1>7. CASE UNCHANGED traced
  BY <1>7 DEF traced, Awaited, NothingStranded
<1> QED BY <1>2, <1>3, <1>4, <1>5, <1>6, <1>7 DEF RuntimeNext

(* Where every event can be written, the daemon hears the session whole    *)
(* and in order; with a flush interval, nothing waits in an open socket's  *)
(* queue without a deadline, or the socket's open event, to send it; and   *)
(* no call of the runtime throws into the page (enqueue, flushNow,         *)
(* armFlushTimer, stop).                                                   *)
THEOREM StreamIsWhole ==
  ASSUME MaxCalls \in Nat, "unwritable key" \notin Edges
  PROVE  RuntimeSpec => [](StreamWhole /\ NeverThrowsIntoPage)
<1>1. Writable
  BY DEF Writable
<1>2. RuntimeInit => RuntimeInv /\ Awaited
  <2>1. RuntimeInit => Awaited
    BY DEF RuntimeInit, Awaited, NothingStranded
  <2> QED BY <2>1, RuntimeStarts
<1>3. RuntimeInv /\ Awaited /\ [RuntimeNext]_traced => (RuntimeInv /\ Awaited)'
  BY <1>1, RuntimeKeeps, AwaitedKeeps
<1>4. RuntimeInv /\ Awaited => StreamWhole /\ NeverThrowsIntoPage
  BY StreamHolds DEF Awaited, StreamWhole, NeverThrowsIntoPage
<1> QED BY <1>2, <1>3, <1>4, PTL DEF RuntimeSpec

-----------------------------------------------------------------------------
(* A report leaves only by the page's consent: the invariant says of each  *)
(* report what was decided of it (one that was not answered has not gone), *)
(* that the errors of the reports are distinct (seen holds them all), and  *)
(* counts the two sets the counters tell apart: the reports that wait for  *)
(* an answer, and the uploads in flight.                                   *)
Reasons == {none, "disabled", "dnt", "no-endpoint", "no-fetch", "failed", "stopped"}
Statuses == [state : {"on", "off"}, reason : Reasons, captured : Nat, sent : Nat,
             accepted : Nat, declined : Nat, failed : Nat]
Entries == [report : [error : Errors, holed : BOOLEAN], shown : BOOLEAN,
            answer : {none} \cup Answers, sent : BOOLEAN, answered : BOOLEAN, mayGo : BOOLEAN]

WaitingOf(r) == {n \in DOMAIN r : ~r[n].answered}
FlyingOf(r) == {n \in DOMAIN r : r[n].sent}
Guarded(s) == IF s.reason = "failed" THEN 1 ELSE 0

(* What is known of a report on its own.                                   *)
Known(e, keys) ==
  /\ e.report.holed = (e.report.error \in Sensitive) /\ e.report.error \in keys
  /\ ~e.answered => ~e.sent /\ ~e.mayGo

Counted(s, r) ==
  /\ s.captured = Cardinality(WaitingOf(r)) + s.declined + s.sent
  /\ s.sent + Guarded(s) = Cardinality(FlyingOf(r)) + s.accepted + s.failed

Kept(s, keys, r) ==
  /\ s \in Statuses /\ keys \subseteq Errors /\ r \in [1..s.captured -> Entries]
  /\ s.state = "on" => s.reason = none
  /\ s.captured <= maxReports
  /\ \A n \in 1..s.captured : Known(r[n], keys)
  /\ \A m, n \in 1..s.captured : m # n => r[m].report.error # r[n].report.error
  /\ Counted(s, r)

ReporterInv == signal \in BOOLEAN /\ callback \in {none} \cup Answers /\ Kept(status, seen, reports)
-----------------------------------------------------------------------------
LEMMA SetsFinite == ASSUME NEW c \in Nat, NEW r \in [1..c -> Entries]
  PROVE /\ IsFiniteSet(WaitingOf(r)) /\ Cardinality(WaitingOf(r)) \in Nat
        /\ IsFiniteSet(FlyingOf(r)) /\ Cardinality(FlyingOf(r)) \in Nat
<1>1. IsFiniteSet(1..c)
  BY FS_Interval
<1>2. WaitingOf(r) \in SUBSET (1..c) /\ FlyingOf(r) \in SUBSET (1..c)
  BY DEF WaitingOf, FlyingOf
<1>. QED BY <1>1, <1>2, FS_Subset, FS_CardinalityType

(* A decision is a sent report, which only a yes without a signal to a     *)
(* reporter that is on makes it, or a declined one.                        *)
Sends(s, e, d) ==
  /\ ~signal /\ s.state = "on"
  /\ d.status = [s EXCEPT !.sent = @ + 1]
  /\ d.entry = [e EXCEPT !.answered = TRUE, !.sent = TRUE, !.mayGo = TRUE]
Declines(s, e, d) ==
  /\ d.status = [s EXCEPT !.declined = @ + 1] /\ d.entry = [e EXCEPT !.answered = TRUE]

LEMMA Decision == ASSUME NEW s \in Statuses, NEW e \in Entries, NEW yes \in BOOLEAN
  PROVE (yes /\ Sends(s, e, decide(s, e, yes))) \/ Declines(s, e, decide(s, e, yes))
<1>1. CASE yes /\ ~(signal \/ s.state # "on")
  BY <1>1 DEF Sends, decide, upload
<1>2. CASE ~(yes /\ ~(signal \/ s.state # "on"))
  BY <1>2 DEF Declines, decide, upload
<1>. QED BY <1>1, <1>2

LEMMA EntryDecided == ASSUME NEW e \in Entries, NEW x,
    \/ x = [e EXCEPT !.answered = TRUE, !.sent = TRUE, !.mayGo = TRUE]
    \/ x = [e EXCEPT !.answered = TRUE]
  PROVE x \in Entries /\ x.answered /\ x.report = e.report /\ x.answer = e.answer
<1>1. CASE x = [e EXCEPT !.answered = TRUE, !.sent = TRUE, !.mayGo = TRUE]
  BY <1>1 DEF Entries
<1>2. CASE x = [e EXCEPT !.answered = TRUE]
  BY <1>2 DEF Entries
<1>. QED BY <1>1, <1>2

LEMMA StatusDecided == ASSUME NEW s \in Statuses, NEW t,
    t = [s EXCEPT !.sent = @ + 1] \/ t = [s EXCEPT !.declined = @ + 1]
  PROVE /\ t \in Statuses /\ t.captured = s.captured /\ t.state = s.state
        /\ t.reason = s.reason /\ t.accepted = s.accepted /\ t.failed = s.failed
<1>1. CASE t = [s EXCEPT !.sent = @ + 1]
  BY <1>1 DEF Statuses
<1>2. CASE t = [s EXCEPT !.declined = @ + 1]
  BY <1>2 DEF Statuses
<1>. QED BY <1>1, <1>2

LEMMA Decided == ASSUME NEW s \in Statuses, NEW e \in Entries, NEW d,
    Sends(s, e, d) \/ Declines(s, e, d)
  PROVE /\ d.entry \in Entries /\ d.entry.answered /\ d.entry.report = e.report
        /\ d.entry.answer = e.answer
        /\ d.status \in Statuses /\ d.status.captured = s.captured /\ d.status.state = s.state
        /\ d.status.reason = s.reason /\ d.status.accepted = s.accepted
        /\ d.status.failed = s.failed
<1>1. \/ d.entry = [e EXCEPT !.answered = TRUE, !.sent = TRUE, !.mayGo = TRUE]
      \/ d.entry = [e EXCEPT !.answered = TRUE]
  BY DEF Sends, Declines
<1>2. d.status = [s EXCEPT !.sent = @ + 1] \/ d.status = [s EXCEPT !.declined = @ + 1]
  BY DEF Sends, Declines
<1>3. /\ d.entry \in Entries /\ d.entry.answered /\ d.entry.report = e.report
      /\ d.entry.answer = e.answer
  BY <1>1, EntryDecided, Zenon
<1>4. /\ d.status \in Statuses /\ d.status.captured = s.captured /\ d.status.state = s.state
      /\ d.status.reason = s.reason /\ d.status.accepted = s.accepted
      /\ d.status.failed = s.failed
  BY <1>2, StatusDecided, Zenon
<1>. QED BY <1>3, <1>4

(* Answering a report that waits keeps the books.                          *)
LEMMA Answered == ASSUME NEW s, NEW keys, NEW r, Kept(s, keys, r), NEW n \in 1..s.captured,
    ~r[n].answered, NEW d, Sends(s, r[n], d) \/ Declines(s, r[n], d)
  PROVE Kept(d.status, keys, [r EXCEPT ![n] = d.entry])
<1> DEFINE r2 == [r EXCEPT ![n] = d.entry]
           t == d.status
<1>1. s \in Statuses /\ r \in [1..s.captured -> Entries] /\ r[n] \in Entries
  BY DEF Kept
<1>2. ~r[n].sent /\ s.captured \in Nat
  BY <1>1 DEF Kept, Known, Statuses
<1>3. /\ d.entry \in Entries /\ d.entry.answered /\ d.entry.report = r[n].report
      /\ t \in Statuses /\ t.captured = s.captured /\ t.state = s.state /\ t.reason = s.reason
      /\ t.accepted = s.accepted /\ t.failed = s.failed
  BY <1>1, Decided
<1>4. \/ d.entry.sent /\ t.sent = s.sent + 1 /\ t.declined = s.declined
      \/ ~d.entry.sent /\ t.sent = s.sent /\ t.declined = s.declined + 1
  <2>1. CASE Sends(s, r[n], d)
    BY <1>1, <2>1 DEF Sends, Entries, Statuses
  <2>2. CASE Declines(s, r[n], d)
    BY <1>1, <1>2, <2>2 DEF Declines, Entries, Statuses
  <2>. QED BY <2>1, <2>2
<1> HIDE DEF t
<1>5. /\ r2 \in [1..t.captured -> Entries] /\ r2[n] = d.entry
      /\ \A m \in 1..s.captured : m # n => r2[m] = r[m]
  BY <1>1, <1>3
<1>6. WaitingOf(r2) = WaitingOf(r) \ {n} /\ n \in WaitingOf(r)
  BY <1>1, <1>3, <1>5 DEF WaitingOf
<1>7. n \notin FlyingOf(r) /\ FlyingOf(r2) = IF d.entry.sent THEN FlyingOf(r) \cup {n} ELSE FlyingOf(r)
  BY <1>1, <1>2, <1>3, <1>5 DEF FlyingOf
<1> HIDE DEF r2
<1>8. Cardinality(WaitingOf(r2)) = Cardinality(WaitingOf(r)) - 1
  BY <1>1, <1>2, <1>6, SetsFinite, FS_RemoveElement, ZenonT(60)
<1>9. Cardinality(FlyingOf(r2)) = IF d.entry.sent THEN Cardinality(FlyingOf(r)) + 1
                                  ELSE Cardinality(FlyingOf(r))
  BY <1>1, <1>2, <1>7, SetsFinite, FS_AddElement
<1>10. Cardinality(WaitingOf(r)) \in Nat /\ Cardinality(FlyingOf(r)) \in Nat
  BY <1>1, <1>2, SetsFinite
<1>11. Counted(t, r2)
  <2>1. Guarded(t) = Guarded(s) /\ Guarded(s) \in Nat
    BY <1>3 DEF Guarded
  <2>2. /\ s.captured \in Nat /\ s.declined \in Nat /\ s.sent \in Nat /\ s.accepted \in Nat /\ s.failed \in Nat
        /\ Counted(s, r)
    BY <1>1 DEF Statuses, Kept
  <2>3. t.captured = s.captured /\ t.accepted = s.accepted /\ t.failed = s.failed
    BY <1>3
  <2>4. CASE d.entry.sent
    <3>1. /\ t.sent = s.sent + 1 /\ t.declined = s.declined
          /\ Cardinality(FlyingOf(r2)) = Cardinality(FlyingOf(r)) + 1
      BY <1>4, <1>9, <2>4
    <3>. QED BY <3>1, <1>8, <1>10, <2>1, <2>2, <2>3 DEF Counted
  <2>5. CASE ~d.entry.sent
    <3>1. /\ t.sent = s.sent /\ t.declined = s.declined + 1
          /\ Cardinality(FlyingOf(r2)) = Cardinality(FlyingOf(r))
      BY <1>4, <1>9, <2>5
    <3>. QED BY <3>1, <1>8, <1>10, <2>1, <2>2, <2>3 DEF Counted
  <2>. QED BY <2>4, <2>5
<1>12. \A m \in 1..t.captured : Known(r2[m], keys)
  BY <1>3, <1>5 DEF Kept, Known
<1>13. \A l, m \in 1..t.captured : l # m => r2[l].report.error # r2[m].report.error
  <2>1. \A m \in 1..s.captured : r2[m].report = r[m].report
    BY <1>3, <1>5
  <2>. QED BY <1>3, <2>1 DEF Kept
<1>14. Kept(t, keys, r2)
  BY <1>3, <1>5, <1>11, <1>12, <1>13 DEF Kept
<1>. QED BY <1>14 DEF r2, t

(* A report captured, and asked about, keeps the books.                    *)
LEMMA Captured == ASSUME NEW error \in Errors, ReporterInv, capture(error),
    ~(status.state # "on" \/ ~Room \/ Key(scrubErrorReport(error)) \in seen),
    maxReports \in Nat
  PROVE LET c == status.captured + 1 IN
    /\ Kept(status', seen', reports') /\ reports' \in [1..c -> Entries]
    /\ \A n \in 1..status.captured : reports'[n] = reports[n]
    /\ DOMAIN reports = 1..status.captured
    /\ reports'[c].mayGo => reports'[c].answer = "yes" /\ ~signal /\ status.state = "on"
<1> DEFINE c == status.captured + 1
           s == [status EXCEPT !.captured = @ + 1]
           e == Entry(scrubErrorReport(error))
           asked == ask(s, e)
           shown == [e EXCEPT !.shown = callback # none, !.answer = callback]
<1>1. /\ status \in Statuses /\ reports \in [1..status.captured -> Entries] /\ seen \subseteq Errors
      /\ callback \in {none} \cup Answers /\ status.captured \in Nat /\ status.captured < maxReports
      /\ DOMAIN reports = 1..status.captured /\ status.state = "on"
  BY DEF ReporterInv, Kept, Statuses, Room
<1>2. /\ s \in Statuses /\ s.captured = c /\ s.state = status.state /\ s.reason = status.reason
      /\ s.sent = status.sent /\ s.declined = status.declined
      /\ s.accepted = status.accepted /\ s.failed = status.failed
  BY <1>1 DEF Statuses
<1>3. /\ seen' = seen \cup {error} /\ status' = asked.status
      /\ reports' = [n \in 1..s.captured |-> IF n \in DOMAIN reports THEN reports[n] ELSE asked.entry]
  BY DEF capture, Key, scrubErrorReport
<1>4. error \notin seen
  BY DEF Key, scrubErrorReport
<1>5. /\ shown \in Entries /\ shown.answer = callback /\ ~shown.answered /\ ~shown.sent /\ ~shown.mayGo
      /\ shown.report = [error |-> error, holed |-> error \in Sensitive]
  <2> DEFINE holed == error \in Sensitive
             shows == callback # none
  <2>1. /\ e = [report |-> [error |-> error, holed |-> holed], shown |-> FALSE, answer |-> none,
                sent |-> FALSE, answered |-> FALSE, mayGo |-> FALSE]
        /\ shown = [e EXCEPT !.shown = shows, !.answer = callback]
    BY DEF Entry, scrubErrorReport
  <2>2. holed \in BOOLEAN /\ shows \in BOOLEAN
    OBVIOUS
  <2> HIDE DEF holed, shows, e
  <2> HIDE DEF shown
  <2>3. shown = [report |-> [error |-> error, holed |-> holed], shown |-> shows, answer |-> callback,
                 sent |-> FALSE, answered |-> FALSE, mayGo |-> FALSE]
    BY <2>1
  <2>4. shown \in Entries
    BY <1>1, <2>2, <2>3 DEF Entries
  <2>. QED BY <2>3, <2>4 DEF holed
<1> HIDE DEF s, e, shown, c
<1>6. \/ asked.status = s /\ asked.entry = shown /\ callback = "promise"
      \/ callback = "yes" /\ Sends(s, shown, asked)
      \/ Declines(s, shown, asked)
  <2>1. CASE callback = "promise"
    BY <2>1 DEF ask, shown
  <2>2. CASE callback # "promise"
    <3>1. asked = decide(s, shown, callback = "yes")
      BY <2>2 DEF ask, shown
    <3>. QED BY <3>1, <1>2, <1>5, Decision
  <2>. QED BY <2>1, <2>2
<1> HIDE DEF asked
<1>7. /\ asked.entry \in Entries /\ asked.entry.report = shown.report
      /\ asked.status \in Statuses /\ asked.status.captured = s.captured
      /\ asked.status.state = s.state /\ asked.status.reason = s.reason
      /\ asked.status.accepted = s.accepted /\ asked.status.failed = s.failed
  <2>1. CASE asked.status = s /\ asked.entry = shown
    BY <2>1, <1>2, <1>5
  <2>2. CASE Sends(s, shown, asked) \/ Declines(s, shown, asked)
    BY <2>2, <1>2, <1>5, Decided
  <2>. QED BY <1>6, <2>1, <2>2
<1>8. \/ /\ ~asked.entry.answered /\ ~asked.entry.sent /\ ~asked.entry.mayGo
         /\ asked.status.sent = s.sent /\ asked.status.declined = s.declined
      \/ /\ asked.entry.answered /\ asked.entry.sent /\ callback = "yes" /\ ~signal
         /\ asked.status.sent = s.sent + 1 /\ asked.status.declined = s.declined
         /\ asked.entry.answer = callback
      \/ /\ asked.entry.answered /\ ~asked.entry.sent /\ ~asked.entry.mayGo
         /\ asked.status.sent = s.sent /\ asked.status.declined = s.declined + 1
  <2>1. CASE asked.status = s /\ asked.entry = shown
    BY <2>1, <1>5
  <2>2. CASE callback = "yes" /\ Sends(s, shown, asked)
    BY <2>2, <1>2, <1>5 DEF Sends, Entries, Statuses
  <2>3. CASE Declines(s, shown, asked)
    BY <2>3, <1>2, <1>5 DEF Declines, Entries, Statuses
  <2>. QED BY <1>6, <2>1, <2>2, <2>3
<1>9. /\ reports' \in [1..c -> Entries] /\ reports'[c] = asked.entry
      /\ \A n \in 1..status.captured : reports'[n] = reports[n]
      /\ 1..c = (1..status.captured) \cup {c} /\ c \notin 1..status.captured
  BY <1>1, <1>2, <1>3, <1>7 DEF c
<1>10. /\ WaitingOf(reports') = IF asked.entry.answered THEN WaitingOf(reports)
                                ELSE WaitingOf(reports) \cup {c}
       /\ FlyingOf(reports') = IF asked.entry.sent THEN FlyingOf(reports) \cup {c}
                               ELSE FlyingOf(reports)
       /\ c \notin WaitingOf(reports) /\ c \notin FlyingOf(reports)
  BY <1>1, <1>9 DEF WaitingOf, FlyingOf
<1>11. /\ IsFiniteSet(WaitingOf(reports)) /\ Cardinality(WaitingOf(reports)) \in Nat
       /\ IsFiniteSet(FlyingOf(reports)) /\ Cardinality(FlyingOf(reports)) \in Nat
  BY <1>1, SetsFinite
<1>12. /\ Cardinality(WaitingOf(reports')) = IF asked.entry.answered
            THEN Cardinality(WaitingOf(reports)) ELSE Cardinality(WaitingOf(reports)) + 1
       /\ Cardinality(FlyingOf(reports')) = IF asked.entry.sent
            THEN Cardinality(FlyingOf(reports)) + 1 ELSE Cardinality(FlyingOf(reports))
  BY <1>10, <1>11, FS_AddElement
<1>13. Counted(status', reports')
  <2>1. Guarded(status') = Guarded(status) /\ Guarded(status) \in Nat
    BY <1>2, <1>3, <1>7 DEF Guarded
  <2>2. /\ status.captured \in Nat /\ status.declined \in Nat /\ status.sent \in Nat
        /\ status.accepted \in Nat /\ status.failed \in Nat
        /\ Counted(status, reports)
    BY <1>1 DEF Statuses, ReporterInv, Kept
  <2>3. /\ status'.captured = status.captured + 1 /\ status'.accepted = status.accepted
        /\ status'.failed = status.failed
    BY <1>2, <1>3, <1>7 DEF c
  <2>4. \/ ~asked.entry.answered /\ ~asked.entry.sent
           /\ status'.sent = status.sent /\ status'.declined = status.declined
        \/ asked.entry.answered /\ asked.entry.sent
           /\ status'.sent = status.sent + 1 /\ status'.declined = status.declined
        \/ asked.entry.answered /\ ~asked.entry.sent
           /\ status'.sent = status.sent /\ status'.declined = status.declined + 1
    BY <1>2, <1>3, <1>8
  <2>. QED BY <1>11, <1>12, <2>1, <2>2, <2>3, <2>4 DEF Counted
<1>14. \A n \in 1..c : Known(reports'[n], seen')
  <2>1. \A n \in 1..status.captured : Known(reports'[n], seen')
    BY <1>3, <1>9 DEF ReporterInv, Kept, Known
  <2>2. Known(asked.entry, seen')
    BY <1>3, <1>5, <1>7, <1>8 DEF Known
  <2>. QED BY <1>9, <2>1, <2>2
<1>15. \A m, n \in 1..c : m # n => reports'[m].report.error # reports'[n].report.error
  <2>1. \A n \in 1..status.captured : reports'[n].report.error \in seen
    BY <1>9 DEF ReporterInv, Kept, Known
  <2>2. reports'[c].report.error = error
    BY <1>5, <1>7, <1>9
  <2>3. \A m, n \in 1..status.captured :
          m # n => reports'[m].report.error # reports'[n].report.error
    BY <1>9 DEF ReporterInv, Kept
  <2>. QED BY <1>4, <1>9, <2>1, <2>2, <2>3
<1>16. seen' \subseteq Errors /\ c <= maxReports /\ status'.captured = c
       /\ status' \in Statuses /\ status'.state = status.state /\ status'.reason = status.reason
  BY <1>1, <1>2, <1>3, <1>7 DEF c
<1>17. status.reason = none
  BY <1>1 DEF ReporterInv, Kept
<1>18. Kept(status', seen', reports')
  BY <1>9, <1>13, <1>14, <1>15, <1>16, <1>17 DEF Kept
<1>19. reports'[c].mayGo => reports'[c].answer = "yes" /\ ~signal /\ status.state = "on"
  BY <1>1, <1>8, <1>9
<1>. QED BY <1>1, <1>9, <1>18, <1>19 DEF c
-----------------------------------------------------------------------------
(* What a step that sends nothing leaves as it was.                        *)
LEMMA Unsent == ASSUME DOMAIN reports' = DOMAIN reports,
    \A n \in DOMAIN reports : reports'[n].mayGo = reports[n].mayGo
  PROVE Consented
BY DEF Consented

(* off leaves the counters, and the first reason, as they are.             *)
LEMMA OffFields == ASSUME NEW s \in Statuses, NEW r \in Reasons
  PROVE /\ off(s, r) \in Statuses /\ off(s, r).state = "off"
        /\ off(s, r).reason = IF s.reason = none THEN r ELSE s.reason
        /\ off(s, r).captured = s.captured /\ off(s, r).failed = s.failed
        /\ off(s, r).sent = s.sent /\ off(s, r).declined = s.declined
        /\ off(s, r).accepted = s.accepted
<1> DEFINE why == IF s.reason = none THEN r ELSE s.reason
<1>1. why \in Reasons
  BY DEF Statuses
<1>2. off(s, r) = [s EXCEPT !.state = "off", !.reason = why]
  BY DEF off
<1> HIDE DEF why
<1>3. /\ off(s, r) \in Statuses /\ off(s, r).state = "off" /\ off(s, r).reason = why
      /\ off(s, r).captured = s.captured /\ off(s, r).failed = s.failed
      /\ off(s, r).sent = s.sent /\ off(s, r).declined = s.declined
      /\ off(s, r).accepted = s.accepted
  BY <1>1, <1>2 DEF Statuses
<1>. QED BY <1>3 DEF why

LEMMA InitKeeps == ASSUME maxReports \in Nat, ReporterInit PROVE ReporterInv
<1>1. status \in Statuses /\ status.captured = 0 /\ status.sent = 0 /\ status.declined = 0
      /\ status.accepted = 0 /\ status.failed = 0 /\ status.reason # "failed"
      /\ (status.state = "on" => status.reason = none)
  <2>1. /\ NewStatus \in Statuses /\ NewStatus.captured = 0 /\ NewStatus.sent = 0
        /\ NewStatus.declined = 0 /\ NewStatus.accepted = 0 /\ NewStatus.failed = 0
        /\ NewStatus.reason = none
    BY DEF NewStatus, Statuses, Reasons
  <2>2. \/ \E why \in {"disabled", "dnt", "no-endpoint", "no-fetch"} : status = off(NewStatus, why)
        \/ status = [NewStatus EXCEPT !.state = "on"]
    BY DEF ReporterInit
  <2>3. CASE status = [NewStatus EXCEPT !.state = "on"]
    BY <2>1, <2>3 DEF Statuses, none
  <2>4. ASSUME NEW why \in {"disabled", "dnt", "no-endpoint", "no-fetch"},
               status = off(NewStatus, why)
        PROVE  status \in Statuses /\ status.captured = 0 /\ status.sent = 0 /\ status.declined = 0
               /\ status.accepted = 0 /\ status.failed = 0 /\ status.reason # "failed"
               /\ status.state = "off"
    <3>1. why \in Reasons /\ why # "failed"
      BY DEF Reasons
    <3>. QED BY <2>1, <2>4, <3>1, OffFields
  <2>. QED BY <2>2, <2>3, <2>4
<1>2. reports = <<>> /\ seen = {} /\ DOMAIN reports = {} /\ 1..0 = {}
  BY DEF ReporterInit
<1>3. reports \in [1..status.captured -> Entries]
  BY <1>1, <1>2
<1>4. WaitingOf(reports) = {} /\ FlyingOf(reports) = {}
  BY <1>2 DEF WaitingOf, FlyingOf
<1>5. Counted(status, reports)
  BY <1>1, <1>4, FS_EmptySet DEF Counted, Guarded
<1>6. Kept(status, seen, reports)
  BY <1>1, <1>2, <1>3, <1>5 DEF Kept
<1>. QED BY <1>6 DEF ReporterInit, ReporterInv

LEMMA RaisesKeeps == ASSUME maxReports \in Nat, ReporterInv, Raises
  PROVE ReporterInv' /\ Consented
<1>1. PICK error \in Errors : capture(error)
  BY DEF Raises
<1>2. signal' = signal /\ callback' = callback
  BY DEF Raises
<1>3. CASE status.state # "on" \/ ~Room \/ Key(scrubErrorReport(error)) \in seen
  <2>1. UNCHANGED <<status, seen, reports>>
    BY <1>1, <1>3 DEF capture
  <2>. QED BY <1>2, <2>1, Unsent DEF ReporterInv, Kept, Known, Counted, WaitingOf, FlyingOf, Guarded
<1>4. CASE ~(status.state # "on" \/ ~Room \/ Key(scrubErrorReport(error)) \in seen)
  <2> DEFINE c == status.captured + 1
  <2>1. /\ Kept(status', seen', reports') /\ reports' \in [1..c -> Entries]
        /\ \A n \in 1..status.captured : reports'[n] = reports[n]
        /\ DOMAIN reports = 1..status.captured
        /\ reports'[c].mayGo => reports'[c].answer = "yes" /\ ~signal /\ status.state = "on"
    BY <1>1, <1>4, Captured
  <2>2. /\ status.captured \in Nat /\ DOMAIN reports' = 1..c /\ status'.captured \in Nat
        /\ DOMAIN reports' = 1..status'.captured
    BY <2>1 DEF ReporterInv, Kept, Statuses
  <2>3. \A n \in 1..c : n \in DOMAIN reports \/ n = c
    BY <2>1, <2>2
  <2>4. /\ \A n \in DOMAIN reports' : Known(reports'[n], seen')
        /\ \A m, n \in DOMAIN reports' : m # n => reports'[m].report.error # reports'[n].report.error
    BY <2>1, <2>2 DEF Kept
  <2> HIDE DEF c
  <2>5. Consented
    <3>1. SUFFICES ASSUME NEW n \in DOMAIN reports', reports'[n].mayGo,
                          ~(n \in DOMAIN reports /\ reports[n].mayGo)
                   PROVE /\ reports'[n].answer \in {"yes", "promise"}
                         /\ ~signal
                         /\ reports'[n].report.error \in Sensitive => reports'[n].report.holed
                         /\ \A m \in DOMAIN reports' :
                              m # n => reports'[m].report.error # reports'[n].report.error
      BY DEF Consented
    <3>2. n = c
      BY <2>1, <2>2, <2>3, <3>1
    <3>. QED BY <2>1, <2>4, <3>1, <3>2 DEF Known
  <2>. QED BY <1>2, <2>1, <2>5 DEF ReporterInv
<1>. QED BY <1>3, <1>4

LEMMA SettlesKeeps == ASSUME ReporterInv, Settles PROVE ReporterInv' /\ Consented
<1>1. PICK n \in DOMAIN reports, yes \in BOOLEAN :
        /\ reports[n].answer = "promise" /\ ~reports[n].answered
        /\ LET decided == decide(status, reports[n], yes)
           IN status' = decided.status /\ reports' = [reports EXCEPT ![n] = decided.entry]
  BY DEF Settles
<1>2. UNCHANGED <<signal, callback, seen>>
  BY DEF Settles
<1> DEFINE decided == decide(status, reports[n], yes)
<1>3. /\ status \in Statuses /\ reports \in [1..status.captured -> Entries]
      /\ Kept(status, seen, reports) /\ n \in 1..status.captured /\ reports[n] \in Entries
      /\ DOMAIN reports = 1..status.captured
  BY <1>1 DEF ReporterInv, Kept
<1>0. ~reports[n].answered
  BY <1>1
<1>4. status' = decided.status /\ reports' = [reports EXCEPT ![n] = decided.entry]
  BY <1>1
<1>5. Sends(status, reports[n], decided) \/ Declines(status, reports[n], decided)
  BY <1>1, <1>3, Decision
<1> HIDE DEF decided
<1>6. Kept(status', seen', reports')
  <2>1. Kept(decided.status, seen, [reports EXCEPT ![n] = decided.entry])
    BY <1>0, <1>3, <1>5, Answered
  <2>. QED BY <1>2, <1>4, <2>1
<1>7. /\ decided.entry.report = reports[n].report /\ decided.entry.answer = "promise"
  BY <1>1, <1>3, <1>5, Decided
<1>8. /\ DOMAIN reports' = DOMAIN reports /\ reports'[n] = decided.entry
      /\ \A m \in DOMAIN reports : m # n => reports'[m] = reports[m]
      /\ \A m \in DOMAIN reports : reports'[m].report = reports[m].report
  BY <1>3, <1>4, <1>7
<1>9. Consented
  <2>1. CASE Sends(status, reports[n], decided)
    <3>1. SUFFICES ASSUME NEW k \in DOMAIN reports, reports'[k].mayGo, ~reports[k].mayGo
                   PROVE /\ reports'[k].answer \in {"yes", "promise"}
                         /\ ~signal
                         /\ reports'[k].report.error \in Sensitive => reports'[k].report.holed
                         /\ \A m \in DOMAIN reports' :
                              m # k => reports'[m].report.error # reports'[k].report.error
      BY <1>8 DEF Consented
    <3>2. k = n
      BY <1>8, <3>1
    <3>3. reports[n].report.holed = (reports[n].report.error \in Sensitive)
      BY <1>3 DEF Kept, Known
    <3>4. \A m \in DOMAIN reports : m # n => reports[m].report.error # reports[n].report.error
      BY <1>3 DEF Kept
    <3>. QED BY <1>3, <1>7, <1>8, <2>1, <3>2, <3>3, <3>4, ZenonT(60) DEF Sends
  <2>2. CASE Declines(status, reports[n], decided)
    <3>1. decided.entry.mayGo = reports[n].mayGo
      BY <1>3, <2>2 DEF Declines, Entries
    <3>. QED BY <1>8, <3>1, Unsent
  <2>. QED BY <1>5, <2>1, <2>2
<1>. QED BY <1>2, <1>6, <1>9 DEF ReporterInv

LEMMA UploadedKeeps == ASSUME ReporterInv, Uploaded PROVE ReporterInv' /\ Consented
<1>1. PICK n \in DOMAIN reports, ok \in BOOLEAN :
        /\ InFlight(n)
        /\ status' = IF ok THEN [status EXCEPT !.accepted = @ + 1]
                     ELSE [status EXCEPT !.failed = @ + 1]
        /\ reports' = [reports EXCEPT ![n].sent = FALSE]
  BY DEF Uploaded
<1>2. UNCHANGED <<signal, callback, seen>>
  BY DEF Uploaded
<1>3. /\ status \in Statuses /\ reports \in [1..status.captured -> Entries]
      /\ n \in 1..status.captured /\ reports[n] \in Entries /\ status.captured \in Nat
      /\ DOMAIN reports = 1..status.captured
      /\ \A m \in 1..status.captured : reports[m] \in Entries /\ Known(reports[m], seen)
  BY <1>1 DEF ReporterInv, Kept, Statuses
<1>4. /\ status' \in Statuses /\ status'.captured = status.captured /\ status'.sent = status.sent
      /\ status'.declined = status.declined /\ status'.state = status.state
      /\ status'.reason = status.reason
      /\ \/ status'.accepted = status.accepted + 1 /\ status'.failed = status.failed
         \/ status'.accepted = status.accepted /\ status'.failed = status.failed + 1
  <2>1. CASE ok
    BY <1>1, <1>3, <2>1 DEF Statuses
  <2>2. CASE ~ok
    BY <1>1, <1>3, <2>2 DEF Statuses
  <2>. QED BY <2>1, <2>2
<1>5. reports[n].sent /\ reports[n].answered
  BY <1>1, <1>3 DEF InFlight, Known
<1> DEFINE e == [reports[n] EXCEPT !.sent = FALSE]
<1>6. e \in Entries /\ ~e.sent /\ e.answered = reports[n].answered /\ e.mayGo = reports[n].mayGo
      /\ e.report = reports[n].report
  BY <1>3 DEF Entries
<1>7. /\ reports' \in [1..status.captured -> Entries] /\ reports'[n] = e
      /\ \A m \in 1..status.captured : m # n => reports'[m] = reports[m]
  <2>1. reports' = [reports EXCEPT ![n] = e]
    BY <1>1
  <2> HIDE DEF e
  <2>. QED BY <1>3, <1>6, <2>1
<1> HIDE DEF e
<1>8. /\ \A m \in 1..status.captured : reports'[m].report = reports[m].report
      /\ \A m \in 1..status.captured : reports'[m].mayGo = reports[m].mayGo
  BY <1>6, <1>7
<1>9. WaitingOf(reports') = WaitingOf(reports)
  BY <1>3, <1>5, <1>6, <1>7 DEF WaitingOf
<1>10. FlyingOf(reports') = FlyingOf(reports) \ {n} /\ n \in FlyingOf(reports)
  BY <1>3, <1>5, <1>6, <1>7 DEF FlyingOf
<1>11. /\ IsFiniteSet(FlyingOf(reports)) /\ Cardinality(FlyingOf(reports)) \in Nat
       /\ Cardinality(WaitingOf(reports)) \in Nat
  BY <1>3, SetsFinite
<1>12. Cardinality(FlyingOf(reports')) = Cardinality(FlyingOf(reports)) - 1
  BY <1>10, <1>11, FS_RemoveElement
<1>13. Counted(status', reports')
  <2>1. Guarded(status') = Guarded(status) /\ Guarded(status) \in Nat
    BY <1>4 DEF Guarded
  <2>2. /\ status.captured \in Nat /\ status.declined \in Nat /\ status.sent \in Nat
        /\ status.accepted \in Nat /\ status.failed \in Nat /\ Counted(status, reports)
    BY <1>3 DEF Statuses, ReporterInv, Kept
  <2>. QED BY <1>4, <1>9, <1>11, <1>12, <2>1, <2>2 DEF Counted
<1>14. \A m \in 1..status.captured : Known(reports'[m], seen)
  BY <1>3, <1>5, <1>6, <1>7, ZenonT(60) DEF Known
<1>15. Kept(status', seen', reports')
  BY <1>2, <1>4, <1>7, <1>8, <1>13, <1>14 DEF ReporterInv, Kept
<1>16. Consented
  BY <1>3, <1>7, <1>8, Unsent
<1>. QED BY <1>2, <1>15, <1>16 DEF ReporterInv

LEMMA OthersKeep == ASSUME ReporterInv, GuardFails \/ consent \/ stopReporter \/ SignalChanges
  PROVE ReporterInv' /\ Consented
<1>1. seen' = seen /\ reports' = reports
  BY DEF GuardFails, consent, stopReporter, SignalChanges
<1>2. signal' \in BOOLEAN /\ callback' \in {none} \cup Answers
  BY DEF GuardFails, consent, stopReporter, SignalChanges, ReporterInv
<1>3. Kept(status', seen, reports)
  <2>1. Kept(status, seen, reports) /\ status \in Statuses
    BY DEF ReporterInv, Kept
  <2>2. CASE GuardFails
    <3>1. /\ status' \in Statuses /\ status'.captured = status.captured /\ status'.state = "off"
          /\ status'.reason = "failed" /\ status'.failed = status.failed + 1
          /\ status'.sent = status.sent /\ status'.declined = status.declined
          /\ status'.accepted = status.accepted /\ status.reason = none
      <4> DEFINE t == [status EXCEPT !.failed = @ + 1]
      <4>1. status.state = "on" /\ status' = off(t, "failed") /\ status.reason = none
        BY <2>1, <2>2 DEF GuardFails, Kept
      <4>2. /\ t \in Statuses /\ t.captured = status.captured /\ t.failed = status.failed + 1
            /\ t.sent = status.sent /\ t.declined = status.declined
            /\ t.accepted = status.accepted /\ t.reason = status.reason
        BY <2>1 DEF Statuses
      <4> HIDE DEF t
      <4>3. "failed" \in Reasons
        BY DEF Reasons
      <4>. QED BY <4>1, <4>2, <4>3, OffFields
    <3>2. Guarded(status) = 0 /\ Guarded(status') = 1
      BY <3>1 DEF Guarded, none
    <3>3. /\ Cardinality(FlyingOf(reports)) \in Nat /\ status.sent \in Nat
          /\ status.accepted \in Nat /\ status.failed \in Nat
      BY <2>1, SetsFinite DEF Kept, Statuses
    <3>4. Counted(status', reports)
      BY <2>1, <3>1, <3>2, <3>3, SMTT(60) DEF Kept, Counted
    <3>. QED BY <2>1, <3>1, <3>4 DEF Kept
  <2>3. CASE stopReporter
    <3>1. /\ status' \in Statuses /\ status'.captured = status.captured /\ status'.state = "off"
          /\ status'.reason = "stopped" /\ status'.failed = status.failed
          /\ status'.sent = status.sent /\ status'.declined = status.declined
          /\ status'.accepted = status.accepted /\ status.reason = none
      <4>1. status.state = "on" /\ status' = off(status, "stopped") /\ status.reason = none
        BY <2>1, <2>3 DEF stopReporter, Kept
      <4>2. "stopped" \in Reasons
        BY DEF Reasons
      <4>. QED BY <2>1, <4>1, <4>2, OffFields
    <3>2. Guarded(status) = Guarded(status')
      BY <3>1 DEF Guarded, none
    <3>3. Counted(status', reports)
      BY <2>1, <3>1, <3>2 DEF Kept, Counted
    <3>. QED BY <2>1, <3>1, <3>3 DEF Kept
  <2>4. CASE consent \/ SignalChanges
    BY <2>1, <2>4 DEF consent, SignalChanges
  <2>. QED BY <2>2, <2>3, <2>4
<1>4. Consented
  BY <1>1, Unsent
<1>. QED BY <1>1, <1>2, <1>3, <1>4 DEF ReporterInv
-----------------------------------------------------------------------------
LEMMA InvAccounts == ReporterInv => ReporterTypeOK /\ ReportsAccounted
<1>1. SUFFICES ASSUME ReporterInv PROVE ReporterTypeOK /\ ReportsAccounted
  OBVIOUS
<1>2. ReporterTypeOK
  BY <1>1 DEF ReporterInv, Kept, Statuses, ReporterTypeOK, Counters
<1>3. ReportsAccounted
  BY <1>1 DEF ReporterInv, Kept, Counted, Guarded, WaitingOf, FlyingOf, ReportsAccounted, Count
<1>. QED BY <1>2, <1>3

LEMMA ReporterStep == ASSUME maxReports \in Nat
  PROVE ReporterInv /\ [ReporterNext]_reporterVars => ReporterInv' /\ [Consented]_reporterVars
<1>1. SUFFICES ASSUME ReporterInv, [ReporterNext]_reporterVars PROVE ReporterInv' /\ [Consented]_reporterVars
  OBVIOUS
<1>2. CASE UNCHANGED reporterVars
  BY <1>1, <1>2
  DEF reporterVars, ReporterInv, Kept, Known, Counted, WaitingOf, FlyingOf, Guarded
<1>. QED
  BY <1>1, <1>2, RaisesKeeps, SettlesKeeps, UploadedKeeps, OthersKeep DEF ReporterNext

(* Whatever the page throws, answers and settles, and whenever a signal    *)
(* comes on or the reporter is stopped, a report leaves only by its own    *)
(* yes, holed, and every report and every upload is accounted for.         *)
THEOREM AlwaysByConsent == ASSUME maxReports \in Nat PROVE ReporterSpec => SendsByConsent
<1>1. ReporterInit => ReporterInv
  BY InitKeeps
<1>2. ReporterInv /\ [ReporterNext]_reporterVars => ReporterInv' /\ [Consented]_reporterVars
  BY ReporterStep
<1>. QED BY <1>1, <1>2, InvAccounts, PTL DEF ReporterSpec, SendsByConsent

-----------------------------------------------------------------------------
(* A batch is sent as the page leaves when it waits for its retry or is    *)
(* cut, and then no more: which batch that is follows from their order.    *)
BudgetAssumption == MaxBatches \in Nat /\ Sizes \subseteq Nat \ {0}

(* The batches are cut in their order; one that is in flight has not been  *)
(* sent as the page left.                                                  *)
LeavingInv ==
  /\ size \in [Ids -> Nat] /\ left \in [Ids -> Nat]
  /\ requests \subseteq [batch : Ids, held : BOOLEAN, leaving : BOOLEAN]
  /\ \E n \in 0..MaxBatches : Cut = 1..n
  /\ inFlight = 0 \/ inFlight \in Cut
  /\ retrying => inFlight # 0
  /\ \A b \in Ids : left[b] <= 1 /\ (b \notin Cut => left[b] = 0)
  /\ \A b \in Ids : b = inFlight => left[b] = 0

LEMMA BudgetStarts ==
  ASSUME BudgetAssumption, BudgetInit
  PROVE  LeavingInv
<1>1. Cut = {} /\ {} = 1..0
  BY DEF BudgetInit, Cut
<1>2. 0 \in 0..MaxBatches
  BY DEF BudgetAssumption
<1> QED BY <1>1, <1>2 DEF BudgetInit, LeavingInv, Ids

(* A batch that is cut is the next one, and was not sent before.           *)
LEMMA TakenNext ==
  ASSUME BudgetAssumption, LeavingInv, NEW b \in Ids, NEW n \in Sizes, Take(b, n)
  PROVE  /\ size' \in [Ids -> Nat] /\ n \in Nat /\ Cut' = Cut \cup {b}
         /\ \E k \in 0..MaxBatches : Cut' = 1..k
         /\ b \notin Cut /\ b # inFlight /\ left[b] = 0
<1>1. PICK k \in 0..MaxBatches : Cut = 1..k
  BY DEF LeavingInv
<1>2. Cardinality(Cut) = k /\ k \in Nat
  BY <1>1, FS_Interval DEF BudgetAssumption
<1>3. b = k + 1 /\ b \in 0..MaxBatches /\ size' = [size EXCEPT ![b] = n]
  BY <1>2 DEF Take, Ids, BudgetAssumption
<1>4. n \in Nat /\ n > 0
  BY DEF BudgetAssumption
<1>5. size' \in [Ids -> Nat] /\ size'[b] = n /\ \A c \in Ids : c # b => size'[c] = size[c]
  BY <1>3, <1>4 DEF LeavingInv
<1>6. Cut' = Cut \cup {b}
  BY <1>4, <1>5 DEF Cut
<1>7. Cut' = 1..b
  BY <1>1, <1>2, <1>3, <1>6
<1>8. b \notin Cut
  BY <1>1, <1>2, <1>3
<1>9. b # 0
  BY <1>2, <1>3
<1> QED BY <1>3, <1>4, <1>5, <1>6, <1>7, <1>8, <1>9 DEF LeavingInv

LEMMA SentKeeps ==
  ASSUME BudgetAssumption, LeavingInv, NEW b \in Ids, NEW n, Send(b, n), left[b] = 0,
         size' \in [Ids -> Nat], b \in Cut', Cut \subseteq Cut',
         \E k \in 0..MaxBatches : Cut' = 1..k
  PROVE  LeavingInv'
<1>1. inFlight' = b /\ left' = left /\ b # 0
  BY DEF Send, Ids
<1>2. requests' \subseteq [batch : Ids, held : BOOLEAN, leaving : BOOLEAN]
  <2> DEFINE keepalive == Within(n)
  <2>1. requests' \subseteq requests \cup {Request(b, keepalive, FALSE)}
    BY DEF Send
  <2>2. keepalive \in BOOLEAN
    BY DEF Within
  <2>3. Request(b, keepalive, FALSE) \in [batch : Ids, held : BOOLEAN, leaving : BOOLEAN]
    BY <2>2 DEF Request
  <2> QED BY <2>1, <2>3 DEF LeavingInv
<1> QED BY <1>1, <1>2 DEF LeavingInv, Ids

LEMMA LeavingSentKeeps ==
  ASSUME BudgetAssumption, LeavingInv, NEW b \in Ids, NEW n, SendLeaving(b, n), left[b] = 0,
         size' \in [Ids -> Nat], b \in Cut', Cut \subseteq Cut',
         \E k \in 0..MaxBatches : Cut' = 1..k,
         inFlight' = 0 \/ (inFlight' = inFlight /\ b # inFlight),
         retrying' => inFlight' # 0
  PROVE  LeavingInv'
<1>1. left' = left \/ left' = [left EXCEPT ![b] = @ + 1]
  BY DEF SendLeaving
<1>2. /\ left' \in [Ids -> Nat] /\ left'[b] <= 1
      /\ \A c \in Ids : c # b => left'[c] = left[c]
  BY <1>1 DEF LeavingInv
<1>3. requests' \subseteq [batch : Ids, held : BOOLEAN, leaving : BOOLEAN]
  <2>1. requests' \subseteq requests \cup {Request(b, TRUE, TRUE)}
    BY DEF SendLeaving
  <2>2. Request(b, TRUE, TRUE) \in [batch : Ids, held : BOOLEAN, leaving : BOOLEAN]
    BY DEF Request
  <2> QED BY <2>1, <2>2 DEF LeavingInv
<1>4. \A c \in Ids : left'[c] <= 1 /\ (c \notin Cut' => left'[c] = 0)
  BY <1>2 DEF LeavingInv
<1>5. \A c \in Ids : c = inFlight' => left'[c] = 0
  BY <1>2 DEF LeavingInv, Ids
<1>6. inFlight' = 0 \/ inFlight' \in Cut'
  BY DEF LeavingInv
<1> QED BY <1>2, <1>3, <1>4, <1>5, <1>6 DEF LeavingInv

LEMMA BudgetKeeps ==
  ASSUME BudgetAssumption, LeavingInv, [BudgetNext]_budget
  PROVE  LeavingInv'
<1>1. CASE Pump
  <2>1. PICK b \in Ids, n \in Sizes : Take(b, n) /\ Send(b, n)
    BY <1>1 DEF Pump
  <2> QED BY <2>1, TakenNext, SentKeeps
<1>2. CASE Settle
  <2>1. PICK r \in requests, ok \in BOOLEAN :
          /\ requests' = requests \ {r} /\ left' = left
          /\ IF r.leaving \/ r.batch # inFlight
             THEN UNCHANGED <<inFlight, retrying>>
             ELSE \E givenUp \in BOOLEAN :
               /\ inFlight' = IF givenUp THEN 0 ELSE inFlight
               /\ retrying' = ~givenUp
    BY <1>2 DEF Settle, leavingSettled
  <2>2. r.batch # 0
    BY <2>1 DEF LeavingInv, Ids
  <2>3. /\ inFlight' = 0 \/ inFlight' = inFlight
        /\ retrying' => inFlight' # 0
    BY <2>1, <2>2 DEF LeavingInv
  <2>4. size' = size /\ Cut' = Cut
    BY <1>2 DEF Settle, Cut
  <2> QED BY <2>1, <2>3, <2>4 DEF LeavingInv, Ids
<1>3. CASE RetryTimerFires
  <2>1. /\ retrying /\ Send(inFlight, size[inFlight]) /\ size' = size /\ Cut' = Cut
    BY <1>3 DEF RetryTimerFires, Cut
  <2>2. inFlight \in Cut /\ inFlight \in Ids
    BY <2>1 DEF LeavingInv, Cut
  <2>3. /\ left[inFlight] = 0 /\ size' \in [Ids -> Nat]
        /\ \E k \in 0..MaxBatches : Cut' = 1..k
    BY <2>1, <2>2 DEF LeavingInv
  <2>4. PICK b \in Ids, n \in {size[inFlight]} : b = inFlight
    BY <2>2
  <2>5. Send(b, n)
    BY <2>1, <2>4
  <2>6. left[b] = 0 /\ b \in Cut' /\ Cut \subseteq Cut'
    BY <2>1, <2>2, <2>3, <2>4
  <2> QED BY <2>1, <2>3, <2>5, <2>6, SentKeeps
<1>4. CASE DrainWaiting
  <2>1. /\ retrying /\ SendLeaving(inFlight, size[inFlight]) /\ size' = size /\ Cut' = Cut
        /\ inFlight' = 0 /\ ~retrying'
    BY <1>4 DEF DrainWaiting, Cut
  <2>2. inFlight \in Cut /\ inFlight \in Ids
    BY <2>1 DEF LeavingInv, Cut
  <2>3. /\ left[inFlight] = 0 /\ size' \in [Ids -> Nat]
        /\ \E k \in 0..MaxBatches : Cut' = 1..k
    BY <2>1, <2>2 DEF LeavingInv
  <2>4. PICK b \in Ids, n \in {size[inFlight]} : b = inFlight
    BY <2>2
  <2>5. SendLeaving(b, n)
    BY <2>1, <2>4
  <2>6. left[b] = 0 /\ b \in Cut' /\ Cut \subseteq Cut'
    BY <2>1, <2>2, <2>3, <2>4
  <2> QED BY <2>1, <2>3, <2>5, <2>6, LeavingSentKeeps
<1>5. CASE DrainNext
  <2>1. PICK b \in Ids, n \in Sizes : Take(b, n) /\ SendLeaving(b, n)
    BY <1>5 DEF DrainNext
  <2>2. inFlight' = inFlight /\ ~retrying'
    BY <1>5 DEF DrainNext
  <2> QED BY <2>1, <2>2, TakenNext, LeavingSentKeeps
<1>6. CASE UNCHANGED <<size, inFlight, retrying, requests, left>>
  <2>1. Cut' = Cut
    BY <1>6 DEF Cut
  <2> QED BY <1>6, <2>1 DEF LeavingInv
<1>7. CASE Enqueue \/ Hide \/ Drained \/ BeaconLeaves \/ PageSends
  <2>1. UNCHANGED <<size, inFlight, retrying, requests, left>>
    BY <1>7 DEF Enqueue, Hide, Drained, BeaconLeaves, PageSends
  <2> QED BY <1>6, <2>1
<1>8. CASE UNCHANGED budget
  BY <1>6, <1>8 DEF budget
<1> QED BY <1>1, <1>2, <1>3, <1>4, <1>5, <1>7, <1>8 DEF BudgetNext

(* However many batches are cut, and whatever becomes of their requests,   *)
(* the browser takes a batch at most once as the page leaves (sendLeaving, *)
(* drainNow).                                                              *)
THEOREM BatchesLeaveOnce ==
  ASSUME MaxBatches \in Nat, Sizes \subseteq Nat \ {0}
  PROVE  BudgetSpec => []LeavesOnce
<1>1. BudgetAssumption
  BY DEF BudgetAssumption
<1>2. BudgetInit => LeavingInv
  BY <1>1, BudgetStarts
<1>3. LeavingInv /\ [BudgetNext]_budget => LeavingInv'
  BY <1>1, BudgetKeeps
<1>4. LeavingInv => LeavesOnce
  BY DEF LeavingInv, LeavesOnce
<1> QED BY <1>2, <1>3, <1>4, PTL DEF BudgetSpec
=============================================================================
