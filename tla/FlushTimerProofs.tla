-------------------------- MODULE FlushTimerProofs --------------------------
(***************************************************************************)
(* The flush timer keeps the deadline for every length of a batch, every   *)
(* deadline and every lateness the assumptions of FlushTimer allow: a      *)
(* record does not wait past it, and its timer cuts no batch early.        *)
(*                                                                         *)
(* The invariant behind it says what the armed timer is aimed at: what is  *)
(* left of it and the age of the oldest record make the deadline's aim,    *)
(* less a precise step while the timer is coarse; a timer left from before *)
(* a drain may only be earlier.  It is a predicate on the transport within *)
(* a handler, so that pump, armFlushTimer, evictToCap and drainNow each    *)
(* have one lemma, whichever handler calls them.                           *)
(***************************************************************************)
EXTENDS FlushTimer, SequenceTheorems, TLAPS

Gates == {"configuring", "waiting-for-consent", "open", "off"}
Recorders == {"writes", "halted", "ended"}
Timers == [on : BOOLEAN, left : Int, coarse : BOOLEAN, late : Nat, stray : BOOLEAN]
Cuts == [cut : BOOLEAN, age : Int, aim : Int, early : BOOLEAN]
States == [gate : Gates, recorder : Recorders, queue : Seq(0..MaxAge), heavy : BOOLEAN,
           deadline : flushDeadlineFirst..flushDeadlineMaxMs, timer : Timers,
           flying : BOOLEAN, batches : 0..FLUSH_FAST_BATCHES, early : BOOLEAN, cut : Cuts]

Oldest(q) == IF q = <<>> THEN 0 ELSE q[1]
Ahead(t) == IF t.coarse THEN PRECISE_TIMER_MAX_MS ELSE 0
(* The age at which a deadline asks for a batch: its aim, or at once.      *)
Reach(d) == IF d > FLUSH_TIMER_LEAD_MS THEN d - FLUSH_TIMER_LEAD_MS ELSE 0

(* An armed timer ends by the aim, and a precise one that no drain left    *)
(* behind not before it.                                                   *)
AimedAt(q, d, t) ==
  /\ t.left >= -t.late
  /\ t.late <= (IF t.coarse THEN CoarseLate ELSE PreciseLate)
  /\ Oldest(q) + t.left <= Reach(d) - Ahead(t)
  /\ ~t.stray => /\ q # <<>>
                 /\ ~t.coarse => \/ q[1] + t.left >= d - FLUSH_TIMER_LEAD_MS
                                 \/ q[1] = MaxAge
Aimed(s) == s.timer.on => AimedAt(s.queue, s.deadline, s.timer)

NeverEarly(c) == c.cut /\ ~c.early => c.age >= c.aim - Rounding
(* What every handler keeps throughout.                                    *)
Held(s) ==
  /\ s.timer.on => s.gate = "open" /\ (s.flying => s.queue = <<>> /\ s.recorder = "ended")
  /\ ~s.timer.on => s.timer = Off
  /\ s.heavy => s.queue # <<>>
  /\ s.batches < FLUSH_FAST_BATCHES => s.deadline = flushDeadlineFirst
  /\ NeverEarly(s.cut)
Loose(s) == s \in States /\ Aimed(s) /\ Held(s)

(* Whoever may send has a timer for what waits, and less than a batch.     *)
Ready(s) == canSend(s) /\ s.queue # <<>> => s.timer.on /\ ~Bound(s)
Sound(s) == Loose(s) /\ Ready(s) /\ Len(s.queue) <= ringRecords

Here == [Now EXCEPT !.cut = cut]
TimerInv == Sound(Here)
-----------------------------------------------------------------------------
LEMMA MaxOfTwo == \A a, b \in Int : Max({a, b}) = IF a >= b THEN a ELSE b
<1>1. SUFFICES ASSUME NEW a \in Int, NEW b \in Int
               PROVE Max({a, b}) = IF a >= b THEN a ELSE b
  OBVIOUS
<1>2. \E x \in {a, b} : \A y \in {a, b} : x >= y
  OBVIOUS
<1>3. Max({a, b}) \in {a, b} /\ \A y \in {a, b} : Max({a, b}) >= y
  BY <1>2 DEF Max
<1>. QED BY <1>3

LEMMA MinOfTwo == \A a, b \in Int : Min({a, b}) = IF a <= b THEN a ELSE b
<1>1. SUFFICES ASSUME NEW a \in Int, NEW b \in Int
               PROVE Min({a, b}) = IF a <= b THEN a ELSE b
  OBVIOUS
<1>2. \E x \in {a, b} : \A y \in {a, b} : x <= y
  OBVIOUS
<1>3. Min({a, b}) \in {a, b} /\ \A y \in {a, b} : Min({a, b}) <= y
  BY <1>2 DEF Min
<1>. QED BY <1>3

(* The constants, one by one.                                              *)
LEMMA Constants ==
  /\ flushRecords \in Nat /\ ringRecords \in Nat /\ flushDeadlineFirst \in Nat
  /\ flushDeadlineMaxMs \in Nat /\ FLUSH_FAST_BATCHES \in Nat /\ FLUSH_TIMER_LEAD_MS \in Nat
  /\ PRECISE_TIMER_MAX_MS \in Nat /\ PreciseLate \in Nat /\ CoarseLate \in Nat /\ Rounding \in Nat
  /\ 0 < flushRecords /\ flushDeadlineFirst <= flushDeadlineMaxMs
  /\ PreciseLate <= CoarseLate /\ CoarseLate <= PRECISE_TIMER_MAX_MS
BY FlushAssumption

(* The numbers of a state.                                                 *)
LEMMA Numbers == ASSUME NEW s \in States
  PROVE /\ MaxAge \in Nat /\ MaxAge = flushDeadlineMaxMs + 1
        /\ s.deadline \in Nat /\ s.deadline <= flushDeadlineMaxMs /\ flushDeadlineFirst <= s.deadline
        /\ s.batches \in Nat /\ s.batches <= FLUSH_FAST_BATCHES
        /\ Len(s.queue) \in Nat /\ (s.queue = <<>>) = (Len(s.queue) = 0)
        /\ \A i \in 1..Len(s.queue) : s.queue[i] \in 0..MaxAge
        /\ s.queue # <<>> => s.queue[1] \in Nat /\ s.queue[1] <= MaxAge
        /\ Oldest(s.queue) \in Nat /\ Reach(s.deadline) \in Nat
        /\ aim(s) \in Int /\ aim(s) <= Reach(s.deadline) /\ Bound(s) \in BOOLEAN
<1>1. MaxAge \in Nat /\ MaxAge = flushDeadlineMaxMs + 1
  BY Constants DEF MaxAge
<1>2. s.queue \in Seq(0..MaxAge) /\ s.heavy \in BOOLEAN
      /\ s.deadline \in flushDeadlineFirst..flushDeadlineMaxMs /\ s.batches \in 0..FLUSH_FAST_BATCHES
  BY DEF States
<1>3. /\ Len(s.queue) \in Nat /\ (s.queue = <<>>) = (Len(s.queue) = 0)
      /\ \A i \in 1..Len(s.queue) : s.queue[i] \in 0..MaxAge
  BY <1>2, EmptySeq, ElementOfSeq, LenProperties
<1>4. s.queue # <<>> => s.queue[1] \in Nat /\ s.queue[1] <= MaxAge
  BY <1>1, <1>3
<1>5. /\ s.deadline \in Nat /\ s.deadline <= flushDeadlineMaxMs /\ flushDeadlineFirst <= s.deadline
      /\ s.batches \in Nat /\ s.batches <= FLUSH_FAST_BATCHES
  BY <1>2, Constants
<1>6. Reach(s.deadline) \in Nat /\ aim(s) \in Int /\ aim(s) <= Reach(s.deadline)
  BY <1>5, Constants DEF Reach, aim
<1>7. Oldest(s.queue) \in Nat /\ Bound(s) \in BOOLEAN
  BY <1>2, <1>4 DEF Oldest, Bound
<1>. QED BY <1>1, <1>3, <1>4, <1>5, <1>6, <1>7

LEMMA TimerOff == Off \in Timers /\ ~Off.on
BY DEF Off, Timers

(* A count of batches grows to the fast ones.                              *)
LEMMA CountedGrows == ASSUME NEW s \in States, NEW n \in Nat
  PROVE /\ Counted(s, n) \in 0..FLUSH_FAST_BATCHES
        /\ Counted(s, n) < FLUSH_FAST_BATCHES => s.batches + n < FLUSH_FAST_BATCHES
<1>1. s.batches + n \in Nat
  BY Numbers
<1>2. Counted(s, n) = IF s.batches + n <= FLUSH_FAST_BATCHES THEN s.batches + n ELSE FLUSH_FAST_BATCHES
  BY <1>1, MinOfTwo, Constants DEF Counted
<1>. QED BY <1>1, <1>2, Constants
-----------------------------------------------------------------------------
(* What may send and waits has its timer: there is nothing to arm.         *)
LEMMA ReadyIsArmed == ASSUME NEW s, Ready(s) PROVE armFlushTimer(s) = s
BY DEF Ready, armFlushTimer, MayArm

(* A timer set for the aim of the oldest record is aimed at it.            *)
TimerFor(s) ==
  IF Delay(s) > PRECISE_TIMER_MAX_MS
  THEN SetTimeout(Delay(s) - PRECISE_TIMER_MAX_MS, TRUE)
  ELSE SetTimeout(Delay(s), FALSE)

LEMMA SetAims == ASSUME NEW s \in States, s.queue # <<>>, s.queue[1] <= Reach(s.deadline)
  PROVE LET t == TimerFor(s) IN t \in Timers /\ t.on /\ AimedAt(s.queue, s.deadline, t)
<1> DEFINE o == s.queue[1]
           d == s.deadline
           t == TimerFor(s)
<1>1. /\ o \in Nat /\ d \in Nat /\ o <= Reach(d) /\ Oldest(s.queue) = o
      /\ FLUSH_TIMER_LEAD_MS \in Nat /\ PRECISE_TIMER_MAX_MS \in Nat
  BY Numbers, Constants DEF Oldest
<1>2. Delay(s) = Max({0, (d - FLUSH_TIMER_LEAD_MS) - o})
  BY DEF Delay, aim
<1> HIDE DEF o, d, t
<1>3. Delay(s) = IF 0 >= (d - FLUSH_TIMER_LEAD_MS) - o THEN 0 ELSE (d - FLUSH_TIMER_LEAD_MS) - o
  <2>1. (d - FLUSH_TIMER_LEAD_MS) - o \in Int
    BY <1>1
  <2>. QED BY <1>2, <2>1, MaxOfTwo
<1>4. Delay(s) \in Nat /\ o + Delay(s) >= d - FLUSH_TIMER_LEAD_MS /\ o + Delay(s) <= Reach(d)
  BY <1>1, <1>3 DEF Reach
<1>5. ASSUME Delay(s) > PRECISE_TIMER_MAX_MS
      PROVE  t \in Timers /\ t.on /\ AimedAt(s.queue, d, t)
  <2>1. /\ t \in Timers /\ t.on /\ t.coarse /\ ~t.stray /\ t.left = Delay(s) - PRECISE_TIMER_MAX_MS
        /\ t.late \in Nat /\ t.late <= CoarseLate /\ t.left \in Nat
    BY <1>4, <1>5, Constants DEF TimerFor, SetTimeout, Timers, t
  <2>2. o + t.left <= Reach(d) - Ahead(t)
    <3>1. Ahead(t) = PRECISE_TIMER_MAX_MS /\ Reach(d) \in Int
      BY <2>1, <1>1 DEF Ahead, Reach
    <3>. QED BY <3>1, <2>1, <1>1, <1>4
  <2>3. t.left >= -t.late
    BY <2>1
  <2>. QED BY <2>1, <2>2, <2>3, <1>1 DEF AimedAt
<1>6. ASSUME ~(Delay(s) > PRECISE_TIMER_MAX_MS)
      PROVE  t \in Timers /\ t.on /\ AimedAt(s.queue, d, t)
  <2>1. /\ t \in Timers /\ t.on /\ ~t.coarse /\ ~t.stray /\ t.left = Delay(s)
        /\ t.late = PreciseLate /\ t.late \in Nat
    BY <1>4, <1>6, Constants DEF TimerFor, SetTimeout, Timers, t
  <2>2. o + t.left <= Reach(d) - Ahead(t)
    <3>1. Ahead(t) = 0 /\ Reach(d) \in Int
      BY <2>1, <1>1 DEF Ahead, Reach
    <3>. QED BY <3>1, <2>1, <1>1, <1>4
  <2>3. t.left >= -t.late /\ o + t.left >= d - FLUSH_TIMER_LEAD_MS
    BY <2>1, <1>4
  <2>. QED BY <2>1, <2>2, <2>3, <1>1 DEF AimedAt, o
<1>. QED BY <1>5, <1>6 DEF d, t

(* armFlushTimer: where less than a batch waits, and not past its aim, who *)
(* may send has a timer.                                                   *)
LEMMA ArmIsReady == ASSUME NEW s, Loose(s),
    canSend(s) /\ s.queue # <<>> => ~Bound(s),
    MayArm(s) => s.queue[1] <= Reach(s.deadline)
  PROVE LET r == armFlushTimer(s) IN
    /\ Loose(r) /\ Ready(r)
    /\ r.queue = s.queue /\ r.gate = s.gate /\ r.recorder = s.recorder
<1>1. CASE ~MayArm(s)
  BY <1>1 DEF armFlushTimer, Ready, MayArm
<1>2. CASE MayArm(s)
  <2> DEFINE t == TimerFor(s)
             r == [s EXCEPT !.timer = t]
  <2>1. armFlushTimer(s) = r
    BY <1>2 DEF armFlushTimer, TimerFor
  <2>2. s \in States /\ canSend(s) /\ s.queue # <<>>
    BY <1>2 DEF MayArm, Loose
  <2>3. t \in Timers /\ t.on /\ AimedAt(s.queue, s.deadline, t)
    BY <2>2, <1>2, SetAims
  <2> HIDE DEF t
  <2>4. /\ r \in States /\ r.gate = s.gate /\ r.recorder = s.recorder /\ r.queue = s.queue
        /\ r.heavy = s.heavy /\ r.deadline = s.deadline /\ r.timer = t /\ r.flying = s.flying
        /\ r.batches = s.batches /\ r.cut = s.cut
    BY <2>2, <2>3 DEF States
  <2> HIDE DEF r
  <2>5. Aimed(r)
    BY <2>3, <2>4 DEF Aimed
  <2>6. Held(r)
    BY <2>2, <2>3, <2>4 DEF Loose, Held, canSend
  <2>7. Ready(r)
    BY <2>2, <2>3, <2>4 DEF Ready, canSend, Bound
  <2>. QED BY <2>1, <2>4, <2>5, <2>6, <2>7 DEF Loose
<1>. QED BY <1>1, <1>2
-----------------------------------------------------------------------------
(* The deadline a batch leaves.                                            *)
LEMMA CutDeadline == ASSUME NEW s \in States, NEW full
  PROVE /\ cutByDeadline(s, full) \in flushDeadlineFirst..flushDeadlineMaxMs
        /\ s.batches + 1 < FLUSH_FAST_BATCHES => cutByDeadline(s, full) = s.deadline
<1> DEFINE m == Max({1, s.deadline * 2})
<1>1. s.deadline \in Nat /\ s.deadline * 2 \in Nat /\ s.deadline * 2 >= s.deadline
      /\ flushDeadlineFirst <= s.deadline /\ s.deadline <= flushDeadlineMaxMs
  BY Numbers
<1>2. m \in Int /\ m >= s.deadline
  BY <1>1, MaxOfTwo
<1> HIDE DEF m
<1>3. Min({flushDeadlineMaxMs, m}) = IF flushDeadlineMaxMs <= m THEN flushDeadlineMaxMs ELSE m
  BY <1>2, MinOfTwo, Constants
<1>4. \/ cutByDeadline(s, full) = s.deadline
      \/ cutByDeadline(s, full) = Min({flushDeadlineMaxMs, m}) /\ ~(s.batches + 1 < FLUSH_FAST_BATCHES)
  BY DEF cutByDeadline, m
<1>. QED BY <1>1, <1>2, <1>3, <1>4, Constants

(* A batch of the first n records, and no timer while it is in flight.     *)
LEMMA SentIsSound == ASSUME NEW s, Loose(s), s.queue # <<>>,
    \/ s.early \/ Bound(s) \/ s.recorder # "writes" \/ s.queue[1] >= aim(s) - Rounding,
    NEW n \in 1..Len(s.queue), NEW full, NEW still \in BOOLEAN, still => n < Len(s.queue)
  PROVE LET r == [Sent(s, n, full, still) EXCEPT !.timer = Off] IN
    /\ Loose(r) /\ r.flying /\ r.timer = Off
    /\ r.gate = s.gate /\ r.recorder = s.recorder /\ Len(r.queue) <= Len(s.queue)
<1> DEFINE q == SubSeq(s.queue, n + 1, Len(s.queue))
           d == cutByDeadline(s, full)
           c == [cut |-> TRUE, age |-> s.queue[1], aim |-> aim(s),
                 early |-> s.early \/ Bound(s) \/ s.recorder # "writes"]
           b == Counted(s, 1)
           r == [Sent(s, n, full, still) EXCEPT !.timer = Off]
<1>1. s \in States /\ Held(s)
  BY DEF Loose
<1>2. Len(s.queue) \in Nat /\ s.queue[1] \in Nat /\ aim(s) \in Int
      /\ \A i \in 1..Len(s.queue) : s.queue[i] \in 0..MaxAge
  BY <1>1, Numbers
<1>3. q \in Seq(0..MaxAge) /\ Len(q) = Len(s.queue) - n
  <2>1. \A i \in n + 1 .. Len(s.queue) : s.queue[i] \in 0..MaxAge
    BY <1>2
  <2>2. /\ q \in Seq(0..MaxAge)
        /\ Len(q) = IF n + 1 <= Len(s.queue) THEN Len(s.queue) - (n + 1) + 1 ELSE 0
    BY <1>2, <2>1, SubSeqProperties
  <2> HIDE DEF q
  <2>. QED BY <1>2, <2>2
<1>4. d \in flushDeadlineFirst..flushDeadlineMaxMs
      /\ (s.batches + 1 < FLUSH_FAST_BATCHES => d = s.deadline)
  BY <1>1, CutDeadline
<1>5. b \in 0..FLUSH_FAST_BATCHES /\ (b < FLUSH_FAST_BATCHES => s.batches + 1 < FLUSH_FAST_BATCHES)
  BY <1>1, CountedGrows
<1>6. c \in Cuts /\ NeverEarly(c)
  <2>1. s.early \in BOOLEAN /\ Bound(s) \in BOOLEAN
    BY <1>1, Numbers DEF States
  <2>2. c \in Cuts
    BY <1>2, <2>1 DEF Cuts
  <2>3. ASSUME ~c.early PROVE s.queue[1] >= aim(s) - Rounding
    BY <2>3, Zenon
  <2>. QED BY <2>2, <2>3 DEF NeverEarly
<1>7. r = [[s EXCEPT !.queue = q, !.heavy = still, !.deadline = d, !.flying = TRUE,
                     !.batches = b, !.cut = c] EXCEPT !.timer = Off]
  BY DEF Sent
<1>8. q = <<>> => Len(q) = 0
  BY EmptySeq
<1> HIDE DEF q, d, c, b, r
<1>9. /\ r \in States /\ r.gate = s.gate /\ r.recorder = s.recorder /\ r.queue = q
      /\ r.heavy = still /\ r.deadline = d /\ r.timer = Off /\ r.flying = TRUE
      /\ r.batches = b /\ r.cut = c
  BY <1>1, <1>3, <1>4, <1>5, <1>6, <1>7, TimerOff DEF States
<1>10. Aimed(r)
  BY <1>9, TimerOff DEF Aimed
<1>11. Held(r)
  <2>1. still => q # <<>>
    BY <1>2, <1>3, <1>8
  <2>2. b < FLUSH_FAST_BATCHES => d = flushDeadlineFirst
    <3>1. SUFFICES ASSUME s.batches + 1 < FLUSH_FAST_BATCHES PROVE d = flushDeadlineFirst
      BY <1>5
    <3>2. s.batches < FLUSH_FAST_BATCHES
      BY <3>1, <1>1, Numbers, Constants
    <3>. QED BY <3>1, <3>2, <1>1, <1>4 DEF Held
  <2>. QED BY <1>6, <1>9, <2>1, <2>2, TimerOff DEF Held
<1>12. Len(r.queue) <= Len(s.queue)
  BY <1>2, <1>3, <1>9
<1>. QED BY <1>9, <1>10, <1>11, <1>12 DEF Loose, r

(* pump, for a batch that may be early or has reached its deadline: it is  *)
(* in flight, or there is nothing to send, or none may be sent.            *)
LEMMA PumpIsReady == ASSUME NEW s, Loose(s),
    s.queue # <<>> =>
      \/ s.early \/ Bound(s) \/ s.recorder # "writes" \/ s.queue[1] >= aim(s) - Rounding,
    NEW r \in pump(s)
  PROVE /\ Loose(r) /\ Ready(r) /\ r.gate = s.gate /\ r.recorder = s.recorder
        /\ Len(r.queue) <= Len(s.queue)
        /\ ~s.timer.on \/ (canSend(s) /\ s.queue # <<>>) => ~r.timer.on
<1>1. s \in States /\ Len(s.queue) \in Nat
  BY Numbers DEF Loose
<1>2. CASE ~canSend(s)
  <2>1. r = s
    BY <1>2 DEF pump
  <2>. QED BY <1>1, <1>2, <2>1 DEF Ready
<1>3. CASE canSend(s) /\ s.queue = <<>>
  <2>1. r \in SendsEmpty(s)
    BY <1>3 DEF pump
  <2>2. CASE r = s
    BY <1>1, <1>3, <2>2 DEF Ready
  <2>3. CASE r # s
    <3>1. s.recorder = "ended" /\ r = [s EXCEPT !.flying = TRUE, !.batches = Counted(s, 1)]
      BY <2>1, <2>3 DEF SendsEmpty
    <3>2. /\ Counted(s, 1) \in 0..FLUSH_FAST_BATCHES
          /\ Counted(s, 1) < FLUSH_FAST_BATCHES => s.batches + 1 < FLUSH_FAST_BATCHES
      BY <1>1, CountedGrows
    <3>3. /\ r \in States /\ r.gate = s.gate /\ r.recorder = s.recorder /\ r.queue = s.queue
          /\ r.heavy = s.heavy /\ r.deadline = s.deadline /\ r.timer = s.timer
          /\ r.flying = TRUE /\ r.batches = Counted(s, 1) /\ r.cut = s.cut
      BY <1>1, <3>1, <3>2 DEF States
    <3>4. Aimed(r)
      BY <3>3 DEF Aimed, Loose
    <3>5. Held(r)
      <4>1. r.batches < FLUSH_FAST_BATCHES => s.batches < FLUSH_FAST_BATCHES
        BY <1>1, <3>2, <3>3, Numbers, Constants
      <4>. QED BY <1>3, <3>1, <3>3, <4>1 DEF Held, Loose
    <3>6. Ready(r)
      BY <3>3 DEF Ready, canSend
    <3>. QED BY <1>1, <1>3, <3>3, <3>4, <3>5, <3>6 DEF Loose
  <2>. QED BY <2>2, <2>3
<1>4. CASE canSend(s) /\ s.queue # <<>>
  <2>1. PICK b \in Sends(s) : r = [b EXCEPT !.timer = Off]
    BY <1>4 DEF pump
  <2>2. PICK c \in [n : 1..Min({flushRecords, Len(s.queue)}), full : BOOLEAN, still : BOOLEAN] :
          (c.still => s.heavy /\ c.n < Len(s.queue)) /\ b = Sent(s, c.n, c.full, c.still)
    BY <2>1 DEF Sends
  <2>3. c.n \in 1..Len(s.queue) /\ c.still \in BOOLEAN
    <3>1. Min({flushRecords, Len(s.queue)}) = IF flushRecords <= Len(s.queue)
                                             THEN flushRecords ELSE Len(s.queue)
      BY <1>1, MinOfTwo, Constants
    <3>2. c.n \in 1..Min({flushRecords, Len(s.queue)}) /\ c.still \in BOOLEAN
      BY <2>2
    <3>. QED BY <1>1, <3>1, <3>2, Constants
  <2>4. r = [Sent(s, c.n, c.full, c.still) EXCEPT !.timer = Off]
    BY <2>1, <2>2
  <2>5. /\ Loose(r) /\ r.flying /\ r.timer = Off
        /\ r.gate = s.gate /\ r.recorder = s.recorder /\ Len(r.queue) <= Len(s.queue)
    BY <1>4, <2>2, <2>3, <2>4, SentIsSound
  <2>. QED BY <2>5, TimerOff DEF Ready, canSend
<1>. QED BY <1>2, <1>3, <1>4
-----------------------------------------------------------------------------
(* evictToCap keeps what it is given where no timer is armed: where a      *)
(* batch may be sent, nothing is left for it.                              *)
LEMMA EvictedIsReady == ASSUME NEW s, Loose(s), Ready(s), ~s.timer.on, NEW r \in Evicted(s)
  PROVE /\ Loose(r) /\ Ready(r) /\ ~r.timer.on
        /\ r.gate = s.gate /\ r.recorder = s.recorder /\ Len(r.queue) <= Len(s.queue)
<1>1. s \in States /\ Held(s)
  BY DEF Loose
<1>2. PICK c \in [pinned : 0..2, n : 0..Len(s.queue), still : BOOLEAN] :
        /\ c.pinned + c.n <= Len(s.queue) /\ (c.still => s.heavy /\ c.n < Len(s.queue))
        /\ r = [s EXCEPT !.queue = SubSeq(s.queue, 1, c.pinned)
                                   \o SubSeq(s.queue, c.pinned + c.n + 1, Len(s.queue)),
                         !.heavy = c.still]
  BY DEF Evicted
<1> DEFINE p == c.pinned
           n == c.n
           a == SubSeq(s.queue, 1, p)
           b == SubSeq(s.queue, p + n + 1, Len(s.queue))
           q == a \o b
<1>3. /\ p \in Nat /\ n \in Nat /\ Len(s.queue) \in Nat /\ p + n <= Len(s.queue)
      /\ c.still \in BOOLEAN
      /\ \A i \in 1..Len(s.queue) : s.queue[i] \in 0..MaxAge
  BY <1>1, <1>2, Numbers
<1>4. c.still => n < Len(s.queue)
  BY <1>2
<1> HIDE DEF p, n
<1>5. a \in Seq(0..MaxAge) /\ Len(a) = p
  <2>1. \A i \in 1..p : s.queue[i] \in 0..MaxAge
    BY <1>3
  <2>2. a \in Seq(0..MaxAge) /\ Len(a) = IF 1 <= p THEN p - 1 + 1 ELSE 0
    BY <1>3, <2>1, SubSeqProperties
  <2> HIDE DEF a
  <2>. QED BY <1>3, <2>2
<1>6. b \in Seq(0..MaxAge) /\ Len(b) = Len(s.queue) - (p + n)
  <2>1. \A i \in p + n + 1 .. Len(s.queue) : s.queue[i] \in 0..MaxAge
    BY <1>3
  <2>2. /\ b \in Seq(0..MaxAge)
        /\ Len(b) = IF p + n + 1 <= Len(s.queue) THEN Len(s.queue) - (p + n + 1) + 1 ELSE 0
    BY <1>3, <2>1, SubSeqProperties
  <2> HIDE DEF b
  <2>. QED BY <1>3, <2>2
<1> HIDE DEF a, b
<1>7. q \in Seq(0..MaxAge) /\ Len(q) = Len(s.queue) - n
  <2>1. q \in Seq(0..MaxAge) /\ Len(q) = Len(a) + Len(b)
    BY <1>5, <1>6, ConcatProperties
  <2> HIDE DEF q
  <2>. QED BY <1>3, <1>5, <1>6, <2>1
<1>8. r = [s EXCEPT !.queue = q, !.heavy = c.still]
  BY <1>2 DEF a, b, q, p, n
<1> HIDE DEF q
<1>9. /\ r \in States /\ r.gate = s.gate /\ r.recorder = s.recorder /\ r.queue = q
      /\ r.heavy = c.still /\ r.deadline = s.deadline /\ r.timer = s.timer
      /\ r.flying = s.flying /\ r.batches = s.batches /\ r.cut = s.cut
  BY <1>1, <1>3, <1>7, <1>8 DEF States
<1>10. q = <<>> => Len(q) = 0
  BY EmptySeq
<1>11. c.still => q # <<>>
  BY <1>3, <1>4, <1>7, <1>10
<1>12. Aimed(r) /\ Held(r)
  BY <1>1, <1>9, <1>11 DEF Aimed, Held
<1>13. Ready(r)
  <2>1. SUFFICES ASSUME canSend(r), r.queue # <<>> PROVE FALSE
    BY DEF Ready
  <2>2. canSend(s)
    BY <2>1, <1>9 DEF canSend
  <2>3. s.queue = <<>>
    BY <2>2 DEF Ready
  <2>4. Len(q) = 0
    BY <2>3, <1>1, <1>3, <1>7, Numbers
  <2>. QED BY <2>1, <2>4, <1>7, <1>9, EmptySeq
<1>14. Len(r.queue) <= Len(s.queue)
  BY <1>3, <1>7, <1>9
<1>. QED BY <1>9, <1>12, <1>13, <1>14 DEF Loose

(* enqueue: the record sends a batch, overfills the ring, or waits for its *)
(* timer.                                                                  *)
LEMMA EnqueuedIsSound == ASSUME NEW s, Loose(s), Ready(s), s.flying => ~s.timer.on,
    NEW r \in Enqueued(s)
  PROVE Sound(r) /\ r.gate = s.gate /\ r.recorder = s.recorder
<1>1. s \in States /\ s.queue \in Seq(0..MaxAge) /\ Held(s) /\ Aimed(s) /\ Len(s.queue) \in Nat
  BY Numbers DEF Loose, States
<1>2. /\ Append(s.queue, 0) \in Seq(0..MaxAge) /\ Append(s.queue, 0) # <<>>
      /\ Append(s.queue, 0)[1] = Oldest(s.queue)
  <2>1. 0 \in 0..MaxAge
    BY <1>1, Numbers
  <2>2. /\ Append(s.queue, 0) \in Seq(0..MaxAge) /\ Len(Append(s.queue, 0)) = Len(s.queue) + 1
        /\ \A i \in 1..Len(s.queue) : Append(s.queue, 0)[i] = s.queue[i]
        /\ Append(s.queue, 0)[Len(s.queue) + 1] = 0
    BY <1>1, <2>1, AppendProperties
  <2>3. CASE s.queue = <<>>
    <3>1. Len(s.queue) = 0
      BY <2>3, EmptySeq
    <3>2. Append(s.queue, 0)[1] = 0
      BY <2>2, <3>1
    <3>. QED BY <2>2, <2>3, <3>1, <3>2, EmptySeq DEF Oldest
  <2>4. CASE s.queue # <<>>
    <3>1. 1 \in 1..Len(s.queue)
      BY <2>4, <1>1, Numbers
    <3>2. Append(s.queue, 0)[1] = s.queue[1]
      BY <2>2, <3>1
    <3>3. Append(s.queue, 0) # <<>>
      BY <1>1, <2>2, EmptySeq
    <3>. QED BY <2>2, <2>4, <3>2, <3>3 DEF Oldest
  <2>. QED BY <2>3, <2>4
<1>3. PICK u : /\ r = armFlushTimer(u) /\ Len(u.queue) <= ringRecords
               /\ \E h \in BOOLEAN : u \in Overfull(Waits(s, h)) \cup Fits(Waits(s, h))
  BY DEF Enqueued
<1>4. PICK h \in BOOLEAN : u \in Overfull(Waits(s, h)) \cup Fits(Waits(s, h))
  BY <1>3
<1> DEFINE w == Waits(s, h)
           o == [w EXCEPT !.early = TRUE]
<1>5. /\ Loose(w) /\ w.queue = Append(s.queue, 0) /\ w.gate = s.gate
      /\ w.recorder = s.recorder /\ w.timer = s.timer /\ w.flying = s.flying
      /\ w.deadline = s.deadline
  <2> DEFINE q == Append(s.queue, 0)
             y == s.heavy \/ h
  <2>1. q \in Seq(0..MaxAge) /\ y \in BOOLEAN
    <3>1. s.heavy \in BOOLEAN
      BY <1>1 DEF States
    <3>2. y \in BOOLEAN
      BY <3>1, <1>4
    <3>. QED BY <1>2, <3>2
  <2>2. w = [s EXCEPT !.queue = q, !.heavy = y]
    BY DEF Waits
  <2> HIDE DEF q, y, w
  <2>3. /\ w \in States /\ w.gate = s.gate /\ w.recorder = s.recorder /\ w.queue = q
        /\ w.heavy = y /\ w.deadline = s.deadline /\ w.timer = s.timer
        /\ w.flying = s.flying /\ w.batches = s.batches /\ w.cut = s.cut
    BY <1>1, <2>1, <2>2 DEF States
  <2>4. q # <<>> /\ q[1] = Oldest(s.queue) /\ Oldest(q) = Oldest(s.queue)
    BY <1>2 DEF q, Oldest
  <2>5. Aimed(w)
    BY <1>1, <2>3, <2>4 DEF Aimed, AimedAt, Oldest
  <2>6. Held(w)
    BY <1>1, <2>3, <2>4 DEF Held
  <2>. QED BY <2>3, <2>5, <2>6 DEF Loose, q
<1> HIDE DEF w
<1>6. /\ Loose(o) /\ o.queue = w.queue /\ o.gate = s.gate
      /\ o.recorder = s.recorder /\ o.timer = s.timer /\ o.flying = s.flying /\ o.early
  <2>1. w \in States
    BY <1>5 DEF Loose
  <2>2. /\ o \in States /\ o.gate = w.gate /\ o.recorder = w.recorder /\ o.queue = w.queue
        /\ o.heavy = w.heavy /\ o.deadline = w.deadline /\ o.timer = w.timer
        /\ o.flying = w.flying /\ o.batches = w.batches /\ o.cut = w.cut /\ o.early
    BY <2>1 DEF States
  <2> HIDE DEF o
  <2>3. Aimed(o) /\ Held(o)
    BY <1>5, <2>2 DEF Loose, Aimed, Held
  <2>. QED BY <1>5, <2>2, <2>3 DEF Loose
<1> HIDE DEF o
<1>7. CASE u \in Overfull(w)
  <2>1. PICK x \in pump(o) : u \in Evicted(x)
    BY <1>7 DEF Overfull, o
  <2>2. ~s.timer.on \/ canSend(o)
    BY <1>1, <1>6 DEF Held, canSend
  <2>3. o.queue # <<>> /\ (~o.timer.on \/ (canSend(o) /\ o.queue # <<>>))
    BY <1>2, <1>5, <1>6, <2>2
  <2>4. Loose(x) /\ Ready(x) /\ x.gate = s.gate /\ x.recorder = s.recorder /\ ~x.timer.on
    BY <1>6, <2>3, PumpIsReady
  <2>5. Loose(u) /\ Ready(u) /\ u.gate = s.gate /\ u.recorder = s.recorder
    BY <2>1, <2>4, EvictedIsReady
  <2>. QED BY <1>3, <2>5, ReadyIsArmed DEF Sound
<1>8. CASE Bound(w) /\ u \in pump(w)
  <2>1. Loose(u) /\ Ready(u) /\ u.gate = s.gate /\ u.recorder = s.recorder
    BY <1>5, <1>8, PumpIsReady
  <2>. QED BY <1>3, <2>1, ReadyIsArmed DEF Sound
<1>9. CASE ~Bound(w) /\ u = w
  <2>1. MayArm(u) => u.queue[1] <= Reach(u.deadline)
    <3>1. SUFFICES ASSUME MayArm(u) PROVE u.queue[1] <= Reach(u.deadline)
      OBVIOUS
    <3>2. s.queue = <<>>
      BY <3>1, <1>5, <1>9 DEF MayArm, canSend, Ready
    <3>3. u.queue[1] = 0 /\ Reach(u.deadline) \in Nat
      BY <3>2, <1>1, <1>2, <1>5, <1>9, Numbers DEF Oldest
    <3>. QED BY <3>3
  <2>2. Loose(r) /\ Ready(r) /\ r.queue = u.queue /\ r.gate = s.gate /\ r.recorder = s.recorder
    BY <1>3, <1>5, <1>9, <2>1, ArmIsReady
  <2>. QED BY <1>3, <2>2 DEF Sound
<1>10. u \in Overfull(w) \/ (Bound(w) /\ u \in pump(w)) \/ (~Bound(w) /\ u = w)
  BY <1>4 DEF Fits, w
<1>. QED BY <1>7, <1>8, <1>9, <1>10

(* Once silent, nothing waits and no timer is armed.                       *)
LEMMA SilentIsSound == ASSUME NEW s, Loose(s), NEW r, r = Silent(s) PROVE Sound(r)
<1>1. s \in States /\ Held(s) /\ <<>> \in Seq(0..MaxAge) /\ Len(<<>>) = 0 /\ ringRecords >= 0
  BY EmptySeq, Constants DEF Loose
<1>2. /\ r \in States /\ r.gate = "off" /\ r.queue = <<>> /\ r.heavy = FALSE
      /\ r.deadline = s.deadline /\ r.timer = Off /\ r.batches = s.batches /\ r.cut = s.cut
  BY <1>1, TimerOff DEF States, Gates, Silent
<1>3. Aimed(r) /\ Held(r) /\ Ready(r) /\ Len(r.queue) <= ringRecords
  BY <1>1, <1>2, TimerOff DEF Aimed, Held, Ready
<1>. QED BY <1>2, <1>3 DEF Sound, Loose

(* drainNow: nothing waits, and a timer it leaves is a stray one.          *)
LEMMA DrainedIsSound == ASSUME NEW s, Sound(s), NEW r \in Drained(s) PROVE Sound(r)
<1>1. s \in States /\ Held(s) /\ Aimed(s)
  BY DEF Sound, Loose
<1>2. /\ <<>> \in Seq(0..MaxAge) /\ Len(<<>>) = 0 /\ ringRecords >= 0
  BY EmptySeq, Constants
<1>3. ASSUME NEW n \in Nat, NEW f \in BOOLEAN, NEW v, s.gate = "open", f => s.flying,
             v = Left(s, n, f)
      PROVE  v \in States /\ Sound(v)
  <2> DEFINE t == IF s.timer.on THEN [s.timer EXCEPT !.stray = TRUE] ELSE s.timer
             b == Counted(s, n)
  <2>1. b \in 0..FLUSH_FAST_BATCHES /\ (b < FLUSH_FAST_BATCHES => s.batches + n < FLUSH_FAST_BATCHES)
    BY <1>1, <1>3, CountedGrows
  <2>2. /\ t \in Timers /\ t.on = s.timer.on /\ t.left = s.timer.left /\ t.late = s.timer.late
        /\ t.coarse = s.timer.coarse /\ (t.on => t.stray)
    BY <1>1 DEF States, Timers
  <2>3. ~t.on => t = Off
    BY <1>1 DEF Held
  <2> DEFINE q == <<>>
  <2>4. v = [s EXCEPT !.queue = q, !.heavy = FALSE, !.flying = f, !.timer = t, !.batches = b]
    BY <1>3, <1>1 DEF States, Left
  <2>0. q \in Seq(0..MaxAge)
    BY <1>2
  <2> HIDE DEF t, b, q
  <2>5. /\ v \in States /\ v.gate = s.gate /\ v.recorder = s.recorder /\ v.queue = q
        /\ v.heavy = FALSE /\ v.deadline = s.deadline /\ v.timer = t
        /\ v.flying = f /\ v.batches = b /\ v.cut = s.cut
    <3>1. f \in BOOLEAN /\ t \in Timers
      BY <2>2
    <3>. QED BY <3>1, <1>1, <2>0, <2>1, <2>4 DEF States
  <2> USE DEF q
  <2>6. Aimed(v)
    <3>1. SUFFICES ASSUME s.timer.on PROVE AimedAt(<<>>, s.deadline, t)
      BY <2>2, <2>5 DEF Aimed
    <3>2. AimedAt(s.queue, s.deadline, s.timer)
      BY <3>1, <1>1 DEF Aimed
    <3>3. /\ t.left >= -t.late /\ t.late <= (IF t.coarse THEN CoarseLate ELSE PreciseLate)
          /\ Oldest(s.queue) + t.left <= Reach(s.deadline) - Ahead(t) /\ t.stray
      BY <3>1, <3>2, <2>2 DEF AimedAt, Ahead
    <3>4. Oldest(s.queue) \in Nat /\ t.left \in Int /\ Reach(s.deadline) - Ahead(t) \in Int
      BY <1>1, <2>2, Numbers, Constants DEF Timers, Ahead
    <3>5. 0 + t.left <= Reach(s.deadline) - Ahead(t)
      <4> DEFINE x == Oldest(s.queue)
                 y == Reach(s.deadline) - Ahead(t)
      <4>1. x \in Nat /\ y \in Int /\ x + t.left <= y
        BY <3>3, <3>4
      <4> HIDE DEF x, y
      <4>2. 0 + t.left <= y
        BY <4>1, <3>4
      <4>. QED BY <4>2 DEF y
    <3>. QED BY <3>3, <3>5 DEF AimedAt, Oldest
  <2>7. Held(v)
    <3>1. v.batches < FLUSH_FAST_BATCHES => v.deadline = flushDeadlineFirst
      <4>1. SUFFICES ASSUME s.batches + n < FLUSH_FAST_BATCHES PROVE s.deadline = flushDeadlineFirst
        BY <2>1, <2>5
      <4>2. s.batches < FLUSH_FAST_BATCHES
        BY <4>1, <1>1, <1>3, Numbers, Constants
      <4>. QED BY <4>2, <1>1 DEF Held
    <3>. QED BY <1>1, <1>3, <2>2, <2>3, <2>5, <3>1 DEF Held
  <2>8. Ready(v) /\ Len(v.queue) <= ringRecords
    BY <1>2, <2>5 DEF Ready
  <2>. QED BY <2>5, <2>6, <2>7, <2>8 DEF Sound, Loose
<1>4. CASE s.gate # "open"
  BY <1>4 DEF Drained
<1>5. CASE s.gate = "open"
  <2>1. PICK v \in Leaving(s) : r = v \/ r = Silent(v)
    BY <1>5 DEF Drained
  <2>2. PICK c \in [n : DrainCounts(s), flying : {s.flying, FALSE}] : v = Left(s, c.n, c.flying)
    BY <2>1 DEF Leaving
  <2>3. c.n \in Nat
    BY <1>1, <2>2, Numbers DEF DrainCounts
  <2>4. c.flying \in BOOLEAN /\ (c.flying => s.flying)
    BY <1>1, <2>2 DEF States
  <2>5. v \in States /\ Sound(v)
    BY <1>3, <1>5, <2>2, <2>3, <2>4
  <2>. QED BY <2>1, <2>5, SilentIsSound DEF Sound
<1>. QED BY <1>4, <1>5

(* open: what was held is sent, where a batch may be.                      *)
LEMMA OpenedIsSound == ASSUME NEW s, Loose(s), s.gate # "open", Len(s.queue) <= ringRecords,
    NEW r \in Opened(s)
  PROVE Sound(r)
<1> DEFINE o == [s EXCEPT !.gate = "open", !.early = TRUE]
<1>1. s \in States /\ Held(s) /\ Aimed(s) /\ ~s.timer.on
  BY DEF Loose, Held
<1>2. /\ o \in States /\ o.gate = "open" /\ o.recorder = s.recorder /\ o.queue = s.queue
      /\ o.heavy = s.heavy /\ o.deadline = s.deadline /\ o.timer = s.timer
      /\ o.flying = s.flying /\ o.batches = s.batches /\ o.cut = s.cut /\ o.early
  BY <1>1 DEF States, Gates
<1>3. PICK u \in pump(o) : r = armFlushTimer(u)
  BY DEF Opened
<1> HIDE DEF o
<1>4. Loose(o)
  BY <1>1, <1>2 DEF Loose, Held, Aimed
<1>5. Loose(u) /\ Ready(u) /\ Len(u.queue) <= Len(o.queue)
  BY <1>2, <1>4, PumpIsReady
<1>6. Len(u.queue) <= ringRecords
  <2>1. Len(u.queue) \in Nat /\ Len(s.queue) \in Nat
    BY <1>1, <1>5, Numbers DEF Loose
  <2>. QED BY <2>1, <1>2, <1>5, Constants
<1>. QED BY <1>3, <1>5, <1>6, ReadyIsArmed DEF Sound
-----------------------------------------------------------------------------
(* Between handlers: the transport is as it is, and the last cut.          *)
LEMMA HereFields ==
  /\ Here.gate = gate /\ Here.recorder = recorder /\ Here.queue = queue /\ Here.heavy = heavy
  /\ Here.deadline = flushDeadlineMs /\ Here.timer = timer /\ Here.flying = inFlight
  /\ Here.batches = batches /\ Here.early = FALSE /\ Here.cut = cut
BY DEF Here, Now

LEMMA NowFields ==
  /\ Now.gate = gate /\ Now.recorder = recorder /\ Now.queue = queue /\ Now.heavy = heavy
  /\ Now.deadline = flushDeadlineMs /\ Now.timer = timer /\ Now.flying = inFlight
  /\ Now.batches = batches /\ Now.early = FALSE /\ Now.cut = NoCut
BY DEF Now

LEMMA NoCutIsNotEarly == NoCut \in Cuts /\ NeverEarly(NoCut)
BY DEF NoCut, Cuts, NeverEarly

LEMMA NowIsSound == ASSUME TimerInv PROVE Sound(Now)
<1>1. Here \in States /\ Sound(Here)
  BY DEF TimerInv, Sound, Loose
<1>2. Now \in States
  <2>1. /\ gate \in Gates /\ recorder \in Recorders /\ queue \in Seq(0..MaxAge) /\ heavy \in BOOLEAN
        /\ flushDeadlineMs \in flushDeadlineFirst..flushDeadlineMaxMs /\ timer \in Timers
        /\ inFlight \in BOOLEAN /\ batches \in 0..FLUSH_FAST_BATCHES
    BY <1>1, HereFields DEF States
  <2>. QED BY <2>1, NoCutIsNotEarly DEF Now, States
<1>3. Aimed(Now) /\ Held(Now) /\ Ready(Now) /\ Len(Now.queue) <= ringRecords
  BY <1>1, HereFields, NowFields, NoCutIsNotEarly
  DEF Sound, Loose, Aimed, Held, Ready, canSend, Bound
<1>. QED BY <1>2, <1>3 DEF Sound, Loose

LEMMA BecomesSound == ASSUME NEW r, Sound(r), Become(r) PROVE TimerInv'
<1>1. r \in States
  BY DEF Sound, Loose
<1>2. /\ Here'.gate = r.gate /\ Here'.recorder = r.recorder /\ Here'.queue = r.queue
      /\ Here'.heavy = r.heavy /\ Here'.deadline = r.deadline /\ Here'.timer = r.timer
      /\ Here'.flying = r.flying /\ Here'.batches = r.batches /\ Here'.cut = r.cut
  BY DEF Become, Here, Now
<1>3. Here' \in States
  <2>1. /\ gate' \in Gates /\ recorder' \in Recorders /\ queue' \in Seq(0..MaxAge)
        /\ heavy' \in BOOLEAN
        /\ flushDeadlineMs' \in flushDeadlineFirst..flushDeadlineMaxMs /\ timer' \in Timers
        /\ inFlight' \in BOOLEAN /\ batches' \in 0..FLUSH_FAST_BATCHES /\ cut' \in Cuts
    BY <1>1 DEF States, Become
  <2>. QED BY <2>1 DEF Here, Now, States
<1>4. Aimed(Here') /\ Held(Here') /\ Ready(Here') /\ Len(Here'.queue) <= ringRecords
  BY <1>2 DEF Sound, Loose, Aimed, Held, Ready, canSend, Bound
<1>. QED BY <1>3, <1>4 DEF TimerInv, Sound, Loose
-----------------------------------------------------------------------------
LEMMA TimerInit == FlushInit => TimerInv
<1>1. SUFFICES ASSUME FlushInit PROVE TimerInv
  OBVIOUS
<1>2. /\ <<>> \in Seq(0..MaxAge) /\ Len(<<>>) = 0 /\ ringRecords >= 0
      /\ flushDeadlineFirst \in flushDeadlineFirst..flushDeadlineMaxMs
      /\ 0 \in 0..FLUSH_FAST_BATCHES
  BY EmptySeq, Constants
<1>3. Here \in States
  <2>1. /\ gate \in Gates /\ recorder \in Recorders /\ queue \in Seq(0..MaxAge) /\ heavy \in BOOLEAN
        /\ flushDeadlineMs \in flushDeadlineFirst..flushDeadlineMaxMs /\ timer \in Timers
        /\ inFlight \in BOOLEAN /\ batches \in 0..FLUSH_FAST_BATCHES /\ cut \in Cuts
    BY <1>1, <1>2, TimerOff, NoCutIsNotEarly DEF FlushInit, Gates, Recorders
  <2>. QED BY <2>1 DEF Here, Now, States
<1>4. Aimed(Here) /\ Held(Here) /\ Ready(Here) /\ Len(Here.queue) <= ringRecords
  BY <1>1, <1>2, HereFields, TimerOff, NoCutIsNotEarly DEF FlushInit, Aimed, Held, Ready
<1>. QED BY <1>3, <1>4 DEF TimerInv, Sound, Loose

LEMMA EnqueueKeeps == ASSUME TimerInv, Enqueue PROVE TimerInv'
<1>1. Loose(Now) /\ Ready(Now) /\ (Now.flying => ~Now.timer.on)
  BY NowIsSound, NowFields DEF Enqueue, Sound, Loose, Held
<1>2. PICK r \in Enqueued(Now) : Become(r)
  BY DEF Enqueue
<1>3. Sound(r)
  BY <1>1, EnqueuedIsSound
<1>. QED BY <1>2, <1>3, BecomesSound

LEMMA ConfigureKeeps == ASSUME TimerInv, Configure PROVE TimerInv'
<1>1. PICK h \in {h \in BOOLEAN : h => queue # <<>>} :
        \E e \in Evicted([Now EXCEPT !.heavy = h]) :
          Become([e EXCEPT !.gate = "waiting-for-consent"]) \/ \E r \in Opened(e) : Become(r)
  BY DEF Configure
<1> DEFINE s == [Now EXCEPT !.heavy = h]
<1>2. Now \in States /\ Aimed(Now) /\ Held(Now) /\ Len(Now.queue) <= ringRecords
      /\ Now.gate = "configuring" /\ ~Now.timer.on
  BY NowIsSound, NowFields DEF Configure, Sound, Loose, Held
<1>3. /\ s \in States /\ s.gate = Now.gate /\ s.recorder = Now.recorder /\ s.queue = Now.queue
      /\ s.heavy = h /\ s.deadline = Now.deadline /\ s.timer = Now.timer
      /\ s.flying = Now.flying /\ s.batches = Now.batches /\ s.cut = Now.cut
  BY <1>1, <1>2 DEF States
<1>4. PICK e \in Evicted(s) :
        Become([e EXCEPT !.gate = "waiting-for-consent"]) \/ \E r \in Opened(e) : Become(r)
  BY <1>1
<1> HIDE DEF s
<1>5. Loose(s) /\ Ready(s) /\ ~s.timer.on
  <2>1. h => s.queue # <<>>
    BY <1>1, <1>3, NowFields
  <2>2. Aimed(s) /\ Held(s) /\ Ready(s)
    BY <1>2, <1>3, <2>1 DEF Held, Aimed, Ready, canSend
  <2>. QED BY <1>2, <1>3, <2>2 DEF Loose
<1>6. /\ Loose(e) /\ e.gate = "configuring" /\ ~e.timer.on
      /\ Len(e.queue) <= Len(s.queue)
  BY <1>2, <1>3, <1>5, EvictedIsReady
<1>7. Len(e.queue) <= ringRecords
  <2>1. Len(e.queue) \in Nat /\ Len(s.queue) \in Nat
    BY <1>3, <1>6, Numbers DEF Loose
  <2>. QED BY <2>1, <1>2, <1>3, <1>6, Constants
<1>8. CASE Become([e EXCEPT !.gate = "waiting-for-consent"])
  <2> DEFINE w == [e EXCEPT !.gate = "waiting-for-consent"]
  <2>1. /\ w \in States /\ w.gate = "waiting-for-consent" /\ w.recorder = e.recorder
        /\ w.queue = e.queue
        /\ w.heavy = e.heavy /\ w.deadline = e.deadline /\ w.timer = e.timer
        /\ w.flying = e.flying /\ w.batches = e.batches /\ w.cut = e.cut
    BY <1>6 DEF Loose, States, Gates
  <2> HIDE DEF w
  <2>2. Aimed(w) /\ Held(w) /\ Ready(w) /\ Len(w.queue) <= ringRecords
    BY <1>6, <1>7, <2>1 DEF Loose, Aimed, Held, Ready, canSend
  <2>3. Sound(w)
    BY <2>1, <2>2 DEF Sound, Loose
  <2>. QED BY <1>8, <2>3, BecomesSound DEF w
<1>9. CASE \E r \in Opened(e) : Become(r)
  BY <1>6, <1>7, <1>9, OpenedIsSound, BecomesSound
<1>. QED BY <1>4, <1>8, <1>9

LEMMA ConsentKeeps == ASSUME TimerInv, Consent PROVE TimerInv'
<1>1. Loose(Now) /\ Now.gate # "open" /\ Len(Now.queue) <= ringRecords
  BY NowIsSound, NowFields DEF Consent, Sound
<1>. QED BY <1>1, OpenedIsSound, BecomesSound DEF Consent

(* pump as a handler's last step, for a batch that may be early.           *)
LEMMA PumpedIsSound == ASSUME NEW s, Sound(s), s.early \/ s.recorder # "writes", NEW r \in pump(s)
  PROVE Sound(r)
<1>1. Loose(r) /\ Ready(r) /\ Len(r.queue) <= Len(s.queue)
  BY PumpIsReady DEF Sound
<1>2. Len(r.queue) \in Nat /\ Len(s.queue) \in Nat
  BY <1>1, Numbers DEF Sound, Loose
<1>. QED BY <1>1, <1>2, Constants DEF Sound

LEMMA FlushKeeps == ASSUME TimerInv, flush PROVE TimerInv'
<1> DEFINE s == [Now EXCEPT !.early = TRUE]
<1>1. PICK r \in pump(s) : Become(r)
  BY DEF flush
<1>2. /\ s \in States /\ s.gate = Now.gate /\ s.recorder = Now.recorder /\ s.queue = Now.queue
      /\ s.heavy = Now.heavy /\ s.deadline = Now.deadline /\ s.timer = Now.timer
      /\ s.flying = Now.flying /\ s.batches = Now.batches /\ s.cut = Now.cut /\ s.early
  BY NowIsSound DEF Sound, Loose, States
<1> HIDE DEF s
<1>3. Sound(s)
  BY <1>2, NowIsSound DEF Sound, Loose, Aimed, Held, Ready, canSend, Bound
<1>. QED BY <1>1, <1>2, <1>3, PumpedIsSound, BecomesSound

(* A session that is over: the records that wait are as they were.         *)
LEMMA OverIsSound == ASSUME TimerInv, recorder # "ended", NEW over \in {"halted", "ended"}
  PROVE LET s == [Now EXCEPT !.recorder = over] IN
    Sound(s) /\ s.recorder = over /\ (s.flying => ~s.timer.on)
<1> DEFINE s == [Now EXCEPT !.recorder = over]
<1>1. /\ s \in States /\ s.gate = Now.gate /\ s.recorder = over /\ s.queue = Now.queue
      /\ s.heavy = Now.heavy /\ s.deadline = Now.deadline /\ s.timer = Now.timer
      /\ s.flying = Now.flying /\ s.batches = Now.batches /\ s.cut = Now.cut
  BY NowIsSound DEF Sound, Loose, States, Recorders
<1> HIDE DEF s
<1>2. Now.flying => ~Now.timer.on
  BY NowIsSound, NowFields DEF Sound, Loose, Held
<1>3. Aimed(s) /\ Held(s) /\ Ready(s) /\ Len(s.queue) <= ringRecords
  BY <1>1, <1>2, NowIsSound DEF Sound, Loose, Aimed, Held, Ready, canSend, Bound
<1>. QED BY <1>1, <1>2, <1>3 DEF Sound, Loose, s

LEMMA EndKeeps == ASSUME TimerInv, End PROVE TimerInv'
<1> DEFINE s == [Now EXCEPT !.recorder = "ended"]
<1>1. PICK e \in {s} \cup Enqueued(s) : \E r \in pump(e) \cup Drained(e) : Become(r)
  BY DEF End
<1>2. Sound(s) /\ s.recorder = "ended" /\ (s.flying => ~s.timer.on)
  BY OverIsSound DEF End
<1> HIDE DEF s
<1>3. Sound(e) /\ e.recorder = "ended"
  BY <1>1, <1>2, EnqueuedIsSound DEF Sound
<1>4. PICK r \in pump(e) \cup Drained(e) : Become(r)
  BY <1>1
<1>5. Sound(r)
  BY <1>3, PumpedIsSound, DrainedIsSound
<1>. QED BY <1>4, <1>5, BecomesSound

LEMMA HaltKeeps == ASSUME TimerInv, Halt PROVE TimerInv'
<1> DEFINE s == [Now EXCEPT !.recorder = "halted"]
<1>1. PICK r \in pump(s) : Become(r)
  BY DEF Halt
<1>2. Sound(s) /\ s.recorder = "halted"
  BY OverIsSound DEF Halt
<1> HIDE DEF s
<1>. QED BY <1>1, <1>2, PumpedIsSound, BecomesSound

LEMMA FlushTimerFiresKeeps == ASSUME TimerInv, FlushTimerFires PROVE TimerInv'
<1> DEFINE s == [Now EXCEPT !.timer = Off, !.early = timer.stray]
<1>1. /\ timer.on /\ timer.left <= Rounding
      /\ \E r \in IF timer.coarse THEN {s} ELSE pump(s) : Become(armFlushTimer(r))
  BY DEF FlushTimerFires
<1>2. Now \in States /\ Aimed(Now) /\ Held(Now) /\ Ready(Now) /\ Len(queue) <= ringRecords
      /\ timer \in Timers /\ queue \in Seq(0..MaxAge)
  BY NowIsSound, NowFields DEF Sound, Loose, States
<1>3. /\ s \in States /\ s.gate = gate /\ s.recorder = recorder /\ s.queue = queue
      /\ s.heavy = heavy /\ s.deadline = flushDeadlineMs /\ s.timer = Off
      /\ s.flying = inFlight /\ s.batches = batches /\ s.cut = NoCut /\ s.early = timer.stray
  <2>1. timer.stray \in BOOLEAN
    BY <1>2 DEF Timers
  <2>. QED BY <1>2, <2>1, TimerOff, NowFields DEF States
<1> HIDE DEF s
<1>4. Loose(s)
  <2>1. Aimed(s) /\ Held(s)
    BY <1>2, <1>3, NowFields, TimerOff, NoCutIsNotEarly DEF Aimed, Held
  <2>. QED BY <1>3, <2>1 DEF Loose
<1>5. /\ timer.left >= -timer.late
      /\ timer.late <= (IF timer.coarse THEN CoarseLate ELSE PreciseLate)
      /\ Oldest(queue) + timer.left <= Reach(flushDeadlineMs) - Ahead(timer)
      /\ ~timer.stray => /\ queue # <<>>
                         /\ ~timer.coarse => \/ queue[1] + timer.left >= flushDeadlineMs - FLUSH_TIMER_LEAD_MS
                                             \/ queue[1] = MaxAge
  BY <1>1, <1>2, NowFields DEF Aimed, AimedAt
<1>6. /\ timer.left \in Int /\ timer.late \in Nat /\ flushDeadlineMs \in Nat
      /\ flushDeadlineMs <= flushDeadlineMaxMs /\ MaxAge = flushDeadlineMaxMs + 1
      /\ queue # <<>> => queue[1] \in Nat /\ Oldest(queue) = queue[1]
      /\ Len(queue) \in Nat /\ Reach(flushDeadlineMs) \in Nat
  BY <1>2, NowFields, Numbers DEF Timers, Oldest
<1>7. canSend(s) /\ s.queue # <<>> => ~Bound(s)
  BY <1>2, <1>3, NowFields DEF Ready, canSend, Bound
<1>8. CASE timer.coarse
  <2>1. Become(armFlushTimer(s))
    BY <1>1, <1>8
  <2>2. s.queue # <<>> => s.queue[1] <= Reach(s.deadline)
    <3>1. SUFFICES ASSUME queue # <<>> PROVE queue[1] <= Reach(flushDeadlineMs)
      BY <1>3
    <3>2. timer.late <= CoarseLate /\ Ahead(timer) = PRECISE_TIMER_MAX_MS
          /\ queue[1] + timer.left <= Reach(flushDeadlineMs) - PRECISE_TIMER_MAX_MS
      BY <1>5, <1>6, <1>8, <3>1 DEF Ahead
    <3>. QED BY <1>5, <1>6, <3>1, <3>2, Constants
  <2>3. Loose(armFlushTimer(s)) /\ Ready(armFlushTimer(s)) /\ armFlushTimer(s).queue = queue
    BY <1>3, <1>4, <1>7, <2>2, ArmIsReady DEF MayArm
  <2>4. Sound(armFlushTimer(s))
    BY <1>2, <2>3 DEF Sound
  <2>. QED BY <2>1, <2>4, BecomesSound
<1>9. CASE ~timer.coarse
  <2>1. PICK r \in pump(s) : Become(armFlushTimer(r))
    BY <1>1, <1>9
  <2>2. s.queue # <<>> => s.early \/ s.queue[1] >= aim(s) - Rounding
    <3>1. SUFFICES ASSUME queue # <<>>, ~timer.stray
                   PROVE queue[1] >= flushDeadlineMs - FLUSH_TIMER_LEAD_MS - Rounding
      BY <1>3 DEF aim
    <3>2. queue[1] + timer.left >= flushDeadlineMs - FLUSH_TIMER_LEAD_MS \/ queue[1] = MaxAge
      BY <1>5, <1>9, <3>1
    <3>. QED BY <1>1, <1>6, <3>1, <3>2, Constants
  <2>3. Loose(r) /\ Ready(r) /\ Len(r.queue) <= Len(queue)
    BY <1>3, <1>4, <2>2, PumpIsReady
  <2>4. Len(r.queue) \in Nat
    BY <2>3, Numbers DEF Loose
  <2>5. Sound(r) /\ armFlushTimer(r) = r
    BY <1>2, <1>6, <2>3, <2>4, ReadyIsArmed, Constants DEF Sound
  <2>. QED BY <2>1, <2>5, BecomesSound
<1>. QED BY <1>8, <1>9

LEMMA AfterAnswerKeeps == ASSUME TimerInv, AfterAnswer PROVE TimerInv'
<1> DEFINE s == [Now EXCEPT !.flying = FALSE]
<1>1. inFlight /\ \E r \in IF due(s) THEN pump(s) ELSE {s} : Become(armFlushTimer(r))
  BY DEF AfterAnswer
<1>2. Now \in States /\ Aimed(Now) /\ Held(Now) /\ Len(Now.queue) <= ringRecords
  BY NowIsSound DEF Sound, Loose
<1>3. /\ s \in States /\ s.gate = Now.gate /\ s.recorder = Now.recorder /\ s.queue = Now.queue
      /\ s.heavy = Now.heavy /\ s.deadline = Now.deadline /\ s.timer = Now.timer
      /\ s.flying = FALSE /\ s.batches = Now.batches /\ s.cut = Now.cut
  BY <1>2 DEF States
<1> HIDE DEF s
<1>4. Loose(s) /\ Len(s.queue) \in Nat /\ Len(s.queue) <= ringRecords
  BY <1>2, <1>3, Numbers DEF Loose, Held, Aimed
<1>5. s.queue # <<>> => s.queue[1] \in Nat
  BY <1>3, Numbers
<1>6. aim(s) \in Int /\ aim(s) <= Reach(s.deadline) /\ Reach(s.deadline) \in Nat
  BY <1>3, Numbers
<1>7. CASE due(s)
  <2>1. PICK r \in pump(s) : Become(armFlushTimer(r))
    BY <1>1, <1>7
  <2>2. s.queue # <<>> => Bound(s) \/ s.recorder # "writes" \/ s.queue[1] >= aim(s) - Rounding
    BY <1>5, <1>6, <1>7, Constants DEF due
  <2>3. Loose(r) /\ Ready(r) /\ Len(r.queue) <= Len(s.queue)
    BY <1>4, <2>2, PumpIsReady
  <2>4. Len(r.queue) \in Nat
    BY <2>3, Numbers DEF Loose
  <2>5. Sound(r) /\ armFlushTimer(r) = r
    BY <1>4, <2>3, <2>4, ReadyIsArmed, Constants DEF Sound
  <2>. QED BY <2>1, <2>5, BecomesSound
<1>8. CASE ~due(s)
  <2>1. Become(armFlushTimer(s))
    BY <1>1, <1>8
  <2>2. ~Bound(s) /\ (s.queue # <<>> => s.queue[1] <= Reach(s.deadline))
    BY <1>5, <1>6, <1>8 DEF due
  <2>3. Loose(armFlushTimer(s)) /\ Ready(armFlushTimer(s)) /\ armFlushTimer(s).queue = s.queue
    BY <1>4, <2>2, ArmIsReady DEF MayArm
  <2>4. Sound(armFlushTimer(s))
    BY <1>4, <2>3 DEF Sound
  <2>. QED BY <2>1, <2>4, BecomesSound
<1>. QED BY <1>7, <1>8

LEMMA DrainNowKeeps == ASSUME TimerInv, DrainNow PROVE TimerInv'
BY NowIsSound, DrainedIsSound, BecomesSound DEF DrainNow

LEMMA FinishKeeps == ASSUME TimerInv, Finish PROVE TimerInv'
<1>1. PICK f \in {inFlight, FALSE} : Become([Silent(Now) EXCEPT !.flying = f])
  BY DEF Finish
<1> DEFINE s == Silent(Now)
           r == [s EXCEPT !.flying = f]
<1>2. Loose(Now)
  BY NowIsSound DEF Sound
<1>3. Sound(s) /\ s \in States
  BY <1>2, SilentIsSound DEF Sound, Loose
<1>4. s.gate = "off" /\ s.timer = Off /\ f \in BOOLEAN
  BY <1>1, <1>2, NowFields DEF Silent, Loose, States
<1> HIDE DEF s
<1>5. /\ r \in States /\ r.gate = s.gate /\ r.recorder = s.recorder /\ r.queue = s.queue
      /\ r.heavy = s.heavy /\ r.deadline = s.deadline /\ r.timer = s.timer
      /\ r.batches = s.batches /\ r.cut = s.cut
  BY <1>3, <1>4 DEF States
<1> HIDE DEF r
<1>6. Sound(r)
  <2>1. Aimed(r) /\ Held(r) /\ Ready(r) /\ Len(r.queue) <= ringRecords
    BY <1>3, <1>4, <1>5, TimerOff DEF Sound, Loose, Aimed, Held, Ready, canSend
  <2>. QED BY <1>5, <2>1 DEF Sound, Loose
<1>. QED BY <1>1, <1>6, BecomesSound DEF r, s

LEMMA TickKeeps == ASSUME TimerInv, Tick PROVE TimerInv'
<1>1. /\ timer.on => timer.left > -timer.late
      /\ queue' = [i \in DOMAIN queue |-> Min({queue[i] + 1, MaxAge})]
      /\ timer' = IF timer.on THEN [timer EXCEPT !.left = @ - 1] ELSE timer
      /\ cut' = NoCut
      /\ flushDeadlineMs' = flushDeadlineMs /\ inFlight' = inFlight /\ batches' = batches
      /\ gate' = gate /\ recorder' = recorder /\ heavy' = heavy
  BY DEF Tick
<1>2. Now \in States /\ Aimed(Now) /\ Held(Now) /\ Ready(Now) /\ Len(queue) <= ringRecords
  BY NowIsSound, NowFields DEF Sound, Loose
<1>3. /\ gate \in Gates /\ recorder \in Recorders /\ queue \in Seq(0..MaxAge) /\ heavy \in BOOLEAN
      /\ flushDeadlineMs \in flushDeadlineFirst..flushDeadlineMaxMs /\ timer \in Timers
      /\ inFlight \in BOOLEAN /\ batches \in 0..FLUSH_FAST_BATCHES
  BY <1>2, NowFields DEF States
<1>4. /\ MaxAge \in Nat /\ Len(queue) \in Nat /\ DOMAIN queue = 1..Len(queue)
      /\ (queue = <<>>) = (Len(queue) = 0)
      /\ \A i \in 1..Len(queue) : queue[i] \in 0..MaxAge
      /\ Oldest(queue) \in Nat /\ Reach(flushDeadlineMs) \in Nat
  BY <1>2, <1>3, NowFields, Numbers, LenProperties
<1>5. \A i \in 1..Len(queue) :
        queue'[i] = IF queue[i] + 1 <= MaxAge THEN queue[i] + 1 ELSE MaxAge
  <2>1. SUFFICES ASSUME NEW i \in 1..Len(queue)
                 PROVE queue'[i] = IF queue[i] + 1 <= MaxAge THEN queue[i] + 1 ELSE MaxAge
    OBVIOUS
  <2>2. queue'[i] = Min({queue[i] + 1, MaxAge})
    BY <1>1, <1>4, <2>1
  <2>3. queue[i] + 1 \in Int /\ MaxAge \in Int
    BY <1>4, <2>1
  <2>. QED BY <2>2, <2>3, MinOfTwo
<1>6. queue' \in [1..Len(queue) -> 0..MaxAge]
  <2>1. \A i \in 1..Len(queue) : queue'[i] \in 0..MaxAge
    BY <1>4, <1>5
  <2>. QED BY <2>1, <1>1, <1>4
<1>7. queue' \in Seq(0..MaxAge) /\ Len(queue') = Len(queue)
  <2>1. queue' \in Seq(0..MaxAge)
    BY <1>4, <1>6, SeqDef
  <2>. QED BY <2>1, <1>4, <1>6, LenProperties
<1>8. /\ (queue' = <<>>) = (queue = <<>>)
      /\ queue # <<>> => queue'[1] = IF queue[1] + 1 <= MaxAge THEN queue[1] + 1 ELSE MaxAge
  BY <1>4, <1>5, <1>7, EmptySeq
<1>9. /\ timer' \in Timers /\ timer'.on = timer.on /\ timer'.late = timer.late
      /\ timer'.coarse = timer.coarse /\ timer'.stray = timer.stray
      /\ timer.on => timer'.left = timer.left - 1
      /\ ~timer.on => timer' = timer
  <2>1. timer \in Timers /\ timer.left - 1 \in Int
    BY <1>3 DEF Timers
  <2>. QED BY <1>1, <2>1 DEF Timers
<1> DEFINE r == [gate |-> gate', recorder |-> recorder', queue |-> queue', heavy |-> heavy',
                 deadline |-> flushDeadlineMs', timer |-> timer', flying |-> inFlight',
                 batches |-> batches', early |-> FALSE, cut |-> cut']
<1>10. /\ r \in States /\ Become(r)
       /\ r.gate = gate /\ r.recorder = recorder /\ r.queue = queue' /\ r.heavy = heavy
       /\ r.deadline = flushDeadlineMs /\ r.timer = timer' /\ r.flying = inFlight
       /\ r.batches = batches /\ r.cut = NoCut
  BY <1>1, <1>3, <1>7, <1>9, NoCutIsNotEarly DEF States, Become
<1> HIDE DEF r
<1>11. Held(r) /\ Ready(r) /\ Len(r.queue) <= ringRecords
  BY <1>2, <1>7, <1>8, <1>9, <1>10, NowFields, NoCutIsNotEarly DEF Held, Ready, canSend, Bound
<1>12. Aimed(r)
  <2>1. SUFFICES ASSUME timer.on PROVE AimedAt(queue', flushDeadlineMs, timer')
    BY <1>9, <1>10 DEF Aimed
  <2>2. /\ timer.left > -timer.late
        /\ timer.late <= (IF timer.coarse THEN CoarseLate ELSE PreciseLate)
        /\ Oldest(queue) + timer.left <= Reach(flushDeadlineMs) - Ahead(timer)
        /\ ~timer.stray => /\ queue # <<>>
                           /\ ~timer.coarse => \/ queue[1] + timer.left >= flushDeadlineMs - FLUSH_TIMER_LEAD_MS
                                               \/ queue[1] = MaxAge
    BY <1>1, <1>2, <2>1, NowFields DEF Aimed, AimedAt
  <2>3. timer.left \in Int /\ timer.late \in Nat /\ flushDeadlineMs \in Nat /\ Ahead(timer) \in Nat
        /\ timer'.left = timer.left - 1 /\ timer'.late = timer.late /\ Ahead(timer') = Ahead(timer)
    BY <1>3, <1>9, <2>1, Constants DEF Timers, Ahead
  <2>4. timer'.left >= -timer'.late
    BY <2>2, <2>3
  <2>5. Oldest(queue') + timer'.left <= Reach(flushDeadlineMs) - Ahead(timer')
    <3>1. Oldest(queue') \in Int /\ Oldest(queue') <= Oldest(queue) + 1
      BY <1>4, <1>8 DEF Oldest
    <3>. QED BY <3>1, <1>4, <2>2, <2>3, SMTT(60)
  <2>6. ASSUME ~timer.stray, ~timer.coarse
        PROVE queue'[1] + timer'.left >= flushDeadlineMs - FLUSH_TIMER_LEAD_MS \/ queue'[1] = MaxAge
    <3>1. queue # <<>> /\ queue[1] \in 0..MaxAge
      BY <1>4, <2>2, <2>6
    <3>2. queue[1] + timer.left >= flushDeadlineMs - FLUSH_TIMER_LEAD_MS \/ queue[1] = MaxAge
      BY <2>2, <2>6
    <3>3. queue'[1] = IF queue[1] + 1 <= MaxAge THEN queue[1] + 1 ELSE MaxAge
      BY <1>8, <3>1
    <3>. QED BY <1>4, <2>3, <3>1, <3>2, <3>3, Constants, SMTT(60)
  <2>. QED BY <1>8, <1>9, <2>2, <2>4, <2>5, <2>6 DEF AimedAt
<1>. QED BY <1>10, <1>11, <1>12, BecomesSound DEF Sound, Loose
-----------------------------------------------------------------------------
(* What the run checks follows from the invariant.                         *)
LEMMA InvIsTimely == TimerInv => Timely
<1>1. SUFFICES ASSUME TimerInv PROVE Timely
  OBVIOUS
<1>2. Here \in States /\ Aimed(Here) /\ Held(Here) /\ Ready(Here) /\ Len(queue) <= ringRecords
  BY <1>1, HereFields DEF TimerInv, Sound, Loose
<1>3. /\ gate \in Gates /\ recorder \in Recorders /\ queue \in Seq(0..MaxAge) /\ heavy \in BOOLEAN
      /\ flushDeadlineMs \in flushDeadlineFirst..flushDeadlineMaxMs /\ timer \in Timers
      /\ inFlight \in BOOLEAN /\ batches \in 0..FLUSH_FAST_BATCHES
  BY <1>2, HereFields DEF States
<1>4. /\ flushDeadlineMs \in Nat /\ flushDeadlineMs <= flushDeadlineMaxMs /\ Ahead(timer) \in Nat
      /\ Oldest(queue) \in Nat /\ timer.left \in Int /\ timer.late \in Nat
      /\ Reach(flushDeadlineMs) \in Nat /\ Reach(flushDeadlineMs) <= flushDeadlineMs
      /\ queue # <<>> => queue[1] \in Nat /\ Oldest(queue) = queue[1]
  <2>1. /\ flushDeadlineMs \in Nat /\ flushDeadlineMs <= flushDeadlineMaxMs
        /\ Oldest(queue) \in Nat /\ Reach(flushDeadlineMs) \in Nat
        /\ queue # <<>> => queue[1] \in Nat
    BY <1>2, HereFields, Numbers
  <2>2. timer.left \in Int /\ timer.late \in Nat /\ Ahead(timer) \in Nat
    BY <1>3, Constants DEF Timers, Ahead
  <2>3. Reach(flushDeadlineMs) <= flushDeadlineMs
    BY <2>1, Constants DEF Reach
  <2>. QED BY <2>1, <2>2, <2>3 DEF Oldest
<1>5. timer.on => /\ timer.left >= -timer.late
                  /\ timer.late <= (IF timer.coarse THEN CoarseLate ELSE PreciseLate)
                  /\ Oldest(queue) + timer.left <= Reach(flushDeadlineMs) - Ahead(timer)
  BY <1>2, HereFields DEF Aimed, AimedAt
<1>6. FlushTypeOK
  <2>1. timer.left \in -timer.late..flushDeadlineMaxMs
    <3>1. CASE timer.on
      BY <1>4, <1>5, <3>1, Constants
    <3>2. CASE ~timer.on
      <4>1. timer = Off
        BY <1>2, <3>2, HereFields DEF Held
      <4>. QED BY <4>1, Constants DEF Off
    <3>. QED BY <3>1, <3>2
  <2>2. \A i \in DOMAIN queue : queue[i] \in 0..MaxAge
    BY <1>3, ElementOfSeq, LenProperties
  <2>3. heavy => queue # <<>>
    BY <1>2, HereFields DEF Held
  <2>. QED BY <1>2, <1>3, <2>1, <2>2, <2>3 DEF FlushTypeOK, Gates, Recorders
<1>7. WithinDeadline
  <2>1. SUFFICES ASSUME canSend(Now), queue # <<>>
                 PROVE LET d == IF batches < FLUSH_FAST_BATCHES THEN flushDeadlineFirst ELSE flushDeadlineMs
                       IN queue[1] <= PreciseLate + Max({0, d - FLUSH_TIMER_LEAD_MS}) /\ ~Bound(Now)
    BY DEF WithinDeadline
  <2>2. timer.on /\ ~Bound(Now)
    BY <1>2, <2>1, HereFields, NowFields DEF Ready, canSend, Bound
  <2>3. queue[1] <= PreciseLate + Reach(flushDeadlineMs)
    <3>1. timer.late <= Ahead(timer) + PreciseLate
      BY <1>4, <1>5, <2>2, Constants DEF Ahead
    <3>. QED BY <1>4, <1>5, <2>1, <2>2, <3>1, Constants, SMTT(60)
  <2>4. (IF batches < FLUSH_FAST_BATCHES THEN flushDeadlineFirst ELSE flushDeadlineMs) = flushDeadlineMs
    BY <1>2, HereFields DEF Held
  <2>5. Max({0, flushDeadlineMs - FLUSH_TIMER_LEAD_MS}) = Reach(flushDeadlineMs)
    BY <1>4, MaxOfTwo, Constants DEF Reach
  <2>. QED BY <2>2, <2>3, <2>4, <2>5
<1>8. NotEarly
  BY <1>2, HereFields DEF Held, NeverEarly, NotEarly
<1>. QED BY <1>6, <1>7, <1>8 DEF Timely

LEMMA TimerStep == TimerInv /\ [FlushNext]_flushing => TimerInv'
<1>1. SUFFICES ASSUME TimerInv, [FlushNext]_flushing PROVE TimerInv'
  OBVIOUS
<1>2. CASE UNCHANGED flushing
  <2>1. Become(Here)
    BY <1>2, HereFields DEF flushing, Become
  <2>. QED BY <1>1, <2>1, BecomesSound DEF TimerInv
<1>. QED
  BY <1>1, <1>2, EnqueueKeeps, ConfigureKeeps, ConsentKeeps, FlushKeeps, EndKeeps, HaltKeeps,
     FlushTimerFiresKeeps, AfterAnswerKeeps, DrainNowKeeps, FinishKeeps, TickKeeps
  DEF FlushNext

(* A record waits no longer than the deadline while a batch can be sent    *)
(* (the first deadline, for the first batches), but for what a precise     *)
(* timer is late; and the flush timer, or an answer, cuts a batch no       *)
(* earlier than the deadline's aim, but for a timer left from before a     *)
(* drain: whatever is written, configured, answered, drained and ended,    *)
(* and whenever the browser runs the timer.                                *)
THEOREM AlwaysTimely == FlushSpec => []Timely
<1>1. FlushSpec => []TimerInv
  BY TimerInit, TimerStep, PTL DEF FlushSpec
<1>. QED BY <1>1, InvIsTimely, PTL
=============================================================================
