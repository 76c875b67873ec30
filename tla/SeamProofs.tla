------------------------------ MODULE SeamProofs ------------------------------
(***************************************************************************)
(* Proofs about PlatformSeams, for every page, every answer of the         *)
(* platform and every bound.                                               *)
(*                                                                         *)
(* The argument is where the replay is.  Every step of the recorded page   *)
(* wrote a known number of records, so that each step has its place in the *)
(* log (Placed), and those records tell what it saw (Wrote).  The replay's *)
(* cursor stands at the place of the page's next step (Follows), one       *)
(* further while the task it released waits for the platform; and it never *)
(* moves over a Refusal (Passed).  So where the page comes to what the     *)
(* recorder refused, the cursor is at the Refusal.                         *)
(*                                                                         *)
(* That the page is given and sees what it was and saw rests on more: the  *)
(* session's turns follow one another as a scheduler's do (Turned), and    *)
(* what the replay keeps (its task ids, handlers, held imports and         *)
(* promises) is what the log and the turns tell so far (ReplayTold).       *)
(***************************************************************************)
EXTENDS PlatformSeams, FiniteSetTheorems, SequenceTheorems, WellFoundedInduction, TLAPS

(* What is in the log, and in the ghost of the session.                    *)
Answers == Values \cup {None, "shape", "theirs"} \cup Nat
Labels == {"TaskReg", "Task", "Clock", "Random", "PlatformValue", "StorageRead",
           "Refusal", "End"}
Queries == Kinds \cup {None, "platform", "now", "key", "didTimeout", "takeRecords", "callback"}
Records == [rec : Labels, id : Nat, query : Queries, value : Answers]
Deeds == {"read", "own", "call", "ready", "refused", "clear", "get", "make"} \X (Kinds \cup Nat)
Parts == {"script", "task", "module", "event"}
Steps == [op : Deeds, saw : Answers]
Turns == [id : Nat, part : Parts, given : Answers, ops : Seq(Steps)]
Verdicts == {"running", "done", "diverged", "astray", "non-replayable"}

(* The kinds of thing a call asks of the platform, and the queries of a    *)
(* task's own.                                                             *)
Calls == Timers \cup {"observer"} \cup (Promises \ {"ready"})
Ready(v) == PlatformValue(0, "ready", v)
OwnQuery(id, ks) == IF ks[id] = "idle" THEN "didTimeout" ELSE "takeRecords"

(* Task id was registered in the first a records of the log lg.            *)
Registered(id, a, lg) == \E i \in 1..a : lg[i].rec = "TaskReg" /\ lg[i].id = id

(* The promise of task id was handed in the first a records of the log lg. *)
HandedIn(id, a, lg) ==
  \E j \in 1..a - 1 : lg[j] = Ready(0) /\ lg[j + 1] = TaskReg(id, "platform")

(* The records a step of the page wrote are those after the first a of the *)
(* log lg, up to the b-th; they tell what it saw.                          *)
Wrote(step, a, b, lg, ks) ==
  LET op == step.op
      saw == step.saw
  IN \/ op[1] = "read" /\ op[2] \in Reads /\ b = a + 1 /\ lg[b] = ReadRecord(op[2], saw)
     \/ /\ op[1] = "own" /\ op[2] \in DOMAIN ks /\ b = a + 1
        /\ lg[b] = PlatformValue(op[2], OwnQuery(op[2], ks), saw)
     \/ /\ op[1] = "call" /\ op[2] \in Calls /\ saw \in DOMAIN ks /\ ks[saw] = op[2]
        /\ lg[b] = TaskReg(saw, TaskKind(op[2]))
        /\ b = a + 1 \/ (b = a + 2 /\ lg[a + 1] = Refusal)
     \/ /\ op[1] = "ready"
        /\ \/ /\ b = a + 2 /\ lg[a + 1] = Ready(0) /\ lg[b] = TaskReg(saw, "platform")
              /\ saw \in DOMAIN ks /\ ks[saw] = "ready"
           \/ b = a + 1 /\ lg[b] = Ready(saw) /\ saw # 0 /\ HandedIn(saw, a, lg)
     \/ op[1] = "clear" /\ op[2] \in DOMAIN ks /\ saw = None /\ b = a
     \/ op[1] \in {"get", "make"} /\ saw = None /\ b = a
     \/ /\ op[1] = "refused"
        /\ \/ b = a + 1 /\ lg[b] = Refusal
           \/ b = a /\ \E i \in 1..a : lg[i] = Refusal

(* What a task's handler reads before the page's code runs.                *)
Reads1 == {"frame", "observer", "bitmap"} \cup Outcomes
Opening(id, ks) == IF ks[id] \in Reads1 THEN 2 ELSE 1
(* A turn of the page opened with those, which tell what it was given.     *)
GivenTo(u, k, r) ==
  \/ k = "frame" /\ r = Clock("frame", u.given)
  \/ k = "observer" /\ r = PlatformValue(u.id, "callback", u.given)
  \/ k = "bitmap" /\ r = PlatformValue(u.id, "bitmap", "shape") /\ u.given = None
  \/ k \in Outcomes /\ r = PlatformValue(u.id, k, u.given)
Opened(u, a, b, lg, ks) ==
  \/ u.part = "module" /\ b = a /\ u.given = None /\ Registered(u.id, a, lg)
  \/ /\ u.part = "task" /\ u.id \in DOMAIN ks /\ b = a + Opening(u.id, ks)
     /\ Registered(u.id, a, lg) /\ lg[a + 1] = Task(u.id, TaskKind(ks[u.id]))
     /\ IF ks[u.id] \in Reads1 THEN GivenTo(u, ks[u.id], lg[a + 2])
        ELSE u.given = None \/ ks[u.id] = "file"
  \/ /\ u.part = "event"
     /\ \/ b = a + 1 /\ lg[b] = Refusal
        \/ b = a /\ \E i \in 1..a : lg[i] = Refusal

(* p[t][j] records were written when turn t of the session scr had made j  *)
(* steps; n of them in all.                                                *)
Places(p, scr, n) ==
  /\ DOMAIN p = DOMAIN scr
  /\ \A t \in DOMAIN scr : p[t] \in [0..Len(scr[t].ops) -> 0..n]
Placed(p, scr, lg, ks, n) ==
  /\ Places(p, scr, n)
  /\ p[1][0] = 0 /\ p[Len(scr)][Len(scr[Len(scr)].ops)] = n
  /\ \A t \in DOMAIN scr : \A j \in 1..Len(scr[t].ops) :
       Wrote(scr[t].ops[j], p[t][j - 1], p[t][j], lg, ks)
  /\ \A t \in 1..Len(scr) - 1 :
       Opened(scr[t + 1], p[t][Len(scr[t].ops)], p[t + 1][0], lg, ks)

-----------------------------------------------------------------------------
(* The inductive invariant. *)
SessionTyped ==
  /\ phase \in {"record", "replay"} /\ turn \in BOOLEAN /\ verdict \in Verdicts
  /\ log \in Seq(Records) /\ nextTask \in Nat \ {0}
  /\ script \in Seq(Turns) /\ script # <<>>
RecorderTyped ==
  /\ page \in SUBSET Kinds /\ kinds \in Seq(Kinds) /\ live \subseteq DOMAIN kinds
  /\ settled \in Seq(Nat)
  /\ \A i \in DOMAIN settled : /\ settled[i] \in DOMAIN kinds
                               /\ kinds[settled[i]] \in Outcomes \cup {"bitmap"}
  /\ fonts \in 1..MaxFonts /\ handed \in [1..MaxFonts -> Nat]
  /\ refused \in BOOLEAN /\ userContent \in Seq(BOOLEAN)
ReplayerTyped ==
  handlers \subseteq Nat \ {0} /\ rHanded \subseteq Nat \ {0} /\ awaited \in Nat
Typed == SessionTyped /\ RecorderTyped /\ ReplayerTyped

(* The records of the session, without the End.                            *)
Told == IF phase = "replay" THEN Len(log) - 1 ELSE Len(log)
LogWhole ==
  /\ \A i \in 1..Told : log[i].rec # "End"
  /\ phase = "replay" => Len(log) \in Nat \ {0} /\ log[Len(log)] = End
  /\ refused => \E i \in 1..Told : log[i] = Refusal

(* The log lg registers n tasks, in the order of their ids.                *)
Counted(lg, n) ==
  /\ \A id \in Nat : Registered(id, Len(lg), lg) <=> id \in 1..n
  /\ \A i \in 1..Len(lg) : lg[i].rec = "TaskReg" =>
       \A id \in Nat : Registered(id, i - 1, lg) <=> id \in 1..lg[i].id - 1

(* The promises handed to the page. *)
HandedTold ==
  phase = "record" =>
    \A f \in 1..MaxFonts : handed[f] # 0 => HandedIn(handed[f], Len(log), log)

(* The replay has not begun.                                               *)
Unreplayed ==
  phase = "record" =>
    /\ nextTask = Len(kinds) + 1 /\ at = 1 /\ turnNo = 1 /\ opNo = 0
    /\ verdict = "running" /\ awaited = 0 /\ rHanded = {}

Passed ==
  phase = "replay" =>
    /\ at \in 1..Len(log) /\ turnNo \in Nat /\ opNo \in Nat
    /\ \A i \in 1..at - 1 : log[i].rec # "Refusal"

(* The replay is at the place of the page's next step.                     *)
Ahead == IF awaited = 0 THEN 0 ELSE 1
Follows(p) ==
  phase = "replay" /\ verdict = "running" =>
    /\ turnNo \in DOMAIN script /\ opNo \in 0..Len(script[turnNo].ops)
    /\ ~turn => opNo = Len(script[turnNo].ops)
    /\ at = p[turnNo][opNo] + 1 + Ahead
    /\ awaited # 0 => log[p[turnNo][opNo] + 1].rec = "Task"

Keeps(p) == Placed(p, script, log, kinds, Told) /\ Follows(p)
IInv == /\ Typed /\ LogWhole /\ Unreplayed /\ Passed /\ NeverPastRefusal
        /\ Counted(log, Len(kinds)) /\ HandedTold
        /\ \E p : Keeps(p)
-----------------------------------------------------------------------------
(* The places of a longer session. *)

LEMMA LogGrows ==
  ASSUME NEW lg \in Seq(Records), NEW w \in Seq(Records)
  PROVE  /\ lg \o w \in Seq(Records) /\ Len(lg \o w) = Len(lg) + Len(w)
         /\ \A i \in 1..Len(lg) : (lg \o w)[i] = lg[i]
         /\ \A i \in 1..Len(w) : (lg \o w)[Len(lg) + i] = w[i]
  BY ConcatProperties

LEMMA RegisteredKept ==
  ASSUME NEW lg \in Seq(Records), NEW w \in Seq(Records), NEW id, NEW a \in 0..Len(lg)
  PROVE  Registered(id, a, lg \o w) <=> Registered(id, a, lg)
<1>1. \A i \in 1..a : (lg \o w)[i] = lg[i]
  BY LogGrows
<1> QED BY <1>1 DEF Registered

LEMMA HandedInKept ==
  ASSUME NEW lg \in Seq(Records), NEW w \in Seq(Records), NEW id, NEW a \in 0..Len(lg),
         HandedIn(id, a, lg)
  PROVE  HandedIn(id, a, lg \o w)
<1>1. \A i \in 1..a : (lg \o w)[i] = lg[i]
  BY LogGrows
<1>2. \A j \in 1..a - 1 : j \in 1..a /\ j + 1 \in 1..a
  OBVIOUS
<1> QED BY <1>1, <1>2 DEF HandedIn

LEMMA WroteKept ==
  ASSUME NEW step, NEW lg \in Seq(Records), NEW w \in Seq(Records), NEW ks,
         NEW a \in 0..Len(lg), NEW b \in 0..Len(lg), Wrote(step, a, b, lg, ks)
  PROVE  Wrote(step, a, b, lg \o w, ks)
<1>1. \A i \in 1..Len(lg) : (lg \o w)[i] = lg[i]
  BY LogGrows
<1>2. \A i \in 1..a : (lg \o w)[i] = lg[i]
  BY <1>1
<1>3. b = a \/ (a + 1 \in 1..Len(lg) /\ b \in 1..Len(lg) /\ (b = a + 1 \/ b = a + 2))
  BY DEF Wrote
<1>4. \A id : HandedIn(id, a, lg) => HandedIn(id, a, lg \o w)
  BY HandedInKept
<1> QED BY <1>1, <1>2, <1>3, <1>4 DEF Wrote

LEMMA OpenedKept ==
  ASSUME NEW u, NEW lg \in Seq(Records), NEW w \in Seq(Records), NEW ks,
         NEW a \in 0..Len(lg), NEW b \in 0..Len(lg), Opened(u, a, b, lg, ks)
  PROVE  Opened(u, a, b, lg \o w, ks)
<1>1. \A i \in 1..Len(lg) : (lg \o w)[i] = lg[i]
  BY LogGrows
<1>2. \A i \in 1..a : (lg \o w)[i] = lg[i]
  BY <1>1
<1>3. Registered(u.id, a, lg \o w) <=> Registered(u.id, a, lg)
  BY RegisteredKept
<1>4. CASE u.part = "module"
  BY <1>3, <1>4 DEF Opened
<1>5. CASE u.part = "event"
  BY <1>1, <1>2, <1>5 DEF Opened
<1>6. CASE u.part = "task"
  <2>1. /\ u.id \in DOMAIN ks /\ b = a + Opening(u.id, ks)
        /\ Registered(u.id, a, lg) /\ lg[a + 1] = Task(u.id, TaskKind(ks[u.id]))
        /\ IF ks[u.id] \in Reads1 THEN GivenTo(u, ks[u.id], lg[a + 2])
           ELSE u.given = None \/ ks[u.id] = "file"
    BY <1>6 DEF Opened
  <2>2. a + 1 \in 1..Len(lg) /\ (ks[u.id] \in Reads1 => a + 2 \in 1..Len(lg))
    BY <2>1 DEF Opening
  <2> QED BY <1>1, <1>3, <1>6, <2>1, <2>2 DEF Opened
<1> QED BY <1>4, <1>5, <1>6 DEF Opened

(* The log goes on. *)
LEMMA PlacedLonger ==
  ASSUME NEW p, NEW scr \in Seq(Turns), NEW lg \in Seq(Records), NEW w \in Seq(Records),
         NEW ks, NEW n \in 0..Len(lg), Placed(p, scr, lg, ks, n)
  PROVE  Placed(p, scr, lg \o w, ks, n)
<1>0. ASSUME NEW t \in DOMAIN scr, NEW j \in 0..Len(scr[t].ops)
      PROVE  p[t][j] \in 0..Len(lg)
  <2>1. p[t] \in [0..Len(scr[t].ops) -> 0..n]
    BY DEF Placed, Places
  <2>2. p[t][j] \in 0..n
    BY <2>1
  <2> QED BY <2>2, LenProperties
<1>1. ASSUME NEW t \in DOMAIN scr, NEW j \in 1..Len(scr[t].ops)
      PROVE  Wrote(scr[t].ops[j], p[t][j - 1], p[t][j], lg \o w, ks)
  <2>1. Len(scr[t].ops) \in Nat
    BY DEF Turns
  <2>2. j - 1 \in 0..Len(scr[t].ops) /\ j \in 0..Len(scr[t].ops)
    BY <2>1
  <2>4. p[t][j - 1] \in 0..Len(lg) /\ p[t][j] \in 0..Len(lg)
    BY <2>2, <1>0
  <2>5. Wrote(scr[t].ops[j], p[t][j - 1], p[t][j], lg, ks)
    BY DEF Placed
  <2> QED BY <2>4, <2>5, WroteKept
<1>2. ASSUME NEW t \in 1..Len(scr) - 1
      PROVE  Opened(scr[t + 1], p[t][Len(scr[t].ops)], p[t + 1][0], lg \o w, ks)
  <2>1. t \in DOMAIN scr /\ t + 1 \in DOMAIN scr
    OBVIOUS
  <2>2. Len(scr[t].ops) \in 0..Len(scr[t].ops) /\ 0 \in 0..Len(scr[t + 1].ops)
    <3>1. scr[t] \in Turns /\ scr[t + 1] \in Turns
      BY <2>1
    <3>2. \A u \in Turns : Len(u.ops) \in Nat
      BY DEF Turns
    <3>3. \A m \in Nat : m \in 0..m /\ 0 \in 0..m
      OBVIOUS
    <3> QED BY <3>1, <3>2, <3>3, Zenon
  <2>3. p[t][Len(scr[t].ops)] \in 0..Len(lg) /\ p[t + 1][0] \in 0..Len(lg)
    BY <2>1, <2>2, <1>0
  <2>4. Opened(scr[t + 1], p[t][Len(scr[t].ops)], p[t + 1][0], lg, ks)
    BY DEF Placed
  <2> QED BY <2>3, <2>4, OpenedKept
<1> QED BY <1>1, <1>2 DEF Placed

(* A task is minted. *)
LEMMA PlacedKinds ==
  ASSUME NEW p, NEW scr, NEW lg, NEW n, NEW ks \in Seq(Kinds), NEW k \in Kinds,
         Placed(p, scr, lg, ks, n)
  PROVE  Placed(p, scr, lg, Append(ks, k), n)
<1>1. \A i \in DOMAIN ks : i \in DOMAIN Append(ks, k) /\ Append(ks, k)[i] = ks[i]
  OBVIOUS
<1>2. ASSUME NEW u, NEW a, NEW b, Opened(u, a, b, lg, ks)
      PROVE  Opened(u, a, b, lg, Append(ks, k))
  BY <1>1, <1>2 DEF Opened, Opening
<1>3. ASSUME NEW step, NEW a, NEW b, Wrote(step, a, b, lg, ks)
      PROVE  Wrote(step, a, b, lg, Append(ks, k))
  BY <1>1, <1>3 DEF Wrote, OwnQuery
<1> QED BY <1>2, <1>3 DEF Placed

(* The log counts on: what is written mints no task, or one with its last. *)
LEMMA CountedOn ==
  ASSUME NEW lg \in Seq(Records), NEW w \in Seq(Records), NEW n \in Nat, Counted(lg, n),
         \A i \in 1..Len(w) : w[i].rec # "TaskReg"
  PROVE  Counted(lg \o w, n)
<1>1. /\ lg \o w \in Seq(Records) /\ Len(lg \o w) = Len(lg) + Len(w)
      /\ \A i \in 1..Len(lg) : (lg \o w)[i] = lg[i]
      /\ \A i \in 1..Len(w) : (lg \o w)[Len(lg) + i] = w[i]
  BY LogGrows
<1> DEFINE m == Len(lg)
           k == Len(w)
           x == lg \o w
<1>2. /\ m \in Nat /\ k \in Nat /\ Len(x) = m + k /\ (\A i \in 1..m : x[i] = lg[i])
      /\ (\A i \in 1..k : x[m + i] = w[i]) /\ (\A i \in 1..k : w[i].rec # "TaskReg")
  BY <1>1, LenProperties
<1>3. \A id, a : a \in 0..m => (Registered(id, a, x) <=> Registered(id, a, lg))
  BY RegisteredKept
<1>4. /\ \A id \in Nat : Registered(id, m, lg) <=> id \in 1..n
      /\ \A i \in 1..m : lg[i].rec = "TaskReg" =>
           \A id \in Nat : Registered(id, i - 1, lg) <=> id \in 1..lg[i].id - 1
  BY DEF Counted
<1> HIDE DEF m, k, x
<1>5. \A i \in 1..m + k : i \in 1..m \/ x[i].rec # "TaskReg"
  <2> TAKE i \in 1..m + k
  <2>1. CASE i \notin 1..m
    <3>1. i - m \in 1..k /\ m + (i - m) = i
      BY <2>1, <1>2
    <3>2. x[m + (i - m)] = w[i - m]
      BY <3>1, <1>2
    <3> QED BY <3>1, <3>2, <1>2
  <2> QED BY <2>1
<1>6. \A i \in 1..m : i \in 1..m + k
  BY <1>2
<1>7. \A id : Registered(id, m + k, x) <=> Registered(id, m, x)
  BY <1>5, <1>6 DEF Registered
<1>8. \A id \in Nat : Registered(id, m + k, x) <=> id \in 1..n
  BY <1>2, <1>3, <1>4, <1>7
<1>9. ASSUME NEW i \in 1..m + k, x[i].rec = "TaskReg", NEW id \in Nat
      PROVE  Registered(id, i - 1, x) <=> id \in 1..x[i].id - 1
  <2>1. i \in 1..m /\ i - 1 \in 0..m /\ x[i] = lg[i]
    BY <1>2, <1>5, <1>9
  <2> QED BY <2>1, <1>3, <1>4, <1>9
<1> QED BY <1>2, <1>8, <1>9 DEF Counted, x

LEMMA CountedNext ==
  ASSUME NEW lg \in Seq(Records), NEW w \in Seq(Records), NEW n \in Nat, Counted(lg, n),
         NEW k \in Nat, Len(w) = k + 1, w[k + 1].rec = "TaskReg", w[k + 1].id = n + 1,
         \A i \in 1..k : w[i].rec # "TaskReg"
  PROVE  Counted(lg \o w, n + 1)
<1> DEFINE m == Len(lg)
           x == lg \o w
<1>1. /\ lg \o w \in Seq(Records) /\ Len(lg \o w) = Len(lg) + Len(w)
      /\ \A i \in 1..Len(lg) : (lg \o w)[i] = lg[i]
      /\ \A i \in 1..Len(w) : (lg \o w)[Len(lg) + i] = w[i]
  BY LogGrows
<1>2. /\ m \in Nat /\ Len(x) = m + (k + 1) /\ (\A i \in 1..m : x[i] = lg[i])
      /\ (\A i \in 1..k + 1 : x[m + i] = w[i])
  BY <1>1, LenProperties
<1>3. \A id, a : a \in 0..m => (Registered(id, a, x) <=> Registered(id, a, lg))
  BY RegisteredKept
<1>4. /\ \A id \in Nat : Registered(id, m, lg) <=> id \in 1..n
      /\ \A i \in 1..m : lg[i].rec = "TaskReg" =>
           \A id \in Nat : Registered(id, i - 1, lg) <=> id \in 1..lg[i].id - 1
  BY DEF Counted
<1> HIDE DEF m, x
<1>5. \A i \in 1..m + k : i \in 1..m \/ x[i].rec # "TaskReg"
  <2> TAKE i \in 1..m + k
  <2>1. CASE i \notin 1..m
    <3>1. i - m \in 1..k /\ i - m \in 1..k + 1 /\ m + (i - m) = i
      BY <2>1, <1>2
    <3>2. x[m + (i - m)] = w[i - m]
      BY <3>1, <1>2
    <3> QED BY <3>1, <3>2
  <2> QED BY <2>1
<1>6. \A i \in 1..m : i \in 1..m + k
  BY <1>2
<1>7. \A id : Registered(id, m + k, x) <=> Registered(id, m, x)
  BY <1>5, <1>6 DEF Registered
<1>8. \A id \in Nat : Registered(id, m + k, x) <=> id \in 1..n
  <2>1. m \in 0..m
    BY <1>2
  <2> QED BY <2>1, <1>3, <1>4, <1>7
<1>9. x[m + k + 1].rec = "TaskReg" /\ x[m + k + 1].id = n + 1
  <2>1. k + 1 \in 1..k + 1 /\ m + (k + 1) = m + k + 1
    BY <1>2
  <2> QED BY <2>1, <1>2
<1>10. \A i \in 1..m + k + 1 : i \in 1..m + k \/ i = m + k + 1
  BY <1>2
<1>11. \A i \in 1..m + k : i \in 1..m + k + 1
  BY <1>2
<1>12. m + k + 1 \in 1..m + k + 1
  BY <1>2
<1>13. \A id : Registered(id, m + k + 1, x) <=> Registered(id, m + k, x) \/ id = n + 1
  BY <1>9, <1>10, <1>11, <1>12 DEF Registered
<1>14. \A id \in Nat : Registered(id, m + k + 1, x) <=> id \in 1..n + 1
  BY <1>8, <1>13
<1>15. ASSUME NEW i \in 1..m + k + 1, x[i].rec = "TaskReg", NEW id \in Nat
      PROVE  Registered(id, i - 1, x) <=> id \in 1..x[i].id - 1
  <2>1. CASE i = m + k + 1
    <3>1. i - 1 = m + k /\ x[i].id - 1 = n
      BY <2>1, <1>2, <1>9
    <3> QED BY <3>1, <1>8
  <2>2. CASE i # m + k + 1
    <3>0. i \in 1..m + k
      BY <2>2, <1>10
    <3>1. i \in 1..m /\ i - 1 \in 0..m /\ x[i] = lg[i]
      BY <3>0, <1>2, <1>5, <1>15
    <3> QED BY <3>1, <1>3, <1>4, <1>15
  <2> QED BY <2>1, <2>2
<1> QED BY <1>2, <1>14, <1>15 DEF Counted, x

(* The places p of a session, where it has gone on to be scr.              *)
Extended(p, scr, n) ==
  [t \in DOMAIN scr |-> [j \in 0..Len(scr[t].ops) |->
     IF t \in DOMAIN p /\ j \in DOMAIN p[t] THEN p[t][j] ELSE n]]

(* The page makes a step. *)
LEMMA PlacedStep ==
  ASSUME NEW p, NEW scr \in Seq(Turns), scr # <<>>, NEW lg \in Seq(Records),
         NEW w \in Seq(Records), NEW ks, Placed(p, scr, lg, ks, Len(lg)),
         NEW step \in Steps,
         Wrote(step, Len(lg), Len(lg) + Len(w), lg \o w, ks)
  PROVE  LET scr2 == [scr EXCEPT ![Len(scr)].ops = Append(@, step)]
         IN /\ scr2 \in Seq(Turns) /\ scr2 # <<>>
            /\ Placed(Extended(p, scr2, Len(lg \o w)), scr2, lg \o w, ks, Len(lg \o w))
<1> DEFINE T == Len(scr)
           scr2 == [scr EXCEPT ![T].ops = Append(@, step)]
           n == Len(lg \o w)
           q == Extended(p, scr2, n)
           L == Len(scr[T].ops)
<1>1. T \in Nat \ {0} /\ DOMAIN scr = 1..T /\ scr[T] \in Turns /\ Len(scr) = T
  OBVIOUS
<1>2. scr[T].ops \in Seq(Steps) /\ L \in Nat
  BY <1>1 DEF Turns
<1>3. /\ Append(scr[T].ops, step) \in Seq(Steps) /\ Len(Append(scr[T].ops, step)) = L + 1
      /\ \A j \in 1..L : Append(scr[T].ops, step)[j] = scr[T].ops[j]
      /\ Append(scr[T].ops, step)[L + 1] = step
  BY <1>2
<1>4. scr2 \in Seq(Turns) /\ DOMAIN scr2 = 1..T /\ Len(scr2) = T /\ scr2 # <<>>
  <2>1. [scr[T] EXCEPT !.ops = Append(scr[T].ops, step)] \in Turns
    BY <1>1, <1>3 DEF Turns
  <2> QED BY <1>1, <2>1
<1>5. /\ \A t \in 1..T - 1 : scr2[t] = scr[t]
      /\ scr2[T].ops = Append(scr[T].ops, step)
      /\ scr2[T].part = scr[T].part /\ scr2[T].id = scr[T].id /\ scr2[T].given = scr[T].given
  BY <1>1 DEF Turns
<1>6. n = Len(lg) + Len(w) /\ n = Len(lg \o w) /\ n \in Nat /\ Len(lg) \in 0..n
  BY LogGrows
<1>7. q = [t \in DOMAIN scr2 |-> [j \in 0..Len(scr2[t].ops) |->
            IF t \in DOMAIN p /\ j \in DOMAIN p[t] THEN p[t][j] ELSE n]]
  BY DEF Extended
<1>8. L = Len(scr[T].ops) /\ q = Extended(p, scr2, Len(lg \o w))
  OBVIOUS
<1>17. scr2 = [scr EXCEPT ![Len(scr)].ops = Append(@, step)]
  OBVIOUS
<1> HIDE DEF T, scr2, n, q, L
<1>9. /\ DOMAIN p = 1..T
      /\ \A t \in 1..T : DOMAIN p[t] = 0..Len(scr[t].ops)
                         /\ \A j \in 0..Len(scr[t].ops) : p[t][j] \in 0..Len(lg)
  BY <1>1 DEF Placed, Places
<1>10. \A t \in 1..T - 1 : \A j \in 0..Len(scr[t].ops) : q[t][j] = p[t][j]
  BY <1>1, <1>4, <1>5, <1>7, <1>9
<1>11. Len(scr2[T].ops) = L + 1 /\ T \in DOMAIN scr2 /\ T \in DOMAIN p /\ DOMAIN p[T] = 0..L
  BY <1>1, <1>3, <1>4, <1>5, <1>8, <1>9
<1>12. /\ \A j \in 0..L : q[T][j] = p[T][j]
       /\ q[T][L + 1] = n
  BY <1>2, <1>7, <1>11
<1>13. p[T][L] = Len(lg) /\ q[T][L] = Len(lg)
  <2>1. p[T][L] = Len(lg)
    BY <1>1, <1>8 DEF Placed
  <2> QED BY <2>1, <1>2, <1>12
<1>14. Places(q, scr2, n)
  <2>1. DOMAIN q = DOMAIN scr2
    BY <1>7
  <2>2. ASSUME NEW t \in DOMAIN scr2
        PROVE  q[t] \in [0..Len(scr2[t].ops) -> 0..n]
    <3>1. q[t] = [j \in 0..Len(scr2[t].ops) |->
                    IF t \in DOMAIN p /\ j \in DOMAIN p[t] THEN p[t][j] ELSE n]
      BY <1>7
    <3>2. t \in DOMAIN p /\ DOMAIN p[t] = 0..Len(scr[t].ops)
          /\ \A j \in 0..Len(scr[t].ops) : p[t][j] \in 0..Len(lg)
      BY <1>4, <1>9
    <3>3. n \in 0..n /\ \A m \in 0..Len(lg) : m \in 0..n
      BY <1>6, LenProperties
    <3> QED BY <3>1, <3>2, <3>3
  <2> QED BY <2>1, <2>2 DEF Places
<1>15. q[1][0] = 0
  <2>1. p[1][0] = 0
    BY DEF Placed
  <2>2. CASE T = 1
    BY <2>1, <2>2, <1>2, <1>12
  <2>3. CASE T # 1
    <3>1. 1 \in 1..T - 1 /\ Len(scr[1].ops) \in Nat
      BY <2>3, <1>1 DEF Turns
    <3>2. 0 \in 0..Len(scr[1].ops)
      BY <3>1
    <3> QED BY <2>1, <3>1, <3>2, <1>10
  <2> QED BY <2>2, <2>3
<1>16. ASSUME NEW t \in 1..T, NEW j \in 1..Len(scr2[t].ops)
       PROVE  Wrote(scr2[t].ops[j], q[t][j - 1], q[t][j], lg \o w, ks)
  <2>1. Placed(p, scr, lg \o w, ks, Len(lg))
    BY PlacedLonger, LenProperties
  <2>2. ASSUME j \in 1..Len(scr[t].ops), NEW o, o = scr[t].ops[j], scr2[t].ops[j] = o,
               q[t][j - 1] = p[t][j - 1], q[t][j] = p[t][j]
        PROVE  Wrote(scr2[t].ops[j], q[t][j - 1], q[t][j], lg \o w, ks)
    <3>1. Wrote(scr[t].ops[j], p[t][j - 1], p[t][j], lg \o w, ks)
      BY <2>1, <2>2, <1>1 DEF Placed
    <3> QED BY <3>1, <2>2
  <2>3. CASE t # T
    <3>1. t \in 1..T - 1
      BY <2>3, <1>1
    <3>2. j \in 1..Len(scr[t].ops) /\ scr2[t].ops[j] = scr[t].ops[j]
      BY <3>1, <1>5
    <3>3. Len(scr[t].ops) \in Nat
      BY <3>1, <1>1 DEF Turns
    <3>4. j \in 0..Len(scr[t].ops) /\ j - 1 \in 0..Len(scr[t].ops)
      BY <3>2, <3>3
    <3> QED BY <2>2, <3>1, <3>2, <3>4, <1>10
  <2>4. CASE t = T /\ j # L + 1
    <3>1. j \in 1..L /\ j - 1 \in 0..L /\ j \in 0..L
      BY <2>4, <1>2, <1>11
    <3>2. scr2[T].ops[j] = scr[T].ops[j]
      BY <3>1, <1>3, <1>5
    <3> QED BY <2>2, <2>4, <3>1, <3>2, <1>8, <1>12
  <2>5. CASE t = T /\ j = L + 1
    <3>1. j - 1 = L /\ scr2[T].ops[j] = step
      BY <2>5, <1>2, <1>3, <1>5
    <3> QED BY <2>5, <3>1, <1>6, <1>12, <1>13
  <2> QED BY <2>3, <2>4, <2>5
<1>18. ASSUME NEW t \in 1..T - 1
       PROVE  Opened(scr2[t + 1], q[t][Len(scr2[t].ops)], q[t + 1][0], lg \o w, ks)
  <2>1. Opened(scr[t + 1], p[t][Len(scr[t].ops)], p[t + 1][0], lg \o w, ks)
    <3>1. Placed(p, scr, lg \o w, ks, Len(lg))
      BY PlacedLonger, LenProperties
    <3> QED BY <3>1, <1>1 DEF Placed
  <2>2. t + 1 \in 1..T /\ (t + 1 = T \/ t + 1 \in 1..T - 1)
    BY <1>1
  <2>3. /\ scr2[t + 1].part = scr[t + 1].part /\ scr2[t + 1].id = scr[t + 1].id
        /\ scr2[t + 1].given = scr[t + 1].given
    BY <2>2, <1>5
  <2>4. Len(scr[t].ops) \in Nat /\ Len(scr[t + 1].ops) \in Nat
    BY <2>2, <1>1, SMTT(60) DEF Turns
  <2>5. q[t + 1][0] = p[t + 1][0]
    <3>1. 0 \in 0..Len(scr[t + 1].ops) /\ 0 \in 0..L
      BY <2>4, <1>2
    <3> QED BY <3>1, <2>2, <1>10, <1>12
  <2>6. q[t][Len(scr2[t].ops)] = p[t][Len(scr[t].ops)]
    <3>1. Len(scr[t].ops) \in 0..Len(scr[t].ops) /\ scr2[t] = scr[t]
      BY <2>4, <1>5
    <3> QED BY <3>1, <1>10
  <2> QED BY <2>1, <2>3, <2>5, <2>6 DEF Opened, GivenTo
<1>19. Placed(q, scr2, lg \o w, ks, n)
  <2>1. q[Len(scr2)][Len(scr2[Len(scr2)].ops)] = n
    BY <1>4, <1>11, <1>12
  <2> QED BY <2>1, <1>4, <1>14, <1>15, <1>16, <1>18 DEF Placed
<1> QED BY <1>4, <1>6, <1>8, <1>17, <1>19

(* A turn of the page begins. *)
LEMMA PlacedTurn ==
  ASSUME NEW p, NEW scr \in Seq(Turns), scr # <<>>, NEW lg \in Seq(Records),
         NEW w \in Seq(Records), NEW ks, Placed(p, scr, lg, ks, Len(lg)),
         NEW u \in Turns, u.ops = <<>>,
         Opened(u, Len(lg), Len(lg) + Len(w), lg \o w, ks)
  PROVE  LET scr2 == Append(scr, u)
         IN /\ scr2 \in Seq(Turns) /\ scr2 # <<>>
            /\ Placed(Extended(p, scr2, Len(lg \o w)), scr2, lg \o w, ks, Len(lg \o w))
<1> DEFINE T == Len(scr)
           scr2 == Append(scr, u)
           n == Len(lg \o w)
           q == Extended(p, scr2, n)
<1>1. T \in Nat \ {0} /\ DOMAIN scr = 1..T
  OBVIOUS
<1>2. scr2 \in Seq(Turns) /\ DOMAIN scr2 = 1..T + 1 /\ Len(scr2) = T + 1 /\ scr2 # <<>>
  BY <1>1
<1>3. (\A t \in 1..T : scr2[t] = scr[t]) /\ scr2[T + 1] = u
  BY <1>1
<1>4. n = Len(lg) + Len(w) /\ n = Len(lg \o w) /\ n \in Nat /\ Len(lg) \in 0..n
  BY LogGrows
<1>5. q = [t \in DOMAIN scr2 |-> [j \in 0..Len(scr2[t].ops) |->
            IF t \in DOMAIN p /\ j \in DOMAIN p[t] THEN p[t][j] ELSE n]]
  BY DEF Extended
<1>6. q = Extended(p, scr2, Len(lg \o w)) /\ scr2 = Append(scr, u) /\ Len(scr) = T
  OBVIOUS
<1> HIDE DEF T, scr2, n, q
<1>7. /\ DOMAIN p = 1..T
      /\ \A t \in 1..T : /\ Len(scr[t].ops) \in Nat /\ DOMAIN p[t] = 0..Len(scr[t].ops)
                         /\ \A j \in 0..Len(scr[t].ops) : p[t][j] \in 0..Len(lg)
  <2>1. \A t \in 1..T : Len(scr[t].ops) \in Nat
    BY <1>1 DEF Turns
  <2>2. DOMAIN p = 1..T /\ \A t \in 1..T : p[t] \in [0..Len(scr[t].ops) -> 0..Len(lg)]
    BY <1>1 DEF Placed, Places
  <2> QED BY <2>1, <2>2
<1>8. \A t \in 1..T : \A j \in 0..Len(scr[t].ops) : q[t][j] = p[t][j]
  BY <1>1, <1>2, <1>3, <1>5, <1>7
<1>9. Len(scr2[T + 1].ops) = 0 /\ q[T + 1][0] = n
  <2>1. T + 1 \notin DOMAIN p /\ T + 1 \in DOMAIN scr2
    BY <1>1, <1>2, <1>7
  <2>2. Len(scr2[T + 1].ops) = 0
    BY <1>3
  <2> QED BY <2>1, <2>2, <1>5
<1>10. Places(q, scr2, n)
  <2>1. DOMAIN q = DOMAIN scr2
    BY <1>5
  <2>2. ASSUME NEW t \in DOMAIN scr2
        PROVE  q[t] \in [0..Len(scr2[t].ops) -> 0..n]
    <3>1. q[t] = [j \in 0..Len(scr2[t].ops) |->
                    IF t \in DOMAIN p /\ j \in DOMAIN p[t] THEN p[t][j] ELSE n]
      BY <1>5
    <3>2. t \in DOMAIN p => \A j \in DOMAIN p[t] : p[t][j] \in 0..Len(lg)
      BY <1>7
    <3>3. n \in 0..n /\ \A m \in 0..Len(lg) : m \in 0..n
      BY <1>4, LenProperties
    <3> QED BY <3>1, <3>2, <3>3
  <2> QED BY <2>1, <2>2 DEF Places
<1>11. q[1][0] = 0
  <2>1. p[1][0] = 0 /\ 1 \in 1..T
    BY <1>1 DEF Placed
  <2>2. 0 \in 0..Len(scr[1].ops)
    BY <2>1, <1>7
  <2> QED BY <2>1, <2>2, <1>8
<1>12. ASSUME NEW t \in 1..T + 1, NEW j \in 1..Len(scr2[t].ops)
       PROVE  Wrote(scr2[t].ops[j], q[t][j - 1], q[t][j], lg \o w, ks)
  <2>1. Placed(p, scr, lg \o w, ks, Len(lg))
    BY PlacedLonger, LenProperties
  <2>2. t \in 1..T
    BY <1>1, <1>9
  <2>3. scr2[t] = scr[t] /\ Len(scr[t].ops) \in Nat
    BY <2>2, <1>3, <1>7
  <2>4. j \in 1..Len(scr[t].ops) /\ j \in 0..Len(scr[t].ops) /\ j - 1 \in 0..Len(scr[t].ops)
    BY <2>3
  <2>5. Wrote(scr[t].ops[j], p[t][j - 1], p[t][j], lg \o w, ks)
    BY <2>1, <2>2, <2>4, <1>1 DEF Placed
  <2> QED BY <2>2, <2>3, <2>4, <2>5, <1>8
<1>13. p[T][Len(scr[T].ops)] = Len(lg)
  BY <1>6 DEF Placed
<1>14. ASSUME NEW t \in 1..T
       PROVE  Opened(scr2[t + 1], q[t][Len(scr2[t].ops)], q[t + 1][0], lg \o w, ks)
  <2>1. Len(scr[t].ops) \in 0..Len(scr[t].ops) /\ scr2[t] = scr[t]
    BY <1>3, <1>7
  <2>2. q[t][Len(scr2[t].ops)] = p[t][Len(scr[t].ops)]
    BY <2>1, <1>8
  <2>3. CASE t # T
    <3>1. t \in 1..T - 1 /\ t + 1 \in 1..T
      BY <2>3, <1>1
    <3>2. Opened(scr[t + 1], p[t][Len(scr[t].ops)], p[t + 1][0], lg \o w, ks)
      <4>1. Placed(p, scr, lg \o w, ks, Len(lg))
        BY PlacedLonger, LenProperties
      <4> QED BY <3>1, <4>1, <1>6 DEF Placed
    <3>3. 0 \in 0..Len(scr[t + 1].ops)
      BY <3>1, <1>7
    <3>4. q[t + 1][0] = p[t + 1][0] /\ scr2[t + 1] = scr[t + 1]
      BY <3>1, <3>3, <1>3, <1>8
    <3> QED BY <2>2, <3>2, <3>4
  <2>4. CASE t = T
    BY <2>2, <2>4, <1>3, <1>4, <1>9, <1>13
  <2> QED BY <2>3, <2>4
<1>15. Placed(q, scr2, lg \o w, ks, n)
  <2>1. q[Len(scr2)][Len(scr2[Len(scr2)].ops)] = n
    BY <1>2, <1>9
  <2>2. \A t \in 1..Len(scr2) - 1 :
          Opened(scr2[t + 1], q[t][Len(scr2[t].ops)], q[t + 1][0], lg \o w, ks)
    BY <1>1, <1>2, <1>14
  <2> QED BY <2>1, <2>2, <1>2, <1>10, <1>11, <1>12 DEF Placed
<1> QED BY <1>2, <1>4, <1>6, <1>15

-----------------------------------------------------------------------------
(* What the recorder does keeps the invariant. *)

LEMMA WholeKept ==
  ASSUME IInv, Recording, phase' = phase, NEW w \in Seq(Records), log' = log \o w,
         \A i \in 1..Len(w) : w[i].rec # "End",
         refused' => refused \/ \E i \in 1..Len(w) : w[i] = Refusal
  PROVE  LogWhole'
<1>1. /\ log \in Seq(Records) /\ phase = "record" /\ phase' = "record"
      /\ Told = Len(log) /\ Told' = Len(log')
  BY DEF IInv, Typed, SessionTyped, Recording, Told
<1> DEFINE m == Len(log)
           k == Len(w)
<1>2. m \in Nat /\ k \in Nat
  BY <1>1, LenProperties
<1>3. Len(log') = m + k /\ \A i \in 1..m : log'[i] = log[i]
  BY <1>1, LogGrows
<1>4. \A i \in 1..k : log'[m + i] = w[i]
  BY <1>1, LogGrows
<1>5. /\ \A i \in 1..m : log[i].rec # "End"
      /\ refused => \E i \in 1..m : log[i] = Refusal
  BY <1>1 DEF IInv, LogWhole
<1>6. /\ \A i \in 1..k : w[i].rec # "End"
      /\ refused' => refused \/ \E i \in 1..k : w[i] = Refusal
  OBVIOUS
<1> HIDE DEF m, k
<1>7. ASSUME NEW i \in 1..m + k
      PROVE  log'[i].rec # "End"
  <2>1. CASE i \in 1..m
    BY <2>1, <1>3, <1>5
  <2>2. CASE i \notin 1..m
    <3>1. i - m \in 1..k /\ m + (i - m) = i
      BY <2>2, <1>2
    <3>2. log'[m + (i - m)] = w[i - m]
      BY <3>1, <1>4
    <3> QED BY <3>1, <3>2, <1>6
  <2> QED BY <2>1, <2>2
<1>8. refused' => \E i \in 1..m + k : log'[i] = Refusal
  <2>1. \A i \in 1..m : i \in 1..m + k
    BY <1>2
  <2>2. \A i \in 1..k : m + i \in 1..m + k
    BY <1>2
  <2>3. refused => \E i \in 1..m + k : log'[i] = Refusal
    BY <2>1, <1>3, <1>5
  <2>4. ASSUME NEW i \in 1..k, w[i] = Refusal
        PROVE  \E j \in 1..m + k : log'[j] = Refusal
    <3>1. m + i \in 1..m + k /\ log'[m + i] = Refusal
      BY <2>2, <2>4, <1>4
    <3> QED BY <3>1
  <2> QED BY <2>3, <2>4, <1>6
<1> QED BY <1>1, <1>3, <1>7, <1>8 DEF LogWhole

LEMMA HandedKept ==
  ASSUME IInv, Recording, handed' = handed, NEW w \in Seq(Records), log' = log \o w
  PROVE  HandedTold'
<1>1. /\ log \in Seq(Records) /\ Len(log) \in Nat /\ log' \in Seq(Records)
      /\ Len(log') = Len(log) + Len(w) /\ Len(w) \in Nat
  BY LogGrows, LenProperties DEF IInv, Typed, SessionTyped
<1>2. ASSUME NEW id, HandedIn(id, Len(log), log)
      PROVE  HandedIn(id, Len(log'), log')
  <2>1. HandedIn(id, Len(log), log \o w)
    BY <1>1, <1>2, HandedInKept
  <2>2. \A j \in 1..Len(log) - 1 : j \in 1..Len(log') - 1
    BY <1>1
  <2> QED BY <2>1, <2>2 DEF HandedIn
<1> QED BY <1>2 DEF HandedTold, IInv, Recording

LEMMA StepKeeps ==
  ASSUME IInv, Recording, RecorderTyped', UNCHANGED replayer,
         NEW op \in Deeds, NEW saw \in Answers,
         NEW w \in Seq(Records), NEW ids \in Nat, Does(op, saw, w, ids),
         Wrote([op |-> op, saw |-> saw], Len(log), Len(log) + Len(w), log \o w, kinds'),
         \A i \in 1..Len(w) : w[i].rec # "End",
         refused' => refused \/ \E i \in 1..Len(w) : w[i] = Refusal,
         \A i \in 1..Len(w) - ids : w[i].rec # "TaskReg", handed' = handed \/ HandedTold',
         \/ kinds' = kinds /\ ids = 0
         \/ /\ \E k \in Kinds : kinds' = Append(kinds, k)
            /\ ids = 1 /\ Len(w) # 0 /\ w[Len(w)].rec = "TaskReg" /\ w[Len(w)].id = nextTask
  PROVE  IInv'
<1>1. PICK p : Keeps(p)
  BY DEF IInv
<1>2. /\ log \in Seq(Records) /\ script \in Seq(Turns) /\ script # <<>>
      /\ kinds \in Seq(Kinds) /\ nextTask \in Nat \ {0} /\ phase = "record"
  BY DEF IInv, Typed, SessionTyped, RecorderTyped, Recording
<1>3. Placed(p, script, log, kinds', Len(log))
  BY <1>1, <1>2, PlacedKinds DEF Keeps, Told
<1>4. [op |-> op, saw |-> saw] \in Steps
  BY DEF Steps
<1>5. /\ script' = [script EXCEPT ![Len(script)].ops = Append(@, [op |-> op, saw |-> saw])]
      /\ log' = log \o w /\ nextTask' = nextTask + ids
      /\ phase' = phase /\ turn' = turn /\ at' = at /\ turnNo' = turnNo /\ opNo' = opNo
      /\ verdict' = verdict
  BY DEF Does
<1>6. \E q : /\ script' \in Seq(Turns) /\ script' # <<>>
             /\ Placed(q, script', log', kinds', Len(log'))
  <2> DEFINE step == [op |-> op, saw |-> saw]
             ks == kinds'
  <2>1. step \in Steps /\ Wrote(step, Len(log), Len(log) + Len(w), log \o w, ks)
    BY <1>4
  <2> HIDE DEF step
  <2>2. script' = [script EXCEPT ![Len(script)].ops = Append(@, step)]
    BY <1>5 DEF step
  <2>3. Placed(p, script, log, ks, Len(log))
    BY <1>3
  <2> HIDE DEF ks
  <2>4. LET scr2 == [script EXCEPT ![Len(script)].ops = Append(@, step)]
        IN /\ scr2 \in Seq(Turns) /\ scr2 # <<>>
           /\ Placed(Extended(p, scr2, Len(log \o w)), scr2, log \o w, ks, Len(log \o w))
    BY <1>2, <2>1, <2>3, PlacedStep
  <2>5. /\ script' \in Seq(Turns) /\ script' # <<>>
        /\ Placed(Extended(p, script', Len(log')), script', log', ks, Len(log'))
    BY <1>5, <2>2, <2>4
  <2> QED BY <2>5 DEF ks
<1>7. PICK q : Placed(q, script', log', kinds', Len(log'))
  BY <1>6
<1>8. Counted(log', Len(kinds'))
  <2>1. Counted(log, Len(kinds)) /\ Len(kinds) \in Nat /\ nextTask = Len(kinds) + 1
    BY <1>2, LenProperties DEF IInv, Unreplayed
  <2>0. Len(w) \in Nat /\ Len(w) - 0 = Len(w)
    BY LenProperties
  <2>2. CASE kinds' = kinds /\ ids = 0
    BY <1>2, <1>5, <2>0, <2>1, <2>2, CountedOn
  <2>3. CASE /\ \E k \in Kinds : kinds' = Append(kinds, k)
             /\ ids = 1 /\ Len(w) # 0 /\ w[Len(w)].rec = "TaskReg" /\ w[Len(w)].id = nextTask
    <3>1. Len(kinds') = Len(kinds) + 1
      BY <1>2, <2>3
    <3> DEFINE m == Len(w) - 1
    <3>2. m \in Nat /\ Len(w) = m + 1 /\ w[m + 1].rec = "TaskReg" /\ w[m + 1].id = Len(kinds) + 1
          /\ \A i \in 1..m : w[i].rec # "TaskReg"
      BY <2>0, <2>1, <2>3
    <3> HIDE DEF m
    <3> QED BY <1>2, <1>5, <2>1, <3>1, <3>2, CountedNext
  <2> QED BY <2>2, <2>3
<1>9. /\ log' \in Seq(Records) /\ Len(log') = Len(log) + Len(w)
      /\ \A i \in 1..Len(log) : log'[i] = log[i]
      /\ \A i \in 1..Len(w) : log'[Len(log) + i] = w[i]
  <2> DEFINE longer == log \o w
  <2>1. /\ longer \in Seq(Records) /\ Len(longer) = Len(log) + Len(w)
        /\ \A i \in 1..Len(log) : longer[i] = log[i]
        /\ \A i \in 1..Len(w) : longer[Len(log) + i] = w[i]
    BY <1>2, LogGrows
  <2>2. log' = longer
    BY <1>5
  <2> HIDE DEF longer
  <2> QED BY <2>1, <2>2, Zenon
<1>10. SessionTyped'
  BY <1>2, <1>5, <1>6, <1>9 DEF IInv, Typed, SessionTyped
<1>11. ReplayerTyped'
  BY DEF IInv, Typed, ReplayerTyped, replayer
<1>12. LogWhole'
  BY <1>2, <1>5, WholeKept
<1>13. Unreplayed'
  <2>1. nextTask' = Len(kinds') + 1
    <3>1. nextTask = Len(kinds) + 1 /\ Len(kinds) \in Nat
      BY <1>2, LenProperties DEF IInv, Unreplayed
    <3>2. Len(kinds') = Len(kinds) + ids
      BY <1>2, <3>1
    <3> QED BY <1>5, <3>1, <3>2
  <2> QED BY <2>1, <1>2, <1>5 DEF IInv, Unreplayed, replayer
<1>14. Passed' /\ NeverPastRefusal' /\ Follows(q)' /\ Told' = Len(log')
  BY <1>2, <1>5 DEF Passed, NeverPastRefusal, Follows, Told
<1>15. Keeps(q)'
  BY <1>7, <1>14 DEF Keeps
<1>16. HandedTold'
  BY <1>2, <1>5, HandedKept
<1> QED BY <1>8, <1>10, <1>11, <1>12, <1>13, <1>14, <1>15, <1>16 DEF IInv, Typed

LEMMA TurnKeeps ==
  ASSUME IInv, Recording, RecorderTyped', UNCHANGED <<replayer, kinds, handed>>,
         NEW id \in Nat, NEW part \in Parts, NEW given \in Answers,
         NEW w \in Seq(Records), Begins(id, part, given, w, 0),
         Opened([id |-> id, part |-> part, given |-> given, ops |-> <<>>],
                Len(log), Len(log) + Len(w), log \o w, kinds),
         \A i \in 1..Len(w) : w[i].rec \notin {"End", "TaskReg"},
         refused' => refused \/ \E i \in 1..Len(w) : w[i] = Refusal
  PROVE  IInv'
<1>1. PICK p : Keeps(p)
  BY DEF IInv
<1>2. /\ log \in Seq(Records) /\ script \in Seq(Turns) /\ script # <<>>
      /\ kinds \in Seq(Kinds) /\ nextTask \in Nat \ {0} /\ phase = "record"
  BY DEF IInv, Typed, SessionTyped, RecorderTyped, Recording
<1>3. Placed(p, script, log, kinds, Len(log))
  BY <1>1, <1>2 DEF Keeps, Told
<1> DEFINE u == [id |-> id, part |-> part, given |-> given, ops |-> <<>>]
<1>4. u \in Turns /\ u.ops = <<>> /\ Opened(u, Len(log), Len(log) + Len(w), log \o w, kinds)
  BY DEF Turns
<1>5. /\ script' = Append(script, u) /\ log' = log \o w /\ nextTask' = nextTask
      /\ phase' = phase /\ turn' = TRUE /\ at' = at /\ turnNo' = turnNo /\ opNo' = opNo
      /\ verdict' = verdict /\ kinds' = kinds
  BY <1>2 DEF Begins, Turn
<1> HIDE DEF u
<1>6. \E q : /\ script' \in Seq(Turns) /\ script' # <<>>
             /\ Placed(q, script', log', kinds, Len(log'))
  BY <1>2, <1>3, <1>4, <1>5, PlacedTurn
<1>7. PICK q : Placed(q, script', log', kinds', Len(log'))
  BY <1>5, <1>6
<1>8. Counted(log', Len(kinds'))
  BY <1>2, <1>5, LenProperties, CountedOn DEF IInv
<1>9. /\ log' \in Seq(Records) /\ Len(log') = Len(log) + Len(w)
      /\ \A i \in 1..Len(log) : log'[i] = log[i]
      /\ \A i \in 1..Len(w) : log'[Len(log) + i] = w[i]
  <2> DEFINE longer == log \o w
  <2>1. /\ longer \in Seq(Records) /\ Len(longer) = Len(log) + Len(w)
        /\ \A i \in 1..Len(log) : longer[i] = log[i]
        /\ \A i \in 1..Len(w) : longer[Len(log) + i] = w[i]
    BY <1>2, LogGrows
  <2>2. log' = longer
    BY <1>5
  <2> HIDE DEF longer
  <2> QED BY <2>1, <2>2, Zenon
<1>10. SessionTyped'
  BY <1>2, <1>5, <1>6, <1>9 DEF IInv, Typed, SessionTyped
<1>11. ReplayerTyped'
  BY DEF IInv, Typed, ReplayerTyped, replayer
<1>12. LogWhole'
  BY <1>2, <1>5, WholeKept
<1>13. Unreplayed'
  BY <1>2, <1>5 DEF IInv, Unreplayed, replayer
<1>14. Passed' /\ NeverPastRefusal' /\ Follows(q)' /\ Told' = Len(log')
  BY <1>2, <1>5 DEF Passed, NeverPastRefusal, Follows, Told
<1>15. Keeps(q)'
  BY <1>7, <1>14 DEF Keeps
<1>16. HandedTold'
  BY <1>2, <1>5, HandedKept
<1> QED BY <1>8, <1>10, <1>11, <1>12, <1>13, <1>14, <1>15, <1>16 DEF IInv, Typed

(* What is written is a record. *)
LEMMA RecordsWritten ==
  ASSUME NEW id \in Nat, NEW v \in Answers
  PROVE  /\ \A k \in Kinds : TaskReg(id, TaskKind(k)) \in Records
                             /\ TaskReg(id, TaskKind(k)).rec = "TaskReg"
                             /\ TaskReg(id, TaskKind(k)).id = id
         /\ TaskReg(id, "platform") \in Records /\ TaskReg(id, "platform").rec = "TaskReg"
         /\ TaskReg(id, "platform").id = id
         /\ \A q \in Queries : PlatformValue(id, q, v) \in Records
                               /\ PlatformValue(id, q, v).rec = "PlatformValue"
                               /\ PlatformValue(id, q, v).value = v
         /\ \A q \in Queries : Task(id, q) \in Records /\ Task(id, q).rec = "Task"
                               /\ Task(id, q).id = id
         /\ \A q \in Queries : Clock(q, v) \in Records /\ Clock(q, v).rec = "Clock"
         /\ Refusal \in Records /\ Refusal.rec = "Refusal"
  BY DEF TaskReg, Task, TaskKind, PlatformValue, Clock, Rec, Refusal, Records, Labels, Queries,
         Answers, None, Kinds, Timers

LEMMA RefusalWritten ==
  ASSUME IInv, Recording
  PROVE  /\ refuseOnce \in Seq(Records)
         /\ \A i \in 1..Len(refuseOnce) : refuseOnce[i].rec # "End" /\ refuseOnce[i] = Refusal
         /\ \/ Len(refuseOnce) = 0 /\ refused /\ refuseOnce = <<>>
            \/ Len(refuseOnce) = 1 /\ refuseOnce[1] = Refusal /\ refuseOnce = <<Refusal>>
<1>1. Refusal \in Records /\ Refusal.rec = "Refusal"
  BY DEF Refusal, Rec, None, Records, Labels, Queries, Answers
<1>2. CASE refused
  BY <1>2 DEF refuseOnce
<1>3. CASE ~refused
  <2>1. refuseOnce = <<Refusal>>
    BY <1>3 DEF refuseOnce
  <2>2. <<Refusal>> \in Seq(Records) /\ Len(<<Refusal>>) = 1 /\ <<Refusal>>[1] = Refusal
    BY <1>1
  <2> QED BY <1>1, <2>1, <2>2
<1> QED BY <1>2, <1>3

LEMMA ReadWritten ==
  ASSUME NEW what \in Reads, NEW v \in Values
  PROVE  ReadRecord(what, v) \in Records
         /\ ReadRecord(what, v).rec \notin {"End", "Task", "TaskReg", "Refusal"}
  BY DEF ReadRecord, Reads, patchClocks, patchRandom, patchStateReads, patchEventCounts,
         patchNotifications, patchMediaSeams, patchPerformance, patchStorage, patchStorageShape,
         patchCookie, Clock, PlatformValue, StorageRead, Rec, Records, Labels, Queries, Answers,
         Kinds, None

LEMMA FirstWritten ==
  ASSUME NEW lg \in Seq(Records), NEW w \in Seq(Records), Len(w) = 1 \/ Len(w) = 2
  PROVE  (lg \o w)[Len(lg) + 1] = w[1]
<1> DEFINE k == Len(w)
<1>0. k = 1 \/ k = 2
  OBVIOUS
<1> HIDE DEF k
<1>1. 1 \in 1..k
  BY <1>0
<1>2. \A i \in 1..k : (lg \o w)[Len(lg) + i] = w[i]
  BY LogGrows DEF k
<1> QED BY <1>1, <1>2

LEMMA OneWritten ==
  ASSUME NEW lg \in Seq(Records), NEW r \in Records
  PROVE  /\ <<r>> \in Seq(Records) /\ Len(<<r>>) = 1 /\ <<r>>[1] = r
         /\ (lg \o <<r>>)[Len(lg) + 1] = r
<1>1. <<r>> \in Seq(Records) /\ Len(<<r>>) = 1 /\ <<r>>[1] = r
  OBVIOUS
<1> QED BY <1>1, FirstWritten

LEMMA SecondWritten ==
  ASSUME NEW lg \in Seq(Records), NEW w \in Seq(Records), Len(w) = 2
  PROVE  (lg \o w)[Len(lg) + 2] = w[2]
<1>1. \A i \in 1..Len(w) : (lg \o w)[Len(lg) + i] = w[i]
  BY LogGrows
<1>2. 2 \in 1..Len(w)
  OBVIOUS
<1> QED BY <1>1, <1>2

(* The recorder's own state but for the tasks minted. *)
LEMMA Mints ==
  ASSUME IInv, Recording, NEW kind \in Kinds, kinds' = Append(kinds, kind),
         live' = live \cup {nextTask},
         UNCHANGED <<page, settled, fonts, refused, userContent>>,
         handed' \in [1..MaxFonts -> Nat]
  PROVE  RecorderTyped' /\ nextTask \in DOMAIN kinds' /\ kinds'[nextTask] = kind
<1>1. /\ kinds \in Seq(Kinds) /\ nextTask = Len(kinds) + 1 /\ live \subseteq DOMAIN kinds
      /\ settled \in Seq(Nat)
      /\ \A i \in DOMAIN settled : /\ settled[i] \in DOMAIN kinds
                                   /\ kinds[settled[i]] \in Outcomes \cup {"bitmap"}
  BY DEF IInv, Typed, RecorderTyped, Unreplayed, Recording
<1>2. /\ kinds' \in Seq(Kinds) /\ DOMAIN kinds' = DOMAIN kinds \cup {nextTask}
      /\ \A i \in DOMAIN kinds : kinds'[i] = kinds[i]
      /\ kinds'[nextTask] = kind
  BY <1>1
<1> QED BY <1>1, <1>2 DEF IInv, Typed, RecorderTyped

(* What the page does. *)
PageRecords ==
  \/ Read \/ ReadOwn \/ SetTimer \/ Observe \/ CallPlatform \/ ClearTimer \/ ReadReady
  \/ GetFile \/ MakeOfFile \/ ReadFile \/ UseRefused

LEMMA PageRecordsInv ==
  ASSUME IInv, PageRecords
  PROVE  IInv'
<1>1. /\ log \in Seq(Records) /\ nextTask \in Nat \ {0} /\ kinds \in Seq(Kinds)
      /\ refused \in BOOLEAN /\ userContent \in Seq(BOOLEAN) /\ page \subseteq Kinds
      /\ RecorderTyped /\ Len(log) \in Nat
  BY LenProperties DEF IInv, Typed, SessionTyped, RecorderTyped
<1>2. Recording
  BY DEF PageRecords, Read, ReadOwn, SetTimer, Observe, CallPlatform, ClearTimer, ReadReady,
         GetFile, MakeOfFile, ReadFile, UseRefused, PageRuns
<1>3. <<>> \in Seq(Records) /\ Len(<<>>) = 0 /\ log \o <<>> = log
  BY <1>1
<1>5. None \in Answers /\ nextTask \in Answers /\ Values \subseteq Answers
  BY <1>1 DEF Answers
<1>6. ASSUME NEW kind \in Calls, Registers(kind),
             UNCHANGED <<page, settled, fonts, handed, refused, userContent, replayer>>
      PROVE  IInv'
  <2> DEFINE r == TaskReg(nextTask, TaskKind(kind))
             w == <<r>>
             op == <<"call", kind>>
             step == [op |-> op, saw |-> nextTask]
  <2>0. kind \in Kinds
    BY DEF Calls, Kinds
  <2>1. r \in Records /\ r.rec = "TaskReg" /\ r.id = nextTask
    BY <1>1, <1>5, <2>0, RecordsWritten
  <2>2. w \in Seq(Records) /\ Len(w) = 1 /\ w[1] = r /\ (log \o w)[Len(log) + 1] = r
    BY <1>1, <2>1, OneWritten
  <2>3. op \in Deeds
    BY <2>0 DEF Deeds
  <2>4. Does(op, nextTask, w, 1) /\ kinds' = Append(kinds, kind)
        /\ live' = live \cup {nextTask}
    BY <1>6 DEF Registers
  <2>5. RecorderTyped' /\ nextTask \in DOMAIN kinds' /\ kinds'[nextTask] = kind
    BY <1>1, <1>2, <1>6, <2>0, <2>4, Mints DEF RecorderTyped
  <2>6. refused' = refused /\ handed' = handed /\ UNCHANGED replayer
    BY <1>6
  <2>7. step.op = op /\ step.saw = nextTask /\ op[1] = "call" /\ op[2] = kind
    OBVIOUS
  <2> HIDE DEF w, op, step
  <2>8. Wrote(step, Len(log), Len(log) + Len(w), log \o w, kinds')
    BY <2>2, <2>5, <2>7 DEF Wrote
  <2>9. \A i \in 1..Len(w) : w[i].rec # "End"
    BY <2>1, <2>2
  <2>10. (\A i \in 1..Len(w) - 1 : w[i].rec # "TaskReg") /\ Len(w) # 0
         /\ w[Len(w)].rec = "TaskReg" /\ w[Len(w)].id = nextTask
    BY <2>1, <2>2
  <2> QED BY <1>2, <1>5, <2>0, <2>2, <2>3, <2>4, <2>5, <2>6, <2>8, <2>9, <2>10, StepKeeps DEF step
(* One record that mints no task. *)
<1>7. ASSUME NEW op \in Deeds, NEW saw \in Answers, NEW r \in Records,
             r.rec \notin {"End", "TaskReg"}, Does(op, saw, <<r>>, 0),
             Wrote([op |-> op, saw |-> saw], Len(log), Len(log) + 1, log \o <<r>>, kinds),
             RecorderTyped', UNCHANGED <<kinds, handed, refused, replayer>>
      PROVE  IInv'
  <2> DEFINE w == <<r>>
  <2>1. w \in Seq(Records) /\ Len(w) = 1 /\ w[1] = r /\ (log \o w)[Len(log) + 1] = r
    BY <1>1, OneWritten
  <2>2. Does(op, saw, w, 0)
    BY <1>7
  <2> HIDE DEF w
  <2>3. Wrote([op |-> op, saw |-> saw], Len(log), Len(log) + Len(w), log \o w, kinds')
    BY <1>7, <2>1 DEF w
  <2>4. \A i \in 1..Len(w) : w[i].rec # "End"
    BY <1>7, <2>1
  <2>5. \A i \in 1..Len(w) - 0 : w[i].rec # "TaskReg"
    BY <1>7, <2>1
  <2>6. refused' => refused \/ \E i \in 1..Len(w) : w[i] = Refusal
    BY <1>7
  <2> QED BY <1>2, <1>7, <2>1, <2>2, <2>3, <2>4, <2>5, <2>6, StepKeeps
<1>71. CASE Read
  <2>1. PICK what \in Reads, v \in Values :
          Does(<<"read", what>>, v, <<ReadRecord(what, v)>>, 0)
    BY <1>71 DEF Read
  <2> DEFINE r == ReadRecord(what, v)
             op == <<"read", what>>
  <2>2. r \in Records /\ r.rec \notin {"End", "TaskReg"}
    BY ReadWritten
  <2>3. op \in Deeds
    BY DEF Deeds, Kinds
  <2>4. RecorderTyped' /\ UNCHANGED <<kinds, handed, refused, replayer>>
    BY <1>1, <1>71 DEF Read, recorder, RecorderTyped
  <2>5. Does(op, v, <<r>>, 0)
    BY <2>1
  <2>6. Wrote([op |-> op, saw |-> v], Len(log), Len(log) + 1, log \o <<r>>, kinds)
    BY <1>1, <2>2, OneWritten DEF Wrote
  <2> HIDE DEF r, op
  <2> QED BY <1>5, <1>7, <2>2, <2>3, <2>4, <2>5, <2>6
<1>8. CASE ReadOwn
  <2>1. PICK id \in DOMAIN kinds, v \in Values : Does(<<"own", id>>, v, <<OwnRead(id, v)>>, 0)
    BY <1>8 DEF ReadOwn
  <2> DEFINE r == OwnRead(id, v)
             op == <<"own", id>>
  <2>2. r \in Records /\ r.rec = "PlatformValue"
    BY <1>1, <1>5, RecordsWritten DEF OwnRead, patchIdleDeadline, takeRecords, Queries
  <2>3. op \in Deeds
    BY <1>1 DEF Deeds
  <2>4. RecorderTyped' /\ UNCHANGED <<kinds, handed, refused, replayer>>
    BY <1>1, <1>8 DEF ReadOwn, recorder, RecorderTyped
  <2>5. Does(op, v, <<r>>, 0)
    BY <2>1
  <2>6. Wrote([op |-> op, saw |-> v], Len(log), Len(log) + 1, log \o <<r>>, kinds)
    BY <1>1, <2>2, OneWritten DEF Wrote, OwnRead, OwnQuery, patchIdleDeadline, takeRecords
  <2> HIDE DEF r, op
  <2> QED BY <1>5, <1>7, <2>2, <2>3, <2>4, <2>5, <2>6
<1>9. CASE SetTimer \/ Observe \/ CallPlatform
  <2>1. /\ \E kind \in Calls : Registers(kind)
        /\ UNCHANGED <<page, settled, fonts, handed, refused, userContent, replayer>>
    <3>1. CASE SetTimer
      BY <3>1, <1>1 DEF SetTimer, Calls
    <3>2. CASE Observe
      BY <3>2, <1>1 DEF Observe, Calls
    <3>3. CASE CallPlatform
      BY <3>3, <1>1 DEF CallPlatform, Calls
    <3> QED BY <1>9, <3>1, <3>2, <3>3
  <2> QED BY <2>1, <1>6
(* The steps that write nothing. *)
<1>10. ASSUME NEW op \in Deeds, Does(op, None, <<>>, 0),
              op[1] \in {"get", "make"} \/ (op[1] = "clear" /\ op[2] \in DOMAIN kinds),
              RecorderTyped', UNCHANGED <<kinds, handed, refused, replayer>>
       PROVE  IInv'
  <2>1. Len(log) + Len(<<>>) = Len(log)
    BY <1>1, LenProperties
  <2>2. Wrote([op |-> op, saw |-> None], Len(log), Len(log) + Len(<<>>), log \o <<>>, kinds')
    BY <1>10, <2>1 DEF Wrote
  <2>3. /\ \A i \in 1..Len(<<>>) : <<>>[i].rec # "End"
        /\ \A i \in 1..Len(<<>>) - 0 : <<>>[i].rec # "TaskReg"
    BY <1>3
  <2> QED BY <1>2, <1>3, <1>5, <1>10, <2>2, <2>3, StepKeeps
<1>11. CASE ClearTimer
  <2>1. PICK id \in live : live' = live \ {id} /\ Does(<<"clear", id>>, None, <<>>, 0)
    BY <1>11 DEF ClearTimer
  <2>2. <<"clear", id>> \in Deeds /\ id \in DOMAIN kinds
    BY <1>1 DEF Deeds, RecorderTyped
  <2>3. RecorderTyped' /\ UNCHANGED <<kinds, handed, refused, replayer>>
    BY <1>1, <1>11, <2>1 DEF ClearTimer, RecorderTyped
  <2> QED BY <2>1, <2>2, <2>3, <1>10
<1>12. CASE GetFile \/ MakeOfFile
  <2>1. \E op \in Deeds : op[1] \in {"get", "make"} /\ Does(op, None, <<>>, 0)
    <3>1. <<"get", 0>> \in Deeds /\ <<"make", 0>> \in Deeds
      BY DEF Deeds
    <3> QED BY <1>12, <3>1 DEF GetFile, MakeOfFile
  <2>2. userContent' \in Seq(BOOLEAN)
    <3>1. \A known \in BOOLEAN : Append(userContent, known) \in Seq(BOOLEAN)
      BY <1>1
    <3>2. CASE GetFile
      <4>1. PICK way \in Ways \cap Gets : userContent' = Append(userContent, way # "form")
        BY <3>2 DEF GetFile, markList
      <4>2. (way # "form") \in BOOLEAN
        OBVIOUS
      <4> QED BY <3>1, <4>1, <4>2
    <3>3. CASE MakeOfFile
      <4>1. PICK i \in DOMAIN userContent, way \in Ways \cap Makes :
              userContent' = Append(userContent, fromParts(userContent[i], way))
        BY <3>3 DEF MakeOfFile
      <4>2. fromParts(userContent[i], way) \in BOOLEAN
        BY <1>1 DEF fromParts
      <4> QED BY <3>1, <4>1, <4>2
    <3> QED BY <1>12, <3>2, <3>3
  <2>3. RecorderTyped' /\ UNCHANGED <<kinds, handed, refused, replayer>>
    <3>1. UNCHANGED <<page, kinds, live, settled, fonts, handed, refused, replayer>>
      BY <1>12 DEF GetFile, MakeOfFile
    <3> QED BY <1>1, <2>2, <3>1 DEF RecorderTyped
  <2> QED BY <2>1, <2>3, <1>10
<1>13. CASE UseRefused
  <2> DEFINE w == refuseOnce
             op == <<"refused", 0>>
             step == [op |-> op, saw |-> None]
  <2>1. /\ w \in Seq(Records)
        /\ \A i \in 1..Len(w) : w[i].rec # "End" /\ w[i] = Refusal
        /\ \/ Len(w) = 0 /\ refused /\ w = <<>>
           \/ Len(w) = 1 /\ w[1] = Refusal
    BY <1>2, RefusalWritten
  <2>2. op \in Deeds /\ step.op[1] = "refused"
    BY DEF Deeds
  <2>3. Does(op, None, w, 0) /\ refused' = TRUE
    BY <1>13 DEF UseRefused
  <2>4. UNCHANGED <<page, kinds, live, settled, fonts, handed, userContent, replayer>>
    BY <1>13 DEF UseRefused
  <2>5. RecorderTyped'
    BY <1>1, <2>3, <2>4 DEF RecorderTyped
  <2> HIDE DEF w, op, step
  <2>6. Wrote(step, Len(log), Len(log) + Len(w), log \o w, kinds')
    <3>1. CASE Len(w) = 0 /\ refused /\ w = <<>>
      <4>1. \E i \in 1..Len(log) : log[i] = Refusal
        BY <3>1, <1>2 DEF IInv, LogWhole, Told, Recording
      <4>2. Len(log) + Len(w) = Len(log) /\ log \o w = log
        BY <3>1, <1>1, LenProperties
      <4> QED BY <4>1, <4>2, <2>2 DEF Wrote
    <3>2. CASE Len(w) = 1 /\ w[1] = Refusal
      <4>1. (log \o w)[Len(log) + 1] = Refusal /\ Len(log) + Len(w) = Len(log) + 1
        BY <3>2, <1>1, <2>1, FirstWritten
      <4> QED BY <4>1, <2>2 DEF Wrote
    <3> QED BY <2>1, <3>1, <3>2
  <2>7. refused' => refused \/ \E i \in 1..Len(w) : w[i] = Refusal
    BY <2>1
  <2>8. \A i \in 1..Len(w) - 0 : w[i].rec # "TaskReg"
    BY <2>1 DEF Refusal, Rec
  <2> QED BY <1>2, <1>5, <2>1, <2>2, <2>3, <2>4, <2>5, <2>6, <2>7, <2>8, StepKeeps DEF step
<1>14. CASE ReadFile
  <2> DEFINE r == TaskReg(nextTask, "platform")
             op == <<"call", "file">>
             step == [op |-> op, saw |-> nextTask]
  <2>1. PICK known \in BOOLEAN :
          /\ Does(op, nextTask, (IF refuseUserContent(known) THEN refuseOnce ELSE <<>>) \o <<r>>, 1)
          /\ refused' = (refused \/ refuseUserContent(known))
    BY <1>1, <1>14 DEF ReadFile
  <2> DEFINE f == IF refuseUserContent(known) THEN refuseOnce ELSE <<>>
             w == f \o <<r>>
  <2>2. /\ f \in Seq(Records)
        /\ \/ Len(f) = 0 /\ f = <<>>
           \/ Len(f) = 1 /\ f[1] = Refusal
        /\ \A i \in 1..Len(f) : f[i].rec \notin {"End", "TaskReg"}
    <3>1. Refusal.rec = "Refusal"
      BY DEF Refusal, Rec
    <3>2. CASE refuseUserContent(known)
      BY <1>2, <3>1, <3>2, RefusalWritten
    <3>3. CASE ~refuseUserContent(known)
      BY <1>3, <3>3
    <3> QED BY <3>2, <3>3
  <2>3. r \in Records /\ r.rec = "TaskReg" /\ r.id = nextTask
        /\ <<r>> \in Seq(Records) /\ Len(<<r>>) = 1 /\ <<r>>[1] = r
    BY <1>1, <1>5, RecordsWritten
  <2>4. /\ op \in Deeds /\ "file" \in Kinds /\ "file" \in Calls /\ TaskKind("file") = "platform"
        /\ step.op = op /\ op[1] = "call" /\ op[2] = "file" /\ step.saw = nextTask
    BY DEF Deeds, Kinds, Calls, Promises, Plain, Outcomes, TaskKind, Timers
  <2>5. kinds' = Append(kinds, "file") /\ live' = live \cup {nextTask}
        /\ UNCHANGED <<page, settled, fonts, handed, userContent, replayer>>
    BY <1>14 DEF ReadFile
  <2>6. refuseUserContent(known) /\ ~refused => f = <<Refusal>>
    BY <1>2, RefusalWritten DEF refuseOnce
  <2>7. Does(op, nextTask, w, 1)
    BY <2>1
  <2>71. refused' = (refused \/ refuseUserContent(known)) /\ refuseUserContent(known) \in BOOLEAN
    BY <2>1 DEF refuseUserContent
  <2>72. r = TaskReg(nextTask, "platform")
    OBVIOUS
  <2> HIDE DEF op, r, f, step
  <2>8. w \in Seq(Records) /\ Len(w) = Len(f) + 1 /\ (\A i \in 1..Len(f) : w[i] = f[i])
        /\ w[Len(f) + 1] = r
    <3>1. /\ w \in Seq(Records) /\ Len(w) = Len(f) + Len(<<r>>)
          /\ \A i \in 1..Len(f) : w[i] = f[i]
          /\ \A i \in 1..Len(<<r>>) : w[Len(f) + i] = <<r>>[i]
      BY <2>2, <2>3, LogGrows
    <3>2. 1 \in 1..Len(<<r>>)
      BY <2>3
    <3> QED BY <2>3, <3>1, <3>2
  <2> HIDE DEF w
  <2>9. /\ \A i \in 1..Len(w) : w[i].rec # "End"
        /\ \A i \in 1..Len(w) - 1 : w[i].rec # "TaskReg"
        /\ Len(w) # 0 /\ w[Len(w)].rec = "TaskReg" /\ w[Len(w)].id = nextTask
    BY <2>2, <2>3, <2>8
  <2>11. RecorderTyped' /\ nextTask \in DOMAIN kinds' /\ kinds'[nextTask] = "file"
    <3>1. handed' \in [1..MaxFonts -> Nat] /\ refused' \in BOOLEAN
      BY <1>1, <2>5, <2>71 DEF RecorderTyped
    <3>2. /\ nextTask = Len(kinds) + 1
      BY <1>2 DEF IInv, Unreplayed, Recording
    <3>3. /\ kinds' \in Seq(Kinds) /\ DOMAIN kinds' = DOMAIN kinds \cup {nextTask}
          /\ \A i \in DOMAIN kinds : kinds'[i] = kinds[i]
          /\ kinds'[nextTask] = "file"
      BY <1>1, <2>4, <2>5, <3>2
    <3> QED BY <1>1, <2>5, <3>1, <3>3 DEF RecorderTyped
  <2>10. Wrote(step, Len(log), Len(log) + Len(w), log \o w, kinds')
    <3>1. \A i \in 1..Len(w) : (log \o w)[Len(log) + i] = w[i]
      BY <1>1, <2>8, LogGrows
    <3>2. CASE Len(f) = 0
      <4>1. w[1] = r /\ Len(w) = 1 /\ 1 \in 1..Len(w)
        BY <3>2, <2>8
      <4>2. (log \o w)[Len(log) + 1] = w[1]
        BY <3>1, <4>1
      <4> QED BY <4>1, <4>2, <2>4, <2>11, <2>72 DEF Wrote
    <3>3. CASE Len(f) = 1 /\ f[1] = Refusal
      <4>1. w[1] = Refusal /\ w[2] = r /\ Len(w) = 2 /\ 1 \in 1..Len(w) /\ 2 \in 1..Len(w)
        BY <3>3, <2>8
      <4>2. (log \o w)[Len(log) + 1] = w[1] /\ (log \o w)[Len(log) + 2] = w[2]
        BY <3>1, <4>1
      <4> QED BY <4>1, <4>2, <2>4, <2>11, <2>72 DEF Wrote
    <3> QED BY <2>2, <3>2, <3>3
  <2>12. refused' => refused \/ \E i \in 1..Len(w) : w[i] = Refusal
    <3>1. ASSUME ~refused, refuseUserContent(known)
          PROVE  1 \in 1..Len(w) /\ w[1] = Refusal
      BY <3>1, <2>6, <2>8
    <3> QED BY <3>1, <2>71
  <2>13. UNCHANGED replayer /\ handed' = handed
    BY <2>5
  <2> QED BY <1>1, <1>2, <1>5, <2>4, <2>5, <2>7, <2>8, <2>9, <2>10, <2>11, <2>12, <2>13, StepKeeps
          DEF step
<1>15. CASE ReadReady
  <2> DEFINE had == handed[fonts]
             told == PlatformValue(0, "ready", had)
             r == TaskReg(nextTask, "platform")
             op == <<"ready", 0>>
  <2>1. had \in Nat /\ had \in Answers
    BY <1>1 DEF RecorderTyped, Answers
  <2>2. "ready" \in Kinds /\ "ready" \in Queries /\ op \in Deeds /\ op[1] = "ready"
    BY DEF Kinds, Promises, Outcomes, Queries, Deeds
  <2>3. told \in Records /\ told.rec = "PlatformValue" /\ told = Ready(had)
    BY <2>1, <2>2, RecordsWritten DEF Ready
  <2>4. r \in Records /\ r.rec = "TaskReg" /\ r.id = nextTask /\ r = TaskReg(nextTask, "platform")
    BY <1>1, <1>5, RecordsWritten
  <2>5. UNCHANGED <<page, settled, fonts, refused, userContent, replayer>>
    BY <1>15 DEF ReadReady
  <2>6. CASE had # 0
    <3>1. Does(op, had, <<told>>, 0) /\ UNCHANGED <<kinds, live, handed>>
      BY <1>15, <2>6 DEF ReadReady, promiseIdentity
    <3>2. RecorderTyped' /\ UNCHANGED <<kinds, handed, refused, replayer>>
      BY <1>1, <2>5, <3>1 DEF RecorderTyped
    <3>31. HandedIn(had, Len(log), log)
      BY <1>1, <1>2, <2>6 DEF IInv, HandedTold, Recording, RecorderTyped
    <3>32. told \in Records
      BY <2>3
    <3>3. Wrote([op |-> op, saw |-> had], Len(log), Len(log) + 1, log \o <<told>>, kinds)
      <4>1. (log \o <<told>>)[Len(log) + 1] = told
        BY <1>1, <3>32, OneWritten
      <4>2. HandedIn(had, Len(log), log \o <<told>>)
        <5>1. <<told>> \in Seq(Records) /\ Len(log) \in 0..Len(log)
          BY <1>1, <3>32
        <5> HIDE DEF told
        <5> QED BY <1>1, <3>31, <5>1, HandedInKept
      <4> QED BY <2>3, <2>6, <4>1, <4>2 DEF Wrote
    <3> HIDE DEF told, op, had
    <3> QED BY <1>7, <2>1, <2>2, <2>3, <3>1, <3>2, <3>3
  <2>7. CASE had = 0
    <3> DEFINE w == <<told, r>>
               step == [op |-> op, saw |-> nextTask]
    <3>1. /\ Does(op, nextTask, w, 1) /\ handed' = [handed EXCEPT ![fonts] = nextTask]
          /\ kinds' = Append(kinds, "ready") /\ live' = live \cup {nextTask}
      BY <1>15, <2>7 DEF ReadReady, promiseIdentity
    <3>2. w \in Seq(Records) /\ Len(w) = 2 /\ w[1] = told /\ w[2] = r
      BY <2>3, <2>4
    <3>21. step.op[1] = "ready" /\ step.saw = nextTask
      OBVIOUS
    <3> HIDE DEF w, op, told, r, step
    <3>3. (log \o w)[Len(log) + 1] = told /\ (log \o w)[Len(log) + 2] = r
      BY <1>1, <3>2, FirstWritten, SecondWritten
    <3>5. handed' \in [1..MaxFonts -> Nat]
      BY <1>1, <3>1 DEF RecorderTyped
    <3>6. RecorderTyped' /\ nextTask \in DOMAIN kinds' /\ kinds'[nextTask] = "ready"
      BY <1>2, <2>2, <2>5, <3>1, <3>5, Mints
    <3>4. Wrote(step, Len(log), Len(log) + Len(w), log \o w, kinds')
      BY <2>3, <2>4, <2>7, <3>2, <3>21, <3>3, <3>6 DEF Wrote
    <3>9. HandedTold'
      <4>1. /\ log' = log \o w /\ phase' = phase /\ Len(log') = Len(log) + 2
            /\ \A i \in 1..Len(log) : log'[i] = log[i]
            /\ log'[Len(log) + 1] = Ready(0)
            /\ log'[Len(log) + 2] = TaskReg(nextTask, "platform")
        <5>1. log' = log \o w /\ phase' = phase
          BY <3>1 DEF Does
        <5>2. Len(log \o w) = Len(log) + Len(w) /\ \A i \in 1..Len(log) : (log \o w)[i] = log[i]
          BY <1>1, <3>2, LogGrows
        <5>3. told = Ready(0) /\ r = TaskReg(nextTask, "platform")
          BY <2>3, <2>4, <2>7
        <5> QED BY <1>1, <3>2, <3>3, <5>1, <5>2, <5>3
      <4>2. HandedIn(nextTask, Len(log'), log')
        <5>1. Len(log) + 1 \in 1..Len(log') - 1 /\ (Len(log) + 1) + 1 = Len(log) + 2
          BY <1>1, <4>1
        <5> QED BY <4>1, <5>1 DEF HandedIn
      <4>3. \A id : HandedIn(id, Len(log), log) => HandedIn(id, Len(log'), log')
        <5>1. \A j \in 1..Len(log) - 1 : /\ j \in 1..Len(log') - 1 /\ j \in 1..Len(log)
                                        /\ j + 1 \in 1..Len(log)
          BY <1>1, <4>1
        <5> QED BY <4>1, <5>1 DEF HandedIn
      <4>4. \A f \in 1..MaxFonts : handed'[f] = handed[f] \/ handed'[f] = nextTask
        BY <1>1, <3>1 DEF RecorderTyped
      <4> QED BY <1>2, <4>2, <4>3, <4>4 DEF IInv, HandedTold, Recording
    <3>7. /\ \A i \in 1..Len(w) : w[i].rec # "End"
          /\ \A i \in 1..Len(w) - 1 : w[i].rec # "TaskReg"
          /\ Len(w) # 0 /\ w[Len(w)].rec = "TaskReg" /\ w[Len(w)].id = nextTask
      BY <2>3, <2>4, <3>2
    <3>8. UNCHANGED replayer /\ refused' = refused
      BY <2>5
    <3> QED BY <1>1, <1>2, <1>5, <2>2, <3>1, <3>2, <3>4, <3>6, <3>7, <3>8, <3>9, StepKeeps DEF step
  <2> QED BY <2>6, <2>7
<1> QED BY <1>71, <1>8, <1>9, <1>11, <1>12, <1>13, <1>14, <1>15 DEF PageRecords

(* What the platform does. *)
PlatformRecords ==
  \/ RunTimer \/ RunObserver \/ PlatformEvent \/ SettlePlain \/ SettleOutcomes \/ TellOutcome
  \/ Evaluate \/ SettleImport \/ ReplaceFonts \/ EndTurn \/ StopRecording

LEMMA TwoWritten ==
  ASSUME NEW r \in Records, NEW s \in Records
  PROVE  <<r>> \o <<s>> = <<r, s>>
<1> DEFINE a == <<r>>
           b == <<s>>
           c == <<r, s>>
<1>1. /\ a \in Seq(Records) /\ Len(a) = 1 /\ a[1] = r
      /\ b \in Seq(Records) /\ Len(b) = 1 /\ b[1] = s
      /\ c \in Seq(Records) /\ Len(c) = 2 /\ c[1] = r /\ c[2] = s
  OBVIOUS
<1> HIDE DEF a, b, c
<1>2. /\ a \o b \in Seq(Records) /\ Len(a \o b) = Len(a) + Len(b)
      /\ \A i \in 1..Len(a) : (a \o b)[i] = a[i]
  BY <1>1, LogGrows
<1>3. \A i \in 1..2 : (a \o b)[i] = c[i]
  <2>1. 1 \in 1..Len(a) /\ Len(a) + 1 = 2
    BY <1>1
  <2>2. (a \o b)[1] = r
    BY <1>1, <1>2, <2>1
  <2>3. (a \o b)[2] = s
    BY <1>1, <2>1, FirstWritten
  <2>4. \A i \in 1..2 : i = 1 \/ i = 2
    OBVIOUS
  <2> QED BY <1>1, <2>2, <2>3, <2>4
<1>4. a \o b = c
  BY <1>1, <1>2, <1>3, SeqEqual
<1> QED BY <1>4 DEF a, b, c

(* A task of the platform's writes its Task, and what its handler reads.   *)
LEMMA TaskKeeps ==
  ASSUME IInv, Recording, RecorderTyped', UNCHANGED <<replayer, kinds, handed, refused>>,
         NEW id \in DOMAIN kinds, NEW given \in Answers, NEW w, NEW r \in Records,
         NEW more \in BOOLEAN, NEW s \in Records, s.rec \notin {"End", "TaskReg"},
         w = IF more THEN <<r, s>> ELSE <<r>>, r = Task(id, TaskKind(kinds[id])),
         more <=> kinds[id] \in Reads1,
         IF more THEN GivenTo([id |-> id, part |-> "task", given |-> given, ops |-> <<>>],
                              kinds[id], s)
         ELSE given = None \/ kinds[id] = "file",
         Begins(id, "task", given, w, 0)
  PROVE  IInv'
<1> DEFINE u == [id |-> id, part |-> "task", given |-> given, ops |-> <<>>]
<1>0. r.rec = "Task" /\ log \in Seq(Records) /\ Len(log) \in Nat
  BY LenProperties DEF Task, Rec, IInv, Typed, SessionTyped
<1>1. /\ w \in Seq(Records) /\ Len(w) = Opening(id, kinds)
      /\ \A i \in 1..Len(w) : w[i].rec \notin {"End", "TaskReg"}
      /\ Len(w) = IF more THEN 2 ELSE 1
      /\ w[1] = r /\ (more => w[2] = s)
  <2>1. CASE more
    <3>1. w = <<r, s>> /\ w \in Seq(Records) /\ Len(w) = 2 /\ w[1] = r /\ w[2] = s
      BY <2>1
    <3> QED BY <1>0, <2>1, <3>1 DEF Opening
  <2>2. CASE ~more
    <3>1. w = <<r>> /\ w \in Seq(Records) /\ Len(w) = 1 /\ w[1] = r
      BY <2>2
    <3> QED BY <1>0, <2>2, <3>1 DEF Opening
  <2> QED BY <2>1, <2>2
<1>2. id \in Nat /\ "task" \in Parts
  BY DEF IInv, Typed, RecorderTyped, Parts
<1>21. (log \o w)[Len(log) + 1] = r /\ (more => (log \o w)[Len(log) + 2] = s)
  BY <1>0, <1>1, FirstWritten, SecondWritten
<1>22. Registered(id, Len(log), log \o w)
  <2>1. Registered(id, Len(log), log)
    <3>1. kinds \in Seq(Kinds) /\ \A i \in Nat : Registered(i, Len(log), log) <=> i \in 1..Len(kinds)
      BY DEF IInv, Counted, Typed, RecorderTyped
    <3>2. id \in 1..Len(kinds)
      BY <3>1
    <3> QED BY <1>2, <3>1, <3>2
  <2>2. Len(log) \in 0..Len(log)
    BY <1>0
  <2> QED BY <1>0, <1>1, <2>1, <2>2, RegisteredKept
<1>23. u.part = "task" /\ u.id = id /\ u.given = given
  OBVIOUS
<1>3. Opened(u, Len(log), Len(log) + Len(w), log \o w, kinds)
  <2>1. IF kinds[u.id] \in Reads1 THEN GivenTo(u, kinds[u.id], (log \o w)[Len(log) + 2])
        ELSE u.given = None \/ kinds[u.id] = "file"
    BY <1>21
  <2> HIDE DEF u
  <2> QED BY <2>1, <1>1, <1>21, <1>22, <1>23 DEF Opened
<1>4. refused' => refused \/ \E i \in 1..Len(w) : w[i] = Refusal
  OBVIOUS
<1> QED BY <1>1, <1>2, <1>3, <1>4, TurnKeeps

LEMMA PlatformRecordsInv ==
  ASSUME IInv, PlatformRecords
  PROVE  IInv'
<1>1. /\ log \in Seq(Records) /\ nextTask \in Nat \ {0} /\ kinds \in Seq(Kinds)
      /\ refused \in BOOLEAN /\ live \subseteq DOMAIN kinds
      /\ RecorderTyped
  BY DEF IInv, Typed, SessionTyped, RecorderTyped
<1>2. Recording
  BY DEF PlatformRecords, RunTimer, RunObserver, PlatformEvent, SettlePlain, SettleOutcomes,
         TellOutcome, Evaluate, SettleImport, ReplaceFonts, EndTurn, StopRecording, PlatformActs,
         TurnOver, Stop
<1>3. <<>> \in Seq(Records) /\ Len(<<>>) = 0
  OBVIOUS
<1>4. None \in Answers /\ Values \subseteq Answers /\ "shape" \in Answers /\ "theirs" \in Answers
  BY DEF Answers
<1>5. \A id \in DOMAIN kinds : id \in Nat /\ kinds[id] \in Kinds
  BY <1>1
<1>6. \A id \in DOMAIN kinds, q \in Queries, v \in Answers :
        /\ Task(id, q) \in Records /\ Task(id, q).rec = "Task"
        /\ PlatformValue(id, q, v) \in Records /\ PlatformValue(id, q, v).rec = "PlatformValue"
        /\ Clock(q, v) \in Records /\ Clock(q, v).rec = "Clock"
  BY <1>5, RecordsWritten
<1>7. Kinds \subseteq Queries /\ {"platform", "callback"} \subseteq Queries
  BY DEF Queries
<1>8. CASE RunTimer
  <2>1. PICK id \in live, v \in Values :
          /\ kinds[id] \in Timers
          /\ live' = IF kinds[id] \in Repeats THEN live ELSE live \ {id}
          /\ Begins(id, "task", IF kinds[id] = "frame" THEN v ELSE None,
                    <<Task(id, kinds[id])>> \o Framed(id, v), 0)
    BY <1>8 DEF RunTimer
  <2> DEFINE r == Task(id, kinds[id])
             s == Clock("frame", v)
             w == IF kinds[id] = "frame" THEN <<r, s>> ELSE <<r>>
             given == IF kinds[id] = "frame" THEN v ELSE None
  <2>2. id \in DOMAIN kinds /\ v \in Answers /\ given \in Answers
    BY <1>1, <1>4
  <2>3. "frame" \in Queries
    BY DEF Queries, Kinds, Timers
  <2>4. r \in Records /\ r.rec # "End" /\ s \in Records /\ s.rec # "End"
    BY <1>5, <1>6, <1>7, <2>2, <2>3
  <2>41. /\ s.rec \notin {"End", "TaskReg"} /\ r = Task(id, TaskKind(kinds[id]))
         /\ IF kinds[id] = "frame"
            THEN GivenTo([id |-> id, part |-> "task", given |-> given, ops |-> <<>>], kinds[id], s)
            ELSE given = None \/ kinds[id] = "file"
    BY <2>1 DEF TaskKind, GivenTo, Clock, Rec
  <2>5. kinds[id] = "frame" <=> kinds[id] \in Reads1
    BY <2>1 DEF Timers, Reads1, Outcomes
  <2>6. <<r>> \o Framed(id, v) = w
    <3>1. <<r>> \in Seq(Records) /\ <<s>> \in Seq(Records)
      BY <2>4
    <3>2. <<r>> \o <<>> = <<r>>
      BY <3>1, ConcatEmptySeq
    <3>3. <<r>> \o <<s>> = <<r, s>>
      BY <2>4, TwoWritten
    <3> QED BY <3>2, <3>3 DEF Framed
  <2>7. Begins(id, "task", given, w, 0)
    BY <2>1, <2>6
  <2>8. UNCHANGED <<page, kinds, settled, fonts, handed, refused, userContent, replayer>>
    BY <1>8 DEF RunTimer
  <2>9. RecorderTyped'
    BY <1>1, <2>1, <2>8 DEF RecorderTyped
  <2>10. (kinds[id] = "frame") \in BOOLEAN
    OBVIOUS
  <2> HIDE DEF r, s, given
  <2> QED BY <1>2, <2>2, <2>4, <2>41, <2>5, <2>7, <2>8, <2>9, <2>10, TaskKeeps
<1>9. CASE RunObserver
  <2>1. PICK id \in live, v \in Values :
          /\ kinds[id] = "observer"
          /\ Begins(id, "task", v, <<Task(id, "observer"), patchObservers(id, v)>>, 0)
    BY <1>9 DEF RunObserver
  <2> DEFINE r == Task(id, "observer")
             s == patchObservers(id, v)
             w == IF TRUE THEN <<r, s>> ELSE <<r>>
  <2>2. id \in DOMAIN kinds /\ v \in Answers
    BY <1>1, <1>4
  <2>3. "observer" \in Queries
    BY DEF Queries, Kinds
  <2>4. r \in Records /\ r.rec # "End" /\ s \in Records /\ s.rec # "End"
    BY <1>6, <1>7, <2>2, <2>3 DEF patchObservers
  <2>41. /\ s.rec \notin {"End", "TaskReg"} /\ r = Task(id, TaskKind(kinds[id]))
         /\ GivenTo([id |-> id, part |-> "task", given |-> v, ops |-> <<>>], kinds[id], s)
    BY <2>1 DEF TaskKind, GivenTo, patchObservers, PlatformValue, Rec
  <2>5. TRUE <=> kinds[id] \in Reads1
    BY <2>1 DEF Reads1
  <2>6. UNCHANGED <<recorder, replayer>>
    BY <1>9 DEF RunObserver
  <2>7. RecorderTyped' /\ UNCHANGED <<replayer, kinds, handed, refused>>
    BY <1>1, <2>6 DEF RecorderTyped, recorder
  <2>8. Begins(id, "task", v, w, 0)
    BY <2>1
  <2> HIDE DEF r, s
  <2> QED BY <1>2, <2>2, <2>4, <2>41, <2>5, <2>7, <2>8, TaskKeeps
<1>10. CASE PlatformEvent
  <2> DEFINE w == refuseOnce
  <2>1. /\ w \in Seq(Records)
        /\ \A i \in 1..Len(w) : w[i].rec # "End" /\ w[i] = Refusal
        /\ (Len(w) = 0 /\ refused) \/ Len(w) = 1
    BY <1>2, RefusalWritten
  <2>2. Begins(0, "event", None, w, 0) /\ refused' = TRUE
        /\ UNCHANGED <<page, kinds, live, settled, fonts, handed, userContent, replayer>>
    BY <1>10 DEF PlatformEvent
  <2> HIDE DEF w
  <2>3. RecorderTyped' /\ UNCHANGED <<replayer, kinds, handed>>
    BY <1>1, <2>2 DEF RecorderTyped
  <2>4. Len(log) \in Nat /\ "event" \in Parts
    BY <1>1, LenProperties DEF Parts
  <2>5. Opened([id |-> 0, part |-> "event", given |-> None, ops |-> <<>>],
               Len(log), Len(log) + Len(w), log \o w, kinds)
    <3>1. CASE Len(w) = 1
      <4>1. (log \o w)[Len(log) + 1] = w[1] /\ w[1] = Refusal
        BY <1>1, <2>1, <3>1, FirstWritten
      <4> QED BY <3>1, <4>1 DEF Opened
    <3>2. CASE Len(w) = 0 /\ refused
      <4>1. \E i \in 1..Len(log) : log[i] = Refusal
        BY <1>2, <3>2 DEF IInv, LogWhole, Told, Recording
      <4>2. Len(log) + Len(w) = Len(log) /\ \A i \in 1..Len(log) : (log \o w)[i] = log[i]
        BY <1>1, <2>1, <2>4, <3>2, LogGrows
      <4> QED BY <4>1, <4>2 DEF Opened
    <3> QED BY <2>1, <3>1, <3>2
  <2>6. refused' => refused \/ \E i \in 1..Len(w) : w[i] = Refusal
    BY <2>1
  <2>7. \A i \in 1..Len(w) : w[i].rec \notin {"End", "TaskReg"}
    BY <2>1 DEF Refusal, Rec
  <2> QED BY <1>2, <1>4, <2>1, <2>2, <2>3, <2>4, <2>5, <2>6, <2>7, TurnKeeps
(* A task whose handler reads nothing. *)
<1>11. ASSUME NEW id \in live, NEW given \in Answers, kinds[id] \in Plain \cup {"import"},
              given = None \/ kinds[id] = "file",
              live' = live \ {id}, Begins(id, "task", given, settledTask(id), 0),
              UNCHANGED <<page, kinds, settled, fonts, handed, refused, userContent, replayer>>
       PROVE  IInv'
  <2> DEFINE r == Task(id, "platform")
             w == IF FALSE THEN <<r, r>> ELSE <<r>>
  <2>1. id \in DOMAIN kinds
    BY <1>1
  <2>2. r \in Records /\ r.rec # "End"
    BY <1>4, <1>6, <1>7, <2>1
  <2>3. /\ FALSE <=> kinds[id] \in Reads1
        /\ r.rec \notin {"End", "TaskReg"} /\ r = Task(id, TaskKind(kinds[id]))
    BY <1>11 DEF Reads1, Plain, Outcomes, TaskKind, Timers, Task, Rec
  <2>4. RecorderTyped' /\ UNCHANGED <<replayer, kinds, handed, refused>>
    BY <1>1, <1>11 DEF RecorderTyped
  <2>5. Begins(id, "task", given, w, 0)
    BY <1>11 DEF settledTask
  <2> HIDE DEF r
  <2> QED BY <1>2, <1>11, <2>1, <2>2, <2>3, <2>4, <2>5, TaskKeeps
<1>12. CASE SettlePlain
  BY <1>4, <1>11, <1>12 DEF SettlePlain
<1>13. CASE SettleImport
  BY <1>4, <1>11, <1>13 DEF SettleImport
<1>14. CASE TellOutcome
  <2>1. settled # <<>> /\ settled' = Tail(settled)
        /\ UNCHANGED <<page, kinds, live, fonts, handed, refused, userContent, replayer>>
    BY <1>14 DEF TellOutcome
  <2> DEFINE id == settled[1]
  <2>2. /\ id \in DOMAIN kinds /\ kinds[id] \in Outcomes \cup {"bitmap"}
        /\ Head(settled) = id
    BY <1>1, <2>1 DEF RecorderTyped
  <2>3. PICK v \in Values :
          LET bitmap == kinds[Head(settled)] = "bitmap"
              value == IF bitmap THEN "shape" ELSE v
          IN Begins(Head(settled), "task", IF bitmap THEN None ELSE value,
                    ownTask(settled, value), 0)
    BY <1>14 DEF TellOutcome
  <2> DEFINE value == IF kinds[id] = "bitmap" THEN "shape" ELSE v
             given == IF kinds[id] = "bitmap" THEN None ELSE value
             r == Task(id, "platform")
             s == PlatformValue(id, kinds[id], value)
             w == IF TRUE THEN <<r, s>> ELSE <<r>>
  <2>4. value \in Answers /\ given \in Answers
    BY <1>4
  <2>5. r \in Records /\ r.rec # "End" /\ s \in Records /\ s.rec # "End"
    BY <1>4, <1>5, <1>6, <1>7, <2>2, <2>4
  <2>51. /\ s.rec \notin {"End", "TaskReg"} /\ r = Task(id, TaskKind(kinds[id]))
         /\ GivenTo([id |-> id, part |-> "task", given |-> given, ops |-> <<>>], kinds[id], s)
    BY <2>2 DEF TaskKind, Timers, Outcomes, GivenTo, PlatformValue, Rec
  <2>6. TRUE <=> kinds[id] \in Reads1
    BY <2>2 DEF Reads1
  <2>7. Begins(id, "task", given, w, 0)
    BY <2>2, <2>3 DEF ownTask
  <2>8. RecorderTyped' /\ UNCHANGED <<replayer, kinds, handed, refused>>
    <3>1. /\ Tail(settled) \in Seq(Nat)
          /\ \A i \in DOMAIN Tail(settled) :
               i + 1 \in DOMAIN settled /\ Tail(settled)[i] = settled[i + 1]
      BY <1>1, <2>1 DEF RecorderTyped
    <3> QED BY <1>1, <2>1, <3>1 DEF RecorderTyped
  <2> HIDE DEF r, s, given, id
  <2> QED BY <1>2, <2>2, <2>4, <2>5, <2>51, <2>6, <2>7, <2>8, TaskKeeps
<1>15. CASE Evaluate
  <2>1. PICK id \in live : Begins(id, "module", None, <<>>, 0)
    BY <1>15 DEF Evaluate
  <2>2. UNCHANGED <<recorder, replayer>>
    BY <1>15 DEF Evaluate
  <2>3. RecorderTyped' /\ UNCHANGED <<replayer, kinds, handed>> /\ refused' = refused
    BY <1>1, <2>2 DEF RecorderTyped, recorder
  <2>4. id \in Nat /\ "module" \in Parts /\ Len(log) \in Nat
    BY <1>1, <1>5, LenProperties DEF Parts
  <2>5. Opened([id |-> id, part |-> "module", given |-> None, ops |-> <<>>],
               Len(log), Len(log) + Len(<<>>), log \o <<>>, kinds)
    <3>1. Registered(id, Len(log), log) /\ log \o <<>> = log
      BY <1>1, <2>4, ConcatEmptySeq DEF IInv, Counted
    <3> QED BY <1>3, <2>4, <3>1 DEF Opened
  <2>6. \A i \in 1..Len(<<>>) : <<>>[i].rec \notin {"End", "TaskReg"}
    BY <1>3
  <2> QED BY <1>2, <1>3, <1>4, <2>1, <2>3, <2>4, <2>5, <2>6, TurnKeeps
(* The steps the page does not see. *)
<1>16. ASSUME RecorderTyped', kinds' = kinds, refused' = refused, handed' = handed,
              UNCHANGED replayer,
              turn' \in BOOLEAN,
              UNCHANGED <<phase, log, nextTask, script, at, turnNo, opNo, verdict>>
       PROVE  IInv'
  <2>1. /\ phase' = phase /\ log' = log /\ nextTask' = nextTask /\ script' = script
        /\ at' = at /\ turnNo' = turnNo /\ opNo' = opNo /\ verdict' = verdict
        /\ awaited' = awaited /\ rHanded' = rHanded /\ handlers' = handlers
    BY <1>16 DEF replayer
  <2>2. Typed'
    BY <1>16, <2>1 DEF IInv, Typed, SessionTyped, ReplayerTyped
  <2>3. LogWhole' /\ Unreplayed' /\ Passed' /\ NeverPastRefusal' /\ Counted(log', Len(kinds'))
    BY <1>2, <1>16, <2>1 DEF IInv, LogWhole, Unreplayed, Passed, NeverPastRefusal, Told, Recording
  <2>4. PICK p : Keeps(p)
    BY DEF IInv
  <2>5. Keeps(p)'
    BY <1>2, <1>16, <2>1, <2>4 DEF Keeps, Told, Follows, Recording
  <2>6. HandedTold'
    BY <1>16, <2>1 DEF IInv, HandedTold
  <2> QED BY <2>2, <2>3, <2>5, <2>6 DEF IInv
<1>17. CASE EndTurn
  <2>1. RecorderTyped' /\ kinds' = kinds /\ refused' = refused /\ handed' = handed
        /\ UNCHANGED replayer
    BY <1>1, <1>17 DEF EndTurn, RecorderTyped, recorder
  <2> QED BY <1>16, <1>17, <2>1 DEF EndTurn, TurnOver
<1>18. CASE ReplaceFonts
  <2>1. /\ UNCHANGED <<session, page, kinds, live, settled, handed, refused, userContent, replayer>>
        /\ fonts' = fonts + 1 /\ fonts < MaxFonts
    BY <1>18 DEF ReplaceFonts
  <2>2. fonts' \in 1..MaxFonts
    BY <1>1, <2>1, FontsAssumption DEF RecorderTyped
  <2>3. RecorderTyped'
    BY <1>1, <2>1, <2>2 DEF RecorderTyped
  <2>4. turn' \in BOOLEAN
    BY <2>1 DEF session, IInv, Typed, SessionTyped
  <2> QED BY <1>16, <2>1, <2>3, <2>4 DEF session
<1>19. CASE SettleOutcomes
  <2>1. PICK S \in SUBSET {id \in live : kinds[id] \in Outcomes \cup {"bitmap"}} :
          /\ live' = live \ S
          /\ \E order \in [1..Cardinality(S) -> S] : settled' = settled \o order
    BY <1>19 DEF SettleOutcomes
  <2>2. PICK order \in [1..Cardinality(S) -> S] : settled' = settled \o order
    BY <2>1
  <2>3. UNCHANGED <<session, page, kinds, fonts, handed, refused, userContent, replayer>>
    BY <1>19 DEF SettleOutcomes
  <2>4. Cardinality(S) \in Nat
    <3>1. IsFiniteSet(DOMAIN kinds)
      BY <1>1, FS_Interval, LenProperties
    <3>2. S \subseteq DOMAIN kinds
      BY <1>1, <2>1
    <3> QED BY <3>1, <3>2, FS_Subset, FS_CardinalityType
  <2>5. order \in Seq(Nat) /\ \A i \in DOMAIN order : order[i] \in S
    <3>1. \A i \in 1..Cardinality(S) : order[i] \in S
      OBVIOUS
    <3>2. S \subseteq Nat
      BY <1>1, <1>5
    <3>3. order \in [1..Cardinality(S) -> Nat]
      BY <3>2
    <3> QED BY <2>4, <3>1, <3>3
  <2>6. /\ settled' \in Seq(Nat)
        /\ \A i \in DOMAIN settled' : settled'[i] \in DOMAIN kinds
                                      /\ kinds[settled'[i]] \in Outcomes \cup {"bitmap"}
    <3>1. /\ settled \in Seq(Nat)
          /\ \A i \in DOMAIN settled : settled[i] \in DOMAIN kinds
                                       /\ kinds[settled[i]] \in Outcomes \cup {"bitmap"}
      BY <1>1 DEF RecorderTyped
    <3>2. \A i \in DOMAIN order : order[i] \in DOMAIN kinds
                                  /\ kinds[order[i]] \in Outcomes \cup {"bitmap"}
      BY <1>1, <2>1, <2>5
    <3>3. /\ settled' \in Seq(Nat)
          /\ \A i \in DOMAIN settled' :
               \/ i \in DOMAIN settled /\ settled'[i] = settled[i]
               \/ i - Len(settled) \in DOMAIN order /\ settled'[i] = order[i - Len(settled)]
      <4>1. settled' \in Seq(Nat) /\ Len(settled') = Len(settled) + Len(order)
        BY <2>2, <2>5, <3>1, ConcatProperties
      <4>2. Len(settled) \in Nat /\ Len(order) \in Nat /\ DOMAIN order = 1..Len(order)
            /\ DOMAIN settled = 1..Len(settled) /\ DOMAIN settled' = 1..Len(settled')
        BY <2>5, <3>1, <4>1, LenProperties
      <4>3. \A i \in 1..Len(settled) + Len(order) :
              settled'[i] = IF i <= Len(settled) THEN settled[i] ELSE order[i - Len(settled)]
        BY <2>2, <2>5, <3>1, ConcatProperties
      <4> QED BY <4>1, <4>2, <4>3
    <3> QED BY <3>1, <3>2, <3>3
  <2>7. RecorderTyped'
    BY <1>1, <2>1, <2>3, <2>6 DEF RecorderTyped
  <2>8. turn' \in BOOLEAN
    BY <2>3 DEF session, IInv, Typed, SessionTyped
  <2> QED BY <1>16, <2>3, <2>7, <2>8 DEF session
<1>20. CASE StopRecording
  <2>1. /\ phase' = "replay" /\ log' = log \o <<End>> /\ nextTask' = 1 /\ turn' = TRUE
        /\ script' = script /\ at' = at /\ turnNo' = turnNo /\ opNo' = opNo
        /\ verdict' = verdict /\ kinds' = kinds /\ refused' = refused
        /\ rHanded' = rHanded /\ awaited' = awaited /\ handlers' = handlers
    BY <1>1, <1>20 DEF StopRecording, Stop, recorder, replayer
  <2>2. RecorderTyped'
    BY <1>1, <1>20 DEF StopRecording, RecorderTyped, recorder
  <2>3. End \in Records /\ End.rec = "End"
    BY DEF End, Rec, None, Records, Labels, Queries, Answers
  <2>4. /\ <<End>> \in Seq(Records) /\ Len(<<End>>) = 1 /\ <<End>>[1] = End
    BY <2>3
  <2>5. /\ log' \in Seq(Records) /\ Len(log') = Len(log) + 1 /\ Len(log) \in Nat
        /\ \A i \in 1..Len(log) : log'[i] = log[i]
        /\ log'[Len(log) + 1] = End
    BY <1>1, <2>1, <2>4, LogGrows, LenProperties, FirstWritten
  <2>6. phase = "record" /\ Told = Len(log) /\ Told' = Len(log)
    BY <1>2, <2>1, <2>5 DEF Recording, Told
  <2>7. Typed'
    BY <2>1, <2>2, <2>5 DEF IInv, Typed, SessionTyped, ReplayerTyped
  <2>8. LogWhole'
    BY <2>1, <2>5, <2>6 DEF IInv, LogWhole
  <2>9. at = 1 /\ turnNo = 1 /\ opNo = 0 /\ verdict = "running" /\ awaited = 0
    BY <2>6 DEF IInv, Unreplayed
  <2>10. Unreplayed' /\ Passed' /\ NeverPastRefusal'
    <3>1. Unreplayed'
      BY <2>1 DEF Unreplayed
    <3>2. Passed'
      BY <2>1, <2>5, <2>9 DEF Passed
    <3>3. at' = 1 /\ turnNo' = 1 /\ opNo' = 0 /\ verdict' = "running"
      BY <2>1, <2>9
    <3>4. ASSUME NEW i \in DOMAIN script', NEW j \in DOMAIN script'[i].ops
          PROVE  ~(i < 1 \/ (i = 1 /\ j <= 0))
      <4>1. script' \in Seq(Turns)
        BY <2>1 DEF IInv, Typed, SessionTyped
      <4>2. i \in 1..Len(script') /\ script'[i].ops \in Seq(Steps)
        <5>1. i \in 1..Len(script') /\ script'[i] \in Turns
          BY <4>1
        <5> QED BY <5>1 DEF Turns
      <4>3. j \in 1..Len(script'[i].ops)
        BY <4>2
      <4> QED BY <4>2, <4>3
    <3>5. NeverPastRefusal'
      BY <3>3, <3>4 DEF NeverPastRefusal
    <3> QED BY <3>1, <3>2, <3>5
  <2>11. PICK p : Keeps(p)
    BY DEF IInv
  <2>12. Placed(p, script, log', kinds, Len(log))
    <3>1. Placed(p, script, log, kinds, Len(log)) /\ script \in Seq(Turns)
      BY <2>6, <2>11 DEF Keeps, IInv, Typed, SessionTyped
    <3>2. Len(log) \in 0..Len(log)
      BY <2>5
    <3> QED BY <1>1, <2>1, <2>4, <3>1, <3>2, PlacedLonger
  <2>13. Follows(p)'
    <3>1. script \in Seq(Turns) /\ script # <<>> /\ p[1][0] = 0
      BY <2>12 DEF IInv, Typed, SessionTyped, Placed
    <3>2. 1 \in DOMAIN script /\ Len(script[1].ops) \in Nat
      BY <3>1 DEF Turns
    <3> QED BY <2>1, <2>9, <3>1, <3>2 DEF Follows, Ahead
  <2>14. Keeps(p)'
    BY <2>1, <2>6, <2>12, <2>13 DEF Keeps
  <2>15. Counted(log', Len(kinds'))
    <3>1. \A i \in 1..Len(<<End>>) : <<End>>[i].rec # "TaskReg"
      BY <2>3, <2>4
    <3> QED BY <1>1, <2>1, <2>4, <3>1, LenProperties, CountedOn DEF IInv
  <2>16. HandedTold'
    BY <2>1 DEF HandedTold
  <2> QED BY <2>7, <2>8, <2>10, <2>14, <2>15, <2>16 DEF IInv
<1> QED BY <1>8, <1>9, <1>10, <1>12, <1>13, <1>14, <1>15, <1>17, <1>18, <1>19, <1>20
        DEF PlatformRecords

-----------------------------------------------------------------------------
(* What the replay does keeps the invariant. *)

(* Of what a replay's step leaves alone. *)
Kept == UNCHANGED <<phase, log, script, recorder>>

LEMMA ReplayRests ==
  ASSUME IInv, Replaying, Kept, ReplayerTyped', nextTask' \in Nat \ {0}, turn' \in BOOLEAN,
         verdict' \in Verdicts, Passed', NeverPastRefusal', NEW p, Keeps(p), Follows(p)'
  PROVE  IInv'
<1>1. /\ phase' = phase /\ log' = log /\ script' = script /\ page' = page /\ kinds' = kinds
      /\ live' = live /\ settled' = settled /\ fonts' = fonts /\ handed' = handed
      /\ refused' = refused /\ userContent' = userContent /\ phase = "replay"
  BY DEF Kept, recorder, Replaying
<1>2. Typed'
  BY <1>1 DEF IInv, Typed, SessionTyped, RecorderTyped
<1>3. LogWhole' /\ Unreplayed' /\ HandedTold'
  BY <1>1 DEF IInv, LogWhole, Unreplayed, HandedTold, Told
<1>4. Keeps(p)' /\ Counted(log', Len(kinds'))
  BY <1>1 DEF Keeps, Told, IInv
<1> QED BY <1>2, <1>3, <1>4 DEF IInv

(* The replay ends. *)
LEMMA EndsKeeps ==
  ASSUME IInv, Replaying, Kept, ReplayerTyped', NEW how \in Verdicts \ {"running"}, Ends(how),
         how = "done" => ~refused
  PROVE  IInv'
<1>1. PICK p : Keeps(p)
  BY DEF IInv
<1>2. /\ verdict' = how /\ nextTask' = nextTask /\ turn' = turn /\ at' = at
      /\ turnNo' = turnNo /\ opNo' = opNo /\ phase' = phase /\ log' = log /\ script' = script
      /\ refused' = refused
  BY DEF Ends, Kept, recorder
<1>3. Follows(p)' /\ Passed' /\ NeverPastRefusal'
  BY <1>2 DEF Follows, IInv, Passed, NeverPastRefusal
<1>4. nextTask' \in Nat \ {0} /\ turn' \in BOOLEAN /\ verdict' \in Verdicts
  BY <1>2 DEF IInv, Typed, SessionTyped
<1> QED BY <1>1, <1>3, <1>4, ReplayRests

(* Where the log ends or was never refused, none of its records refuses.   *)
LEMMA DoneAtEnd ==
  ASSUME IInv, Replaying, at \in Nat, NEW i \in Nat, i >= at, i <= Len(log), log[i].rec = "End",
         \A k \in at..i - 1 : log[k].rec # "Refusal"
  PROVE  ~refused
<1>1. /\ phase = "replay" /\ Told = Len(log) - 1 /\ Len(log) \in Nat \ {0}
      /\ \A k \in 1..Told : log[k].rec # "End"
      /\ refused => \E k \in 1..Told : log[k] = Refusal
      /\ \A k \in 1..at - 1 : log[k].rec # "Refusal"
      /\ at \in 1..Len(log)
  BY DEF IInv, LogWhole, Passed, Replaying, Told
<1>2. i = Len(log)
  BY <1>1
<1>3. \A k \in 1..Told : k \in 1..at - 1 \/ k \in at..i - 1
  BY <1>1, <1>2
<1>4. Refusal.rec = "Refusal"
  BY DEF Refusal, Rec
<1> QED BY <1>1, <1>3, <1>4

(* The replay stands at the place of the page's next step.                 *)
LEMMA Standing ==
  ASSUME IInv, Replaying, NEW p, Keeps(p)
  PROVE  /\ turnNo \in 1..Len(script) /\ turnNo \in DOMAIN script /\ Len(script) \in Nat
         /\ script[turnNo] \in Turns /\ Len(script[turnNo].ops) \in Nat
         /\ opNo \in 0..Len(script[turnNo].ops)
         /\ p[turnNo][opNo] \in Nat /\ at = p[turnNo][opNo] + 1 + Ahead
         /\ at \in 1..Len(log) /\ Len(log) \in Nat /\ log[Len(log)] = End
         /\ awaited # 0 => log[p[turnNo][opNo] + 1].rec = "Task"
         /\ ~turn => opNo = Len(script[turnNo].ops)
         /\ phase = "replay" /\ verdict = "running"
<1>1. phase = "replay" /\ verdict = "running"
  BY DEF Replaying
<1>2. script \in Seq(Turns)
  BY DEF IInv, Typed, SessionTyped
<1>3. /\ turnNo \in DOMAIN script /\ opNo \in 0..Len(script[turnNo].ops)
      /\ ~turn => opNo = Len(script[turnNo].ops)
      /\ at = p[turnNo][opNo] + 1 + Ahead
      /\ awaited # 0 => log[p[turnNo][opNo] + 1].rec = "Task"
  BY <1>1 DEF Keeps, Follows
<1>4. turnNo \in 1..Len(script) /\ Len(script) \in Nat /\ script[turnNo] \in Turns
  BY <1>2, <1>3
<1>5. Len(script[turnNo].ops) \in Nat
  BY <1>4 DEF Turns
<1>6. p[turnNo] \in [0..Len(script[turnNo].ops) -> 0..Told]
  BY <1>3 DEF Keeps, Placed, Places
<1>7. p[turnNo][opNo] \in 0..Told
  BY <1>3, <1>6
<1>8. at \in 1..Len(log) /\ Len(log) \in Nat /\ log[Len(log)] = End /\ Told \in Nat
  BY <1>1 DEF IInv, Passed, LogWhole, Told
<1> QED BY <1>1, <1>3, <1>4, <1>5, <1>7, <1>8

LEMMA NextStep ==
  ASSUME IInv, Replaying, HasOp, NEW p, Keeps(p)
  PROVE  /\ p[turnNo][opNo + 1] \in Nat
         /\ Wrote(ThisOp, p[turnNo][opNo], p[turnNo][opNo + 1], log, kinds)
         /\ opNo + 1 \in 1..Len(script[turnNo].ops)
         /\ ThisOp \in Steps /\ ThisOp = script[turnNo].ops[opNo + 1]
<1>1. /\ turnNo \in DOMAIN script /\ script[turnNo] \in Turns /\ opNo \in Nat
      /\ Len(script[turnNo].ops) \in Nat /\ phase = "replay"
  BY Standing
<1>2. opNo + 1 \in 1..Len(script[turnNo].ops) /\ opNo + 1 \in 0..Len(script[turnNo].ops)
      /\ (opNo + 1) - 1 = opNo
  BY <1>1 DEF HasOp, ThisTurn
<1>3. p[turnNo] \in [0..Len(script[turnNo].ops) -> 0..Told]
  BY <1>1 DEF Keeps, Placed, Places
<1>4. p[turnNo][opNo + 1] \in 0..Told
  BY <1>2, <1>3
<1>5. Wrote(script[turnNo].ops[opNo + 1], p[turnNo][(opNo + 1) - 1], p[turnNo][opNo + 1], log, kinds)
  BY <1>1, <1>2 DEF Keeps, Placed
<1>6. ThisOp = script[turnNo].ops[opNo + 1]
  BY DEF ThisOp, ThisTurn
<1>7. script[turnNo].ops \in Seq(Steps)
  BY <1>1 DEF Turns
<1>8. ThisOp \in Steps
  BY <1>2, <1>6, <1>7
<1> QED BY <1>2, <1>4, <1>5, <1>6, <1>8

(* The page makes its next step, of as many records as it wrote.           *)
LEMMA ReplaysKeeps ==
  ASSUME IInv, Replaying, HasOp, Kept, ReplayerTyped', NEW p, Keeps(p),
         NEW asked, NEW saw, NEW ids \in Nat, Replays(asked, saw, ids), awaited' = awaited,
         ThisOp.op[1] # "refused", Len(asked) \in Nat, at + Len(asked) <= Len(log),
         \A i \in at..at + Len(asked) - 1 : log[i].rec # "Refusal",
         p[turnNo][opNo + 1] = p[turnNo][opNo] + Len(asked), awaited = 0 \/ Len(asked) = 0,
         turn
  PROVE  IInv'
<1>1. /\ at' = at + Len(asked) /\ nextTask' = nextTask + ids /\ opNo' = opNo + 1
      /\ verdict' \in {verdict, "astray"} /\ turn' = turn /\ turnNo' = turnNo
      /\ phase' = phase /\ log' = log /\ script' = script /\ refused' = refused
  BY DEF Replays, Kept, recorder
<1>2. /\ turnNo \in DOMAIN script /\ opNo \in Nat /\ turnNo \in Nat /\ at \in 1..Len(log)
      /\ Len(log) \in Nat /\ at = p[turnNo][opNo] + 1 + Ahead /\ p[turnNo][opNo] \in Nat
      /\ awaited # 0 => log[p[turnNo][opNo] + 1].rec = "Task"
      /\ phase = "replay" /\ verdict = "running" /\ Len(script[turnNo].ops) \in Nat
  BY Standing
<1>3. opNo + 1 \in 1..Len(script[turnNo].ops) /\ ThisOp = script[turnNo].ops[opNo + 1]
  BY NextStep
<1>8. at \in Nat \ {0} /\ Len(log) \in Nat /\ Len(asked) \in Nat
  <2>1. \A m \in Nat : 1..m \subseteq Nat \ {0}
    OBVIOUS
  <2> QED BY <1>2, <2>1, Zenon
<1>4. Follows(p)'
  <2>1. Ahead' = Ahead
    BY DEF Ahead
  <2>2. at' = p[turnNo][opNo + 1] + 1 + Ahead
    <3> DEFINE a == p[turnNo][opNo]
               b == p[turnNo][opNo + 1]
               n == Len(asked)
               h == Ahead
    <3>1. at' = at + n /\ at = a + 1 + h /\ b = a + n /\ a \in Nat /\ n \in Nat
      BY <1>1, <1>2
    <3>2. h \in Nat
      BY DEF Ahead
    <3> HIDE DEF a, b, n, h
    <3>3. at' = b + 1 + h
      BY <3>1, <3>2
    <3> QED BY <3>3 DEF b, h
  <2>3. awaited # 0 => log[p[turnNo][opNo + 1] + 1].rec = "Task"
    BY <1>2, SMTT(60)
  <2>4. opNo + 1 \in 0..Len(script[turnNo].ops) /\ turn' = TRUE
    BY <1>1, <1>3 DEF IInv, Typed, SessionTyped
  <2> QED BY <1>1, <1>2, <2>1, <2>2, <2>3, <2>4 DEF Follows
<1>5. Passed'
  <2>1. \A i \in 1..at' - 1 : i \in 1..at - 1 \/ i \in at..at + Len(asked) - 1
    BY <1>1, <1>8
  <2>2. \A i \in 1..at - 1 : log[i].rec # "Refusal"
    BY <1>2 DEF IInv, Passed
  <2>3. at' \in 1..Len(log)
    BY <1>1, <1>8
  <2>4. turnNo' \in Nat /\ opNo' \in Nat
    BY <1>1, <1>2
  <2>5. \A i \in 1..at' - 1 : log[i].rec # "Refusal"
    BY <2>1, <2>2
  <2>6. log' = log
    BY <1>1
  <2> QED BY <2>3, <2>4, <2>5, <2>6 DEF Passed
<1>6. NeverPastRefusal'
  <2>1. verdict' # "done"
    BY <1>1, <1>2
  <2>2. ASSUME NEW i \in DOMAIN script, NEW j \in DOMAIN script[i].ops,
               i < turnNo \/ (i = turnNo /\ j <= opNo + 1)
        PROVE  script[i].ops[j].op[1] # "refused"
    <3>1. i < turnNo \/ (i = turnNo /\ j <= opNo) => script[i].ops[j].op[1] # "refused"
      BY <1>2 DEF IInv, NeverPastRefusal
    <3>2. i = turnNo /\ j = opNo + 1 => script[i].ops[j].op[1] # "refused"
      BY <1>3
    <3>3. j \in Nat
      <4>1. script[i] \in Turns
        BY DEF IInv, Typed, SessionTyped
      <4>2. script[i].ops \in Seq(Steps)
        BY <4>1 DEF Turns
      <4> QED BY <4>2
    <3> QED BY <1>2, <2>2, <3>1, <3>2, <3>3
  <2> QED BY <1>1, <1>2, <2>1, <2>2 DEF NeverPastRefusal
<1>7. nextTask' \in Nat \ {0} /\ turn' \in BOOLEAN /\ verdict' \in Verdicts
  BY <1>1 DEF IInv, Typed, SessionTyped, Verdicts
<1> QED BY <1>4, <1>5, <1>6, <1>7, ReplayRests

(* The page's next turn begins. *)
LEMMA BeginsKeeps ==
  ASSUME IInv, Replaying, ~turn, Kept, ReplayerTyped', NEW id, NEW part, NEW given,
         NEW taken \in Nat, BeginsAgain(id, part, given, taken, 0),
         at + taken <= Len(log),
         \A i \in at..at + taken - 1 : log[i].rec # "Refusal",
         \/ part = "module" /\ taken = 0 /\ awaited' = awaited
         \/ part = "task" /\ awaited' = 0 /\ taken + Ahead = Opening(id, kinds)
  PROVE  IInv'
<1>0. PICK p : Keeps(p)
  BY DEF IInv
<1>1. /\ at' = at + taken /\ nextTask' = nextTask + 0 /\ opNo' = 0 /\ turn' = TRUE
      /\ verdict' \in {verdict, "astray"} /\ turnNo' = turnNo + 1
      /\ phase' = phase /\ log' = log /\ script' = script /\ refused' = refused
      /\ kinds' = kinds
  BY DEF BeginsAgain, Kept, recorder
<1>2. /\ turnNo \in 1..Len(script) /\ Len(script) \in Nat /\ at \in 1..Len(log)
      /\ Len(log) \in Nat /\ at = p[turnNo][opNo] + 1 + Ahead /\ p[turnNo][opNo] \in Nat
      /\ awaited # 0 => log[p[turnNo][opNo] + 1].rec = "Task"
      /\ phase = "replay" /\ verdict = "running" /\ Len(script[turnNo].ops) \in Nat
      /\ opNo = Len(script[turnNo].ops)
  BY <1>0, Standing
<1>3. script \in Seq(Turns) /\ DOMAIN script = 1..Len(script)
  BY DEF IInv, Typed, SessionTyped
<1>4. verdict' = "running" =>
        /\ turnNo + 1 \in DOMAIN script /\ turnNo \in 1..Len(script) - 1
        /\ script[turnNo + 1].id = id /\ script[turnNo + 1].part = part
  <2>1. verdict' = "running" =>
          /\ turnNo < Len(script)
          /\ script[turnNo + 1] = [Turn(id, part, given) EXCEPT
                                     !.ops = script[turnNo + 1].ops]
    BY DEF BeginsAgain
  <2> QED BY <1>2, <1>3, <2>1, SMTT(60) DEF Turn
<1>9. at \in Nat \ {0} /\ Len(log) \in Nat /\ taken \in Nat
  <2>1. \A m \in Nat : 1..m \subseteq Nat \ {0}
    OBVIOUS
  <2> QED BY <1>2, <2>1, Zenon
<1>5. Follows(p)'
  <2> SUFFICES ASSUME verdict' = "running"
               PROVE  /\ turnNo + 1 \in DOMAIN script
                      /\ 0 \in 0..Len(script[turnNo + 1].ops)
                      /\ at' = p[turnNo + 1][0] + 1 + Ahead'
                      /\ awaited' # 0 => log[p[turnNo + 1][0] + 1].rec = "Task"
    BY <1>1 DEF Follows
  <2>1. /\ turnNo + 1 \in DOMAIN script /\ turnNo \in 1..Len(script) - 1
        /\ script[turnNo + 1].id = id /\ script[turnNo + 1].part = part
    BY <1>4
  <2>2. Opened(script[turnNo + 1], p[turnNo][opNo], p[turnNo + 1][0], log, kinds)
    BY <1>0, <1>2, <2>1 DEF Keeps, Placed
  <2>3. Len(script[turnNo + 1].ops) \in Nat
    <3>1. script[turnNo + 1] \in Turns
      BY <1>3, <2>1
    <3> QED BY <3>1 DEF Turns
  <2>4. CASE part = "module" /\ taken = 0 /\ awaited' = awaited
    <3>1. p[turnNo + 1][0] = p[turnNo][opNo]
      BY <2>1, <2>2, <2>4 DEF Opened
    <3>2. at' = p[turnNo + 1][0] + 1 + Ahead /\ Ahead' = Ahead
      BY <1>1, <1>2, <2>4, <3>1 DEF Ahead
    <3> QED BY <1>2, <2>1, <2>3, <2>4, <3>1, <3>2
  <2>5. CASE part = "task" /\ awaited' = 0 /\ taken + Ahead = Opening(id, kinds)
    <3>1. p[turnNo + 1][0] = p[turnNo][opNo] + Opening(id, kinds)
      BY <2>1, <2>2, <2>5 DEF Opened
    <3>2. Opening(id, kinds) \in Nat /\ Ahead \in Nat /\ Ahead' = 0
      BY <2>5 DEF Opening, Ahead
    <3>3. at' = p[turnNo + 1][0] + 1
      <4> DEFINE a == p[turnNo][opNo]
                 o == Opening(id, kinds)
                 h == Ahead
      <4>1. at' = at + taken /\ at = a + 1 + h /\ a \in Nat /\ o \in Nat /\ h \in Nat
            /\ taken + h = o /\ p[turnNo + 1][0] = a + o /\ taken \in Nat
        BY <1>1, <1>2, <2>5, <3>1, <3>2
      <4> HIDE DEF a, o, h
      <4> QED BY <4>1
    <3> QED BY <2>1, <2>3, <2>5, <3>1, <3>2, <3>3, <1>2
  <2> QED BY <2>4, <2>5
<1>6. Passed'
  <2>1. \A i \in 1..at' - 1 : i \in 1..at - 1 \/ i \in at..at + taken - 1
    BY <1>1, <1>9
  <2>2. \A i \in 1..at - 1 : log[i].rec # "Refusal"
    BY <1>2 DEF IInv, Passed
  <2>3. at' \in 1..Len(log)
    BY <1>1, <1>9
  <2>4. turnNo' \in Nat /\ opNo' \in Nat
    BY <1>1, <1>2
  <2>5. \A i \in 1..at' - 1 : log[i].rec # "Refusal"
    BY <2>1, <2>2
  <2>6. log' = log
    BY <1>1
  <2> QED BY <2>3, <2>4, <2>5, <2>6 DEF Passed
<1>7. NeverPastRefusal'
  <2>1. verdict' # "done"
    BY <1>1, <1>2
  <2>2. ASSUME NEW i \in DOMAIN script, NEW j \in DOMAIN script[i].ops,
               i < turnNo + 1 \/ (i = turnNo + 1 /\ j <= 0)
        PROVE  script[i].ops[j].op[1] # "refused"
    <3>1. i < turnNo \/ (i = turnNo /\ j <= opNo) => script[i].ops[j].op[1] # "refused"
      BY <1>2 DEF IInv, NeverPastRefusal
    <3>2. script[i].ops \in Seq(Steps)
      <4>1. script[i] \in Turns
        BY <1>3
      <4> QED BY <4>1 DEF Turns
    <3>3. j \in 1..Len(script[i].ops) /\ i \in Nat
      BY <1>3, <3>2
    <3> QED BY <1>2, <2>2, <3>1, <3>3
  <2> QED BY <1>1, <1>2, <2>1, <2>2 DEF NeverPastRefusal
<1>8. nextTask' \in Nat \ {0} /\ turn' \in BOOLEAN /\ verdict' \in Verdicts
  BY <1>1 DEF IInv, Typed, SessionTyped, Verdicts
<1> QED BY <1>0, <1>5, <1>6, <1>7, <1>8, ReplayRests

LEMMA CheckedRecords ==
  ASSUME NEW a \in Records, NEW b \in Records, Checked(a) = Checked(b)
  PROVE  a.rec = b.rec
<1>1. Checked(a).rec = a.rec /\ Checked(b).rec = b.rec
  BY DEF Checked, Records
<1> QED BY <1>1

(* What a seam may ask the log for. *)
Asked == {s \in Seq(Records) : /\ Len(s) \in {1, 2}
                               /\ \A i \in 1..Len(s) : s[i].rec \notin {"End", "Refusal", "Task"}}

LEMMA Matched ==
  ASSUME IInv, Replaying, NEW asked \in Asked, Matches(asked)
  PROVE  /\ at + Len(asked) <= Len(log) /\ log[at].rec = asked[1].rec
         /\ \A i \in at..at + Len(asked) - 1 : log[i].rec # "Refusal"
<1>1. /\ log \in Seq(Records) /\ at \in Nat \ {0} /\ Len(log) \in Nat
  BY LenProperties DEF IInv, Typed, SessionTyped, Passed, Replaying
<1>2. /\ asked \in Seq(Records) /\ Len(asked) \in {1, 2} /\ DOMAIN asked = 1..Len(asked)
      /\ \A i \in 1..Len(asked) : asked[i].rec # "Refusal"
  BY DEF Asked
<1>3. /\ at + Len(asked) <= Len(log)
      /\ \A i \in 1..Len(asked) : Checked(log[at + i - 1]) = Checked(asked[i])
  BY <1>2 DEF Matches
<1>4. ASSUME NEW i \in 1..Len(asked)
      PROVE  log[at + i - 1].rec = asked[i].rec
  <2>1. at + i - 1 \in 1..Len(log)
    BY <1>1, <1>2, <1>3
  <2>2. log[at + i - 1] \in Records /\ asked[i] \in Records
    BY <1>1, <1>2, <2>1
  <2> QED BY <1>3, <2>2, CheckedRecords
<1>5. \A i \in at..at + Len(asked) - 1 :
        i - at + 1 \in 1..Len(asked) /\ at + (i - at + 1) - 1 = i
  BY <1>1, <1>2
<1>6. \A i \in at..at + Len(asked) - 1 : log[i].rec # "Refusal"
  <2> TAKE i \in at..at + Len(asked) - 1
  <2>1. i - at + 1 \in 1..Len(asked) /\ at + (i - at + 1) - 1 = i
    BY <1>5
  <2>2. log[at + (i - at + 1) - 1].rec = asked[i - at + 1].rec
    BY <1>4, <2>1
  <2> QED BY <1>2, <2>1, <2>2
<1>7. 1 \in 1..Len(asked) /\ at + 1 - 1 = at
  BY <1>1, <1>2
<1> QED BY <1>3, <1>4, <1>6, <1>7

LEMMA DivergesKeeps ==
  ASSUME IInv, Replaying, Kept, ReplayerTyped', NEW asked \in Asked, Diverges(asked)
  PROVE  IInv'
<1>1. /\ log \in Seq(Records) /\ at \in 1..Len(log) /\ Len(log) \in Nat
      /\ log[Len(log)] = End
  BY LenProperties DEF IInv, Typed, SessionTyped, Passed, LogWhole, Replaying
<1>2. /\ asked \in Seq(Records) /\ (Len(asked) = 1 \/ Len(asked) = 2)
      /\ DOMAIN asked = 1..Len(asked)
      /\ \A i \in 1..Len(asked) : asked[i].rec \notin {"End", "Refusal"}
  BY DEF Asked
<1> DEFINE Met(j) == Checked(log[at + j - 1]) = Checked(asked[j])
           First(j) == ~Met(j) /\ \A k \in 1..(j - 1) : Met(k)
<1>3. ASSUME NEW j \in 1..Len(asked), at + j - 1 <= Len(log), Met(j)
      PROVE  at + j <= Len(log) /\ log[at + j - 1].rec = asked[j].rec
  <2>1. at + j - 1 \in 1..Len(log)
    BY <1>1, <1>3
  <2>2. log[at + j - 1] \in Records /\ asked[j] \in Records
    BY <1>1, <1>2, <2>1
  <2>3. log[at + j - 1].rec = asked[j].rec
    BY <1>3, <2>2, CheckedRecords
  <2>4. End.rec = "End"
    BY DEF End, Rec
  <2>5. at + j - 1 # Len(log)
    BY <1>1, <1>2, <2>3, <2>4
  <2> QED BY <1>1, <2>1, <2>3, <2>5
<1>4. ~Matches(asked)
  BY DEF Diverges
<1>5. \E j \in DOMAIN asked : First(j)
  <2>1. 1 \in DOMAIN asked /\ at + 1 - 1 <= Len(log)
    BY <1>1, <1>2
  <2>2. CASE ~Met(1)
    <3>1. First(1)
      BY <2>2
    <3> QED BY <2>1, <3>1
  <2>3. CASE Met(1)
    <3>1. at + 1 <= Len(log)
      BY <1>2, <1>3, <2>1, <2>3
    <3>2. CASE Len(asked) = 1
      <4>1. \A i \in DOMAIN asked : Met(i)
        BY <1>2, <2>3, <3>2
      <4> QED BY <1>4, <3>1, <3>2, <4>1 DEF Matches
    <3>3. CASE Len(asked) = 2
      <4>1. ~Met(2)
        <5> SUFFICES ASSUME Met(2) PROVE FALSE
          OBVIOUS
        <5>1. 2 \in 1..Len(asked) /\ at + 2 - 1 <= Len(log)
          BY <1>1, <3>1, <3>3
        <5>2. at + 2 <= Len(log)
          BY <1>3, <5>1
        <5>3. \A i \in DOMAIN asked : i = 1 \/ i = 2
          BY <1>2, <3>3
        <5>4. \A i \in DOMAIN asked : Met(i)
          BY <2>3, <5>3
        <5> QED BY <1>4, <3>3, <5>2, <5>4 DEF Matches
      <4>2. \A k \in 1..(2 - 1) : Met(k)
        BY <2>3
      <4>3. 2 \in DOMAIN asked
        BY <1>2, <3>3
      <4> QED BY <4>1, <4>2, <4>3
    <3> QED BY <1>2, <3>2, <3>3
  <2> QED BY <2>2, <2>3
<1> DEFINE i == CHOOSE j \in DOMAIN asked : First(j)
           how == CASE log[at + i - 1] = End -> "done"
                    [] log[at + i - 1] = Refusal -> "non-replayable"
                    [] OTHER -> "diverged"
<1>6. i \in DOMAIN asked /\ First(i)
  BY <1>5
<1>7. Ends(how)
  BY DEF Diverges
<1> HIDE DEF i
<1>8. how \in Verdicts \ {"running"} /\ (how = "done" => log[at + i - 1] = End)
  BY DEF Verdicts
<1>9. at + i - 1 \in Nat /\ at + i - 1 >= at /\ at + i - 1 <= Len(log)
      /\ \A k \in at..(at + i - 1) - 1 : log[k].rec # "Refusal"
  <2>1. i = 1 \/ i = 2
    BY <1>2, <1>6
  <2>2. CASE i = 1
    BY <1>1, <2>2
  <2>3. CASE i = 2
    <3>1. 1 \in 1..Len(asked) /\ Met(1) /\ at + 1 - 1 <= Len(log) /\ at + 1 - 1 = at
      BY <1>1, <1>2, <1>6, <2>3
    <3>2. at + 1 <= Len(log) /\ log[at].rec = asked[1].rec
      BY <1>3, <3>1
    <3>3. \A k \in at..(at + i - 1) - 1 : k = at
      BY <1>1, <2>3
    <3> QED BY <1>1, <1>2, <2>3, <3>1, <3>2, <3>3
  <2> QED BY <2>1, <2>2, <2>3
<1> HIDE DEF how, First
<1>10. how = "done" => ~refused
  <2>1. End.rec = "End" /\ at \in Nat
    BY <1>1 DEF End, Rec
  <2> QED BY <1>8, <1>9, <2>1, DoneAtEnd
<1> QED BY <1>7, <1>8, <1>10, EndsKeeps

(* Where the page's next step is told by the log. *)
LEMMA StepPlaces ==
  ASSUME IInv, Replaying, HasOp, NEW p, Keeps(p)
  PROVE  LET deed == ThisOp.op[1]
             a == p[turnNo][opNo]
             b == p[turnNo][opNo + 1]
         IN /\ deed \in {"read", "own"} => b = a + 1 /\ awaited = 0
            /\ deed = "call" /\ log[at].rec # "Refusal" => b = a + 1 /\ awaited = 0
            /\ deed = "ready" => /\ awaited = 0
                                 /\ b = IF log[at].value = 0 THEN a + 2 ELSE a + 1
            /\ deed \in {"clear", "get", "make"} => b = a
            /\ deed = "refused" => log[at] = Refusal
<1> DEFINE deed == ThisOp.op[1]
           a == p[turnNo][opNo]
           b == p[turnNo][opNo + 1]
<1>1. /\ a \in Nat /\ at = a + 1 + Ahead /\ at \in Nat
      /\ awaited # 0 => log[a + 1].rec = "Task"
      /\ phase = "replay"
  BY Standing
<1>2. Wrote(ThisOp, a, b, log, kinds) /\ b \in Nat
  BY NextStep
<1>3. awaited = 0 => at = a + 1
  BY <1>1 DEF Ahead
<1>4. Refusal.rec = "Refusal"
  BY DEF Refusal, Rec
<1>5. \A k \in 1..a : log[k].rec # "Refusal"
  <2>1. \A k \in 1..at - 1 : log[k].rec # "Refusal"
    BY <1>1 DEF IInv, Passed
  <2>2. a <= at - 1
    BY <1>1 DEF Ahead
  <2>3. \A k \in 1..a : k \in 1..at - 1
    BY <1>1, <2>2
  <2> QED BY <2>1, <2>3
<1>61. \A what \in Reads : \A v : ReadRecord(what, v).rec # "Task"
  BY DEF ReadRecord, Reads, patchClocks, patchRandom, patchStateReads, patchEventCounts,
         patchNotifications, patchMediaSeams, patchPerformance, patchStorage, patchStorageShape,
         patchCookie, Clock, PlatformValue, StorageRead, Rec
<1>62. /\ \A id, q, v : PlatformValue(id, q, v).rec = "PlatformValue"
                        /\ PlatformValue(id, q, v).value = v
       /\ \A id, k : TaskReg(id, k).rec = "TaskReg"
  BY DEF PlatformValue, TaskReg, Rec
<1> HIDE DEF a, b, deed
<1>6. \/ deed \in {"read", "own"} /\ b = a + 1 /\ log[b].rec # "Task"
      \/ /\ deed = "call" /\ log[a + 1].rec # "Task"
         /\ b = a + 1 \/ (b = a + 2 /\ log[a + 1] = Refusal)
      \/ /\ deed = "ready" /\ log[a + 1].rec # "Task"
         /\ b = IF log[a + 1].value = 0 THEN a + 2 ELSE a + 1
      \/ deed \in {"clear", "get", "make"} /\ b = a
      \/ /\ deed = "refused"
         /\ \/ b = a + 1 /\ log[b] = Refusal
            \/ b = a /\ \E k \in 1..a : log[k] = Refusal
  <2>1. ThisOp.op[1] = deed
    BY DEF deed
  <2> QED BY <1>2, <1>4, <1>61, <1>62, <2>1 DEF Wrote, Ready
<1>7. deed \in {"read", "own"} => b = a + 1 /\ awaited = 0
  BY <1>1, <1>6
<1>8. deed = "call" /\ log[at].rec # "Refusal" => b = a + 1 /\ awaited = 0
  BY <1>1, <1>3, <1>4, <1>6
<1>9. deed = "ready" => awaited = 0 /\ b = IF log[at].value = 0 THEN a + 2 ELSE a + 1
  BY <1>1, <1>3, <1>6
<1>10. deed \in {"clear", "get", "make"} => b = a
  BY <1>6
<1>11. deed = "refused" => log[at] = Refusal
  <2>1. deed = "refused" => b = a + 1 /\ log[a + 1] = Refusal
    BY <1>4, <1>5, <1>6
  <2>2. deed = "refused" => awaited = 0
    BY <1>1, <1>4, <2>1
  <2> QED BY <1>3, <2>1, <2>2
<1> QED BY <1>7, <1>8, <1>9, <1>10, <1>11 DEF a, b, deed

(* A step of the page's that the log answers, or that it does not.         *)
LEMMA AsksKeeps ==
  ASSUME IInv, Kept, ReplayerTyped', awaited' = awaited, NEW asked \in Asked, NEW saw,
         NEW ids \in Nat, NEW op \in Deeds, PageReplays(op),
         \/ op[1] \in {"read", "own", "call"} /\ Len(asked) = 1
         \/ op[1] = "ready" /\ Len(asked) = IF log[at].value = 0 THEN 2 ELSE 1,
         (Matches(asked) /\ Replays(asked, saw, ids)) \/ Diverges(asked)
  PROVE  IInv'
<1>1. Replaying /\ turn /\ HasOp /\ ThisOp.op = op
  BY DEF PageReplays
<1>2. CASE Diverges(asked)
  BY <1>1, <1>2, DivergesKeeps
<1>3. CASE Matches(asked) /\ Replays(asked, saw, ids)
  <2>1. PICK p : Keeps(p)
    BY DEF IInv
  <2>2. /\ asked \in Seq(Records) /\ Len(asked) \in {1, 2}
        /\ \A i \in 1..Len(asked) : asked[i].rec # "Refusal"
    BY DEF Asked
  <2>3. /\ at + Len(asked) <= Len(log) /\ log[at].rec = asked[1].rec
        /\ \A i \in at..at + Len(asked) - 1 : log[i].rec # "Refusal"
    BY <1>1, <1>3, Matched
  <2>4. log[at].rec # "Refusal"
    BY <2>2, <2>3
  <2>5. p[turnNo][opNo] \in Nat
    BY <1>1, <2>1, Standing
  <2>6. /\ op[1] \in {"read", "own"} =>
             p[turnNo][opNo + 1] = p[turnNo][opNo] + 1 /\ awaited = 0
        /\ op[1] = "call" => p[turnNo][opNo + 1] = p[turnNo][opNo] + 1 /\ awaited = 0
        /\ op[1] = "ready" =>
             /\ awaited = 0
             /\ p[turnNo][opNo + 1] =
                  IF log[at].value = 0 THEN p[turnNo][opNo] + 2 ELSE p[turnNo][opNo] + 1
    BY <1>1, <2>1, <2>4, StepPlaces
  <2>7. p[turnNo][opNo + 1] = p[turnNo][opNo] + Len(asked) /\ awaited = 0
    BY <2>5, <2>6
  <2>8. ThisOp.op[1] # "refused" /\ Len(asked) \in Nat
    BY <1>1, <2>2
  <2> QED BY <1>1, <1>3, <2>1, <2>3, <2>7, <2>8, ReplaysKeeps
<1> QED BY <1>2, <1>3

LEMMA AskedOne ==
  ASSUME NEW r \in Records, r.rec \in {"TaskReg", "Clock", "Random", "PlatformValue", "StorageRead"}
  PROVE  <<r>> \in Asked /\ Len(<<r>>) = 1
<1>1. <<r>> \in Seq(Records) /\ Len(<<r>>) = 1 /\ <<r>>[1] = r
  OBVIOUS
<1> QED BY <1>1 DEF Asked

LEMMA ReadAsked ==
  ASSUME NEW what \in Reads
  PROVE  <<ReadAsks(what)>> \in Asked /\ Len(<<ReadAsks(what)>>) = 1
<1>1. /\ ReadAsks(what) \in Records
      /\ ReadAsks(what).rec \in {"TaskReg", "Clock", "Random", "PlatformValue", "StorageRead"}
  BY ZenonT(60) DEF ReadAsks, Reads, replayClocks, replayRandom, replayStateReads, replayEventCounts,
         replayNotifications, replayMediaSeams, replayPerformance, replayStorage,
         replayStorageShape, replayCookie, Clock, PlatformValue, StorageRead, Rec, Records,
         Labels, Queries, Answers, Kinds, None
<1> QED BY <1>1, AskedOne

(* The steps that ask nothing of the log. *)
LEMMA UnaskedKeeps ==
  ASSUME IInv, Kept, ReplayerTyped', awaited' = awaited, NEW op, PageReplays(op),
         op[1] \in {"clear", "get", "make"}, Replays(<<>>, None, 0)
  PROVE  IInv'
<1>1. Replaying /\ turn /\ HasOp /\ ThisOp.op = op
  BY DEF PageReplays
<1>2. PICK p : Keeps(p)
  BY DEF IInv
<1>3. at \in Nat /\ at <= Len(log) /\ p[turnNo][opNo] \in Nat /\ Len(log) \in Nat
  BY <1>1, <1>2, Standing
<1>4. p[turnNo][opNo + 1] = p[turnNo][opNo]
  BY <1>1, <1>2, StepPlaces
<1> DEFINE asked == <<>>
<1>5. Len(asked) = 0 /\ Replays(asked, None, 0)
  OBVIOUS
<1> HIDE DEF asked
<1>6. /\ Len(asked) \in Nat /\ at + Len(asked) <= Len(log)
      /\ \A i \in at..at + Len(asked) - 1 : log[i].rec # "Refusal"
      /\ p[turnNo][opNo + 1] = p[turnNo][opNo] + Len(asked)
  BY <1>3, <1>4, <1>5
<1>7. ThisOp.op[1] # "refused"
  BY <1>1
<1> QED BY <1>1, <1>2, <1>5, <1>6, <1>7, ReplaysKeeps

(* What the replayed page does. *)
PageReplayed ==
  \/ ReadAgain \/ ReadOwnAgain \/ RegisterAgain \/ MakeAgain \/ ClearAgain \/ ReadReadyAgain
  \/ UseRefusedAgain \/ EndTurnAgain

LEMMA PageReplayedInv ==
  ASSUME IInv, PageReplayed
  PROVE  IInv'
<1>1. /\ nextTask \in Nat \ {0} /\ kinds \in Seq(Kinds) /\ ReplayerTyped
  BY DEF IInv, Typed, SessionTyped, RecorderTyped
<1>2. None \in Answers /\ nextTask \in Nat
  BY <1>1 DEF Answers
<1>3. \A asked, saw, ids : Replays(asked, saw, ids) \/ Diverges(asked) =>
        UNCHANGED <<phase, log, script>>
  BY DEF Replays, Diverges, Ends
<1>4. UNCHANGED replayer => ReplayerTyped' /\ awaited' = awaited
  BY <1>1 DEF replayer, ReplayerTyped
<1>5. CASE ReadAgain
  <2>1. PICK what \in Reads :
          /\ PageReplays(<<"read", what>>)
          /\ Asks(<<ReadAsks(what)>>, Cursor.value, 0, UNCHANGED replayer)
    BY <1>5 DEF ReadAgain
  <2> DEFINE asked == <<ReadAsks(what)>>
             op == <<"read", what>>
             saw == Cursor.value
  <2>2. asked \in Asked /\ Len(asked) = 1
    BY ReadAsked
  <2>3. op \in Deeds /\ op[1] = "read"
    BY DEF Deeds, Kinds
  <2>4. PageReplays(op)
    BY <2>1
  <2>5. UNCHANGED replayer /\ ((Matches(asked) /\ Replays(asked, saw, 0)) \/ Diverges(asked))
    BY <2>1 DEF Asks
  <2> HIDE DEF asked, op, saw
  <2>6. Kept
    BY <1>3, <1>5, <2>5 DEF Kept, ReadAgain
  <2> QED BY <1>4, <2>2, <2>3, <2>4, <2>5, <2>6, AsksKeeps
<1>6. CASE ReadOwnAgain
  <2>1. PICK id \in DOMAIN kinds :
          /\ PageReplays(<<"own", id>>)
          /\ Asks(<<PlatformValue(id, IF kinds[id] = "idle" THEN "didTimeout" ELSE "takeRecords",
                                  None)>>, Cursor.value, 0, UNCHANGED replayer)
    BY <1>6 DEF ReadOwnAgain
  <2> DEFINE query == IF kinds[id] = "idle" THEN "didTimeout" ELSE "takeRecords"
             r == PlatformValue(id, query, None)
             asked == <<r>>
             op == <<"own", id>>
             saw == Cursor.value
  <2>2. id \in Nat /\ query \in Queries
    BY <1>1 DEF Queries
  <2>3. r \in Records /\ r.rec = "PlatformValue"
    BY <1>2, <2>2, RecordsWritten
  <2>4. asked \in Asked /\ Len(asked) = 1
    BY <2>3, AskedOne
  <2>5. op \in Deeds /\ op[1] = "own"
    BY <2>2 DEF Deeds
  <2>6. PageReplays(op)
    BY <2>1
  <2>7. UNCHANGED replayer /\ ((Matches(asked) /\ Replays(asked, saw, 0)) \/ Diverges(asked))
    BY <2>1 DEF Asks
  <2> HIDE DEF asked, op, saw
  <2>8. Kept
    BY <1>3, <1>6, <2>7 DEF Kept, ReadOwnAgain
  <2> QED BY <1>4, <2>4, <2>5, <2>6, <2>7, <2>8, AsksKeeps
<1>7. CASE RegisterAgain
  <2>1. PICK kind \in Timers \cup {"observer"} \cup (Promises \ {"ready"}) :
          /\ PageReplays(<<"call", kind>>)
          /\ Asks(<<TaskReg(nextTask, TaskKind(kind))>>, nextTask, 1,
                  /\ handlers' = handlers \cup {nextTask}
                  /\ starters' = IF kind = "import" THEN starters \cup {nextTask} ELSE starters
                  /\ UNCHANGED <<started, arrived, awaited, rHanded>>)
    BY <1>7 DEF RegisterAgain
  <2> DEFINE r == TaskReg(nextTask, TaskKind(kind))
             asked == <<r>>
             op == <<"call", kind>>
  <2>2. kind \in Kinds
    BY DEF Kinds
  <2>3. r \in Records /\ r.rec = "TaskReg"
    BY <1>2, <2>2, RecordsWritten
  <2>4. asked \in Asked /\ Len(asked) = 1
    BY <2>3, AskedOne
  <2>5. op \in Deeds /\ op[1] = "call"
    BY <2>2 DEF Deeds
  <2>6. PageReplays(op)
    BY <2>1
  <2>7. (Matches(asked) /\ Replays(asked, nextTask, 1)) \/ Diverges(asked)
    BY <2>1 DEF Asks
  <2>8. ReplayerTyped' /\ awaited' = awaited
    <3>1. \/ UNCHANGED replayer
          \/ handlers' = handlers \cup {nextTask} /\ UNCHANGED <<awaited, rHanded>>
      BY <2>1 DEF Asks
    <3>2. CASE UNCHANGED replayer
      BY <1>4, <3>2
    <3>3. CASE handlers' = handlers \cup {nextTask} /\ UNCHANGED <<awaited, rHanded>>
      BY <1>1, <3>3 DEF ReplayerTyped
    <3> QED BY <3>1, <3>2, <3>3
  <2> HIDE DEF asked, op
  <2>9. Kept
    BY <1>3, <1>7, <2>7 DEF Kept, RegisterAgain
  <2> QED BY <2>4, <2>5, <2>6, <2>7, <2>8, <2>9, AsksKeeps
<1>8. CASE MakeAgain
  <2>1. /\ PageReplays(<<"get", 0>>) \/ PageReplays(<<"make", 0>>)
        /\ Replays(<<>>, None, 0) /\ UNCHANGED <<recorder, replayer>>
    BY <1>8 DEF MakeAgain
  <2>2. Kept /\ ReplayerTyped' /\ awaited' = awaited
    BY <1>3, <1>4, <2>1 DEF Kept
  <2>3. <<"get", 0>>[1] = "get" /\ <<"make", 0>>[1] = "make"
    OBVIOUS
  <2> QED BY <2>1, <2>2, <2>3, UnaskedKeeps
<1>9. CASE ClearAgain
  <2>1. PICK id \in DOMAIN kinds :
          /\ PageReplays(<<"clear", id>>) /\ Replays(<<>>, None, 0)
          /\ handlers' = handlers \ {id}
    BY <1>9 DEF ClearAgain
  <2>2. UNCHANGED <<recorder, starters, started, arrived, awaited, rHanded>>
    BY <1>9 DEF ClearAgain
  <2>3. Kept /\ ReplayerTyped' /\ awaited' = awaited
    BY <1>1, <1>3, <2>1, <2>2 DEF Kept, ReplayerTyped
  <2>4. <<"clear", id>>[1] = "clear"
    OBVIOUS
  <2> QED BY <2>1, <2>3, <2>4, UnaskedKeeps
<1>10. CASE ReadReadyAgain
  <2> DEFINE r == PlatformValue(0, "ready", None)
             t == TaskReg(nextTask, "platform")
             asked == <<r>>
             both == <<r>> \o <<t>>
             op == <<"ready", 0>>
  <2>1. "ready" \in Queries /\ op \in Deeds /\ op[1] = "ready"
    BY DEF Queries, Kinds, Promises, Outcomes, Deeds
  <2>2. r \in Records /\ r.rec = "PlatformValue" /\ t \in Records /\ t.rec = "TaskReg"
    BY <1>2, <2>1, RecordsWritten
  <2>3. asked \in Asked /\ Len(asked) = 1
    BY <2>2, AskedOne
  <2>4. both \in Asked /\ Len(both) = 2
    <3>1. both = <<r, t>>
      BY <2>2, TwoWritten
    <3>2. <<r, t>> \in Seq(Records) /\ Len(<<r, t>>) = 2 /\ <<r, t>>[1] = r /\ <<r, t>>[2] = t
      BY <2>2
    <3>3. \A i \in 1..2 : i = 1 \/ i = 2
      OBVIOUS
    <3>4. \A i \in 1..Len(<<r, t>>) : <<r, t>>[i].rec \notin {"End", "Refusal", "Task"}
      BY <2>2, <3>2, <3>3
    <3> QED BY <3>1, <3>2, <3>4 DEF Asked
  <2>5. PageReplays(op) /\ UNCHANGED recorder
    BY <1>10 DEF ReadReadyAgain
  <2>6. CASE ~Matches(asked)
    <3>1. Diverges(asked) /\ UNCHANGED replayer
      BY <1>10, <2>6 DEF ReadReadyAgain
    <3> HIDE DEF asked
    <3>2. Kept
      BY <1>3, <2>5, <3>1 DEF Kept
    <3>3. Replaying
      BY <2>5 DEF PageReplays
    <3> QED BY <1>4, <2>3, <3>1, <3>2, <3>3, DivergesKeeps
  <2>7. CASE Matches(asked) /\ log[at].value = 0
    <3>1. Asks(both, nextTask, 1, /\ handlers' = handlers \cup {nextTask}
                                  /\ rHanded' = rHanded \cup {nextTask}
                                  /\ UNCHANGED <<starters, started, arrived, awaited>>)
      <4>1. ~(Cursor.value \in rHanded)
        BY <1>1, <2>7 DEF Cursor, ReplayerTyped
      <4>2. Cursor.value = 0
        BY <2>7 DEF Cursor
      <4> QED BY <1>10, <2>7, <4>1, <4>2 DEF ReadReadyAgain
    <3>2. (Matches(both) /\ Replays(both, nextTask, 1)) \/ Diverges(both)
      BY <3>1 DEF Asks
    <3>3. ReplayerTyped' /\ awaited' = awaited
      <4>1. \/ UNCHANGED replayer
            \/ /\ handlers' = handlers \cup {nextTask} /\ rHanded' = rHanded \cup {nextTask}
               /\ UNCHANGED awaited
        BY <3>1 DEF Asks
      <4>2. CASE UNCHANGED replayer
        BY <1>4, <4>2
      <4>3. CASE /\ handlers' = handlers \cup {nextTask} /\ rHanded' = rHanded \cup {nextTask}
                 /\ UNCHANGED awaited
        BY <1>1, <4>3 DEF ReplayerTyped
      <4> QED BY <4>1, <4>2, <4>3
    <3> HIDE DEF both, op, asked
    <3>4. Kept
      BY <1>3, <2>5, <3>2 DEF Kept
    <3> QED BY <1>2, <2>1, <2>4, <2>5, <2>7, <3>2, <3>3, <3>4, AsksKeeps
  <2>8. CASE Matches(asked) /\ log[at].value # 0
    <3>1. \/ Asks(asked, Cursor.value, 0, UNCHANGED replayer)
          \/ Ends("diverged") /\ UNCHANGED replayer
      <4>1. Cursor.value # 0
        BY <2>8 DEF Cursor
      <4> QED BY <1>10, <2>8, <4>1 DEF ReadReadyAgain
    <3> DEFINE saw == Cursor.value
    <3>2. CASE Asks(asked, saw, 0, UNCHANGED replayer)
      <4>1. UNCHANGED replayer /\ ((Matches(asked) /\ Replays(asked, saw, 0)) \/ Diverges(asked))
        BY <3>2 DEF Asks
      <4> HIDE DEF asked, op, saw
      <4>2. Kept
        BY <1>3, <2>5, <4>1 DEF Kept
      <4> QED BY <1>4, <2>1, <2>3, <2>5, <2>8, <4>1, <4>2, AsksKeeps
    <3>3. CASE Ends("diverged") /\ UNCHANGED replayer
      <4>1. Kept /\ Replaying
        BY <2>5, <3>3 DEF Kept, Ends, PageReplays
      <4>2. "diverged" \in Verdicts \ {"running"}
        BY DEF Verdicts
      <4> QED BY <1>4, <3>3, <4>1, <4>2, EndsKeeps
    <3> QED BY <3>1, <3>2, <3>3
  <2> QED BY <2>6, <2>7, <2>8
<1>11. CASE UseRefusedAgain
  <2>1. PageReplays(<<"refused", 0>>) /\ UNCHANGED <<recorder, replayer>>
    BY <1>11 DEF UseRefusedAgain
  <2>2. Replaying /\ HasOp /\ ThisOp.op[1] = "refused"
    BY <2>1 DEF PageReplays
  <2>3. PICK p : Keeps(p)
    BY DEF IInv
  <2>4. refusedHere
    BY <2>2, <2>3, StepPlaces DEF refusedHere, Cursor
  <2>5. Ends("non-replayable")
    BY <1>11, <2>4 DEF UseRefusedAgain
  <2>6. Kept
    BY <2>1, <2>5 DEF Kept, Ends
  <2>7. "non-replayable" \in Verdicts \ {"running"}
    BY DEF Verdicts
  <2> QED BY <1>4, <2>1, <2>2, <2>5, <2>6, <2>7, EndsKeeps
<1>12. CASE EndTurnAgain
  <2>1. /\ Replaying /\ ~HasOp /\ turn' = FALSE /\ UNCHANGED <<recorder, replayer>>
        /\ UNCHANGED <<phase, log, nextTask, script, at, turnNo, opNo, verdict>>
    BY <1>12 DEF EndTurnAgain, TurnOverAgain
  <2>2. PICK p : Keeps(p)
    BY DEF IInv
  <2>3. opNo = Len(script[turnNo].ops)
    <3>1. opNo \in 0..Len(script[turnNo].ops) /\ Len(script[turnNo].ops) \in Nat
      BY <2>1, <2>2, Standing
    <3> QED BY <2>1, <3>1 DEF HasOp, ThisTurn
  <2>4. /\ phase' = phase /\ log' = log /\ nextTask' = nextTask /\ script' = script
        /\ at' = at /\ turnNo' = turnNo /\ opNo' = opNo /\ verdict' = verdict
        /\ awaited' = awaited /\ refused' = refused
    BY <2>1 DEF recorder, replayer
  <2>5. Follows(p)'
    BY <2>1, <2>2, <2>3, <2>4 DEF Keeps, Follows, Ahead
  <2>6. Passed' /\ NeverPastRefusal' /\ Kept /\ ReplayerTyped'
    BY <1>4, <2>1, <2>4 DEF IInv, Passed, NeverPastRefusal, Kept
  <2>7. nextTask' \in Nat \ {0} /\ turn' \in BOOLEAN /\ verdict' \in Verdicts
    BY <2>1, <2>4 DEF IInv, Typed, SessionTyped
  <2> QED BY <2>1, <2>2, <2>5, <2>6, <2>7, ReplayRests
<1> QED BY <1>5, <1>6, <1>7, <1>8, <1>9, <1>10, <1>11, <1>12 DEF PageReplayed

(* A released task's page code runs, or what it is to be given is not there. *)
LEMMA LetsKeeps ==
  ASSUME IInv, Replaying, ~turn, Kept, ReplayerTyped', awaited' = 0, NEW id,
         NEW from \in {0, 1}, from + Ahead = 1, at + from <= Len(log),
         \A i \in at..at + from - 1 : log[i].rec # "Refusal", Lets(id, from)
  PROVE  IInv'
<1>1. /\ log \in Seq(Records) /\ at \in Nat \ {0} /\ Len(log) \in Nat /\ log[Len(log)] = End
      /\ from \in Nat
  BY LenProperties DEF IInv, Typed, SessionTyped, Passed, LogWhole, Replaying
<1> DEFINE given == Given(id)
           value == CASE kinds[id] = "file" -> "a stand-in's"
                      [] given = <<>> \/ kinds[id] = "bitmap" -> None
                      [] OTHER -> log[at + from].value
           how == IF log[at + from] = End THEN "done" ELSE "diverged"
           g == IF kinds[id] = "frame" THEN Clock("frame", None)
                ELSE IF kinds[id] = "observer" THEN PlatformValue(id, "callback", None)
                ELSE PlatformValue(id, kinds[id], None)
<1>2. /\ kinds[id] \in Reads1 => given = <<g>>
      /\ kinds[id] \notin Reads1 => given = <<>>
  BY DEF Given, Reads1, Outcomes
<1>3. Checked(g).rec \in {"Clock", "PlatformValue"}
  BY DEF Checked, Clock, PlatformValue, Rec
<1>4. End.rec = "End"
  BY DEF End, Rec
<1>5. IF \A i \in DOMAIN given : Checked(log[at + from + i - 1]) = Checked(given[i])
      THEN BeginsAgain(id, "task", value, from + Len(given), 0)
      ELSE Ends(how)
  BY DEF Lets
<1> HIDE DEF g, value, how
<1>6. at + from \in 1..Len(log) /\ log[at + from] \in Records
  BY <1>1
<1>7. CASE kinds[id] \notin Reads1
  <2>1. given = <<>> /\ Len(given) = 0 /\ Opening(id, kinds) = 1
    BY <1>2, <1>7 DEF Opening
  <2> HIDE DEF given
  <2>2. BeginsAgain(id, "task", value, from + Len(given), 0)
    BY <1>5, <2>1
  <2>3. from + Len(given) = from
    BY <1>1, <2>1
  <2>4. BeginsAgain(id, "task", value, from, 0)
    BY <2>2, <2>3
  <2>5. from + Ahead = Opening(id, kinds)
    BY <2>1
  <2> QED BY <1>1, <2>4, <2>5, BeginsKeeps
<1>8. CASE kinds[id] \in Reads1 /\ Checked(log[at + from]) = Checked(g)
  <2>1. given = <<g>> /\ Opening(id, kinds) = 2
    BY <1>2, <1>8 DEF Opening
  <2>2. Len(given) = 1 /\ DOMAIN given = {1} /\ given[1] = g
    BY <2>1
  <2> HIDE DEF given
  <2>3. at + from + 1 - 1 = at + from
    BY <1>1
  <2>4. BeginsAgain(id, "task", value, from + 1, 0)
    BY <1>5, <1>8, <2>2, <2>3
  <2>5. Checked(log[at + from]).rec = log[at + from].rec
    BY <1>6 DEF Checked, Records
  <2>6. log[at + from].rec \in {"Clock", "PlatformValue"}
    BY <1>3, <1>8, <2>5
  <2>7. at + from # Len(log)
    BY <1>1, <1>4, <2>6
  <2>8. at + (from + 1) <= Len(log) /\ from + 1 \in Nat
    BY <1>1, <1>6, <2>7
  <2>9. \A i \in at..at + (from + 1) - 1 : i \in at..at + from - 1 \/ i = at + from
    BY <1>1
  <2>10. \A i \in at..at + (from + 1) - 1 : log[i].rec # "Refusal"
    BY <2>6, <2>9
  <2>11. (from + 1) + Ahead = Opening(id, kinds)
    BY <1>1, <2>1 DEF Ahead
  <2> QED BY <2>4, <2>8, <2>10, <2>11, BeginsKeeps
<1>9. CASE kinds[id] \in Reads1 /\ Checked(log[at + from]) # Checked(g)
  <2>1. given = <<g>>
    BY <1>2, <1>9
  <2>2. DOMAIN given = {1} /\ given[1] = g
    BY <2>1
  <2> HIDE DEF given
  <2>3. at + from + 1 - 1 = at + from
    BY <1>1
  <2>4. Ends(how)
    BY <1>5, <1>9, <2>2, <2>3
  <2>5. how \in Verdicts \ {"running"} /\ (how = "done" => log[at + from] = End)
    BY DEF how, Verdicts
  <2>6. at + from \in Nat /\ at + from >= at
    BY <1>1
  <2>7. how = "done" => ~refused
    BY <1>1, <1>4, <2>5, <2>6, DoneAtEnd
  <2> QED BY <2>4, <2>5, <2>7, EndsKeeps
<1> QED BY <1>7, <1>8, <1>9

(* What the scheduler does. *)
Scheduled ==
  AtEnd \/ RunTask \/ StartTask \/ MissingRead \/ Arrive \/ EvaluateAwaited

LEMMA ScheduledInv ==
  ASSUME IInv, Scheduled
  PROVE  IInv'
<1>1. /\ log \in Seq(Records) /\ ReplayerTyped /\ nextTask \in Nat \ {0} /\ turn \in BOOLEAN
      /\ verdict \in Verdicts
  BY DEF IInv, Typed, SessionTyped
<1>2. Replaying /\ ~turn
  BY DEF Scheduled, AtEnd, RunTask, StartTask, MissingRead, Arrive, EvaluateAwaited, Scheduling,
         PageIdle
<1>3. at \in Nat \ {0} /\ Len(log) \in Nat /\ at <= Len(log) /\ log[Len(log)] = End
      /\ End.rec = "End" /\ Refusal.rec = "Refusal"
  BY <1>1, <1>2, LenProperties DEF IInv, Passed, LogWhole, Replaying, End, Refusal, Rec
<1>4. UNCHANGED replayer => ReplayerTyped' /\ awaited' = awaited
  BY <1>1 DEF replayer, ReplayerTyped
<1>5. \A k \in at..at + 0 - 1 : log[k].rec # "Refusal"
  BY <1>3
<1>6. \A how : Ends(how) => UNCHANGED <<phase, log, script>>
  BY DEF Ends
<1>7. \A id, from : Lets(id, from) => UNCHANGED <<phase, log, script>>
  BY DEF Lets, BeginsAgain, Ends
<1>8. "diverged" \in Verdicts \ {"running"} /\ "non-replayable" \in Verdicts \ {"running"}
      /\ "done" \in Verdicts \ {"running"}
  BY DEF Verdicts
<1>9. CASE AtEnd
  <2>1. Ends(Terminal) /\ Terminated /\ UNCHANGED <<recorder, replayer>>
    BY <1>9 DEF AtEnd
  <2>2. Kept
    BY <1>6, <2>1 DEF Kept
  <2>3. Terminal \in Verdicts \ {"running"} /\ (Terminal = "done" => log[at].rec = "End")
    BY <1>3, <1>8 DEF Terminal, Cursor
  <2>4. \A k \in at..at - 1 : log[k].rec # "Refusal"
    BY <1>3
  <2>5. Terminal = "done" => ~refused
    BY <1>2, <1>3, <2>3, <2>4, DoneAtEnd
  <2> QED BY <1>2, <1>4, <2>1, <2>2, <2>3, <2>5, EndsKeeps
<1>10. CASE MissingRead
  <2>1. Ends("diverged") /\ UNCHANGED <<recorder, replayer>>
    BY <1>10 DEF MissingRead
  <2>2. Kept
    BY <1>6, <2>1 DEF Kept
  <2> QED BY <1>2, <1>4, <1>8, <2>1, <2>2, EndsKeeps
<1>11. CASE StartTask
  <2>1. /\ BeginsAgain(Starts, "module", None, 0, 0)
        /\ UNCHANGED <<recorder, handlers, starters, arrived, awaited, rHanded>>
    BY <1>11 DEF StartTask
  <2>2. Kept /\ ReplayerTyped' /\ awaited' = awaited
    BY <1>1, <2>1 DEF Kept, BeginsAgain, ReplayerTyped
  <2>3. at + 0 <= Len(log)
    BY <1>3
  <2> QED BY <1>2, <1>5, <2>1, <2>2, <2>3, BeginsKeeps
<1>12. CASE RunTask
  <2> DEFINE id == Cursor.id
  <2>1. /\ awaited = 0 /\ log[at].rec = "Task" /\ UNCHANGED recorder
    BY <1>12 DEF RunTask, Scheduling, Cursor
  <2>2. at + 1 <= Len(log) /\ (\A k \in at..at + 1 - 1 : log[k].rec # "Refusal")
    <3>1. at # Len(log)
      BY <1>3, <2>1
    <3>2. \A k \in at..at + 1 - 1 : k = at
      BY <1>3
    <3> QED BY <1>3, <2>1, <3>1, <3>2
  <2>3. CASE Ends("diverged") /\ UNCHANGED replayer
    <3>1. Kept
      BY <1>6, <2>1, <2>3 DEF Kept
    <3> QED BY <1>2, <1>4, <1>8, <2>3, <3>1, EndsKeeps
  <2>4. CASE /\ id \in handlers
             /\ handlers' = IF kinds[id] \in Repeats THEN handlers ELSE handlers \ {id}
             /\ awaited' = id /\ at' = at + 1
             /\ UNCHANGED <<phase, log, nextTask, script, turn, turnNo, opNo, verdict>>
             /\ UNCHANGED <<starters, started, arrived, rHanded>>
    <3>1. id \in Nat \ {0}
      BY <1>1, <2>4 DEF ReplayerTyped
    <3>2. ReplayerTyped' /\ Kept
      BY <1>1, <2>1, <2>4, <3>1 DEF ReplayerTyped, Kept
    <3> HIDE DEF id
    <3>3. /\ phase' = phase /\ log' = log /\ nextTask' = nextTask /\ script' = script
          /\ turn' = turn /\ turnNo' = turnNo /\ opNo' = opNo /\ verdict' = verdict
          /\ at' = at + 1 /\ awaited' = id /\ refused' = refused
      BY <2>1, <2>4 DEF recorder
    <3>4. PICK p : Keeps(p)
      BY DEF IInv
    <3>5. /\ turnNo \in DOMAIN script /\ opNo \in 0..Len(script[turnNo].ops)
          /\ p[turnNo][opNo] \in Nat /\ at = p[turnNo][opNo] + 1 + Ahead
          /\ opNo = Len(script[turnNo].ops)
      BY <1>2, <3>4, Standing
    <3>6. at = p[turnNo][opNo] + 1 /\ Ahead' = 1
      BY <2>1, <3>1, <3>3, <3>5 DEF Ahead
    <3>7. Follows(p)'
      BY <2>1, <3>3, <3>5, <3>6 DEF Follows
    <3>8. Passed'
      <4>1. turnNo \in Nat /\ opNo \in Nat /\ \A k \in 1..at - 1 : log[k].rec # "Refusal"
        BY <1>2 DEF IInv, Passed, Replaying
      <4>2. \A k \in 1..(at + 1) - 1 : k \in 1..at - 1 \/ k = at
        BY <1>3
      <4>3. at + 1 \in 1..Len(log)
        BY <1>3, <2>2
      <4> QED BY <2>1, <3>3, <4>1, <4>2, <4>3 DEF Passed
    <3>9. NeverPastRefusal'
      BY <3>3 DEF IInv, NeverPastRefusal
    <3>10. nextTask' \in Nat \ {0} /\ turn' \in BOOLEAN /\ verdict' \in Verdicts
      BY <1>1, <3>3
    <3> QED BY <1>2, <3>2, <3>4, <3>7, <3>8, <3>9, <3>10, ReplayRests
  <2>5. CASE /\ handlers' = IF kinds[id] \in Repeats THEN handlers ELSE handlers \ {id}
             /\ Lets(id, 1) /\ awaited' = 0
             /\ UNCHANGED <<starters, started, arrived, rHanded>>
    <3>1. ReplayerTyped' /\ Kept
      BY <1>1, <1>7, <2>1, <2>5 DEF ReplayerTyped, Kept
    <3>2. 1 + Ahead = 1 /\ 1 \in {0, 1}
      BY <2>1 DEF Ahead
    <3> HIDE DEF id
    <3> QED BY <1>2, <2>2, <2>5, <3>1, <3>2, LetsKeeps
  <2> QED BY <1>12, <2>3, <2>4, <2>5 DEF RunTask
<1>13. CASE Arrive
  <2>1. /\ UNCHANGED <<recorder, handlers, starters, started, rHanded>>
        /\ \E id \in (1..(nextTask - 1)) \ arrived :
             IF awaited = id THEN Lets(id, 0) /\ awaited' = 0
             ELSE UNCHANGED <<session, awaited>>
    BY <1>13 DEF Arrive
  <2>2. PICK id \in (1..(nextTask - 1)) \ arrived :
          IF awaited = id THEN Lets(id, 0) /\ awaited' = 0
          ELSE UNCHANGED <<session, awaited>>
    BY <2>1
  <2>3. CASE awaited = id
    <3>1. Lets(id, 0) /\ awaited' = 0 /\ awaited # 0
      BY <1>1, <2>2, <2>3
    <3>2. ReplayerTyped' /\ Kept
      BY <1>1, <1>7, <2>1, <3>1 DEF ReplayerTyped, Kept
    <3>3. 0 + Ahead = 1 /\ 0 \in {0, 1} /\ at + 0 <= Len(log)
      BY <1>3, <3>1 DEF Ahead
    <3> QED BY <1>2, <1>5, <3>1, <3>2, <3>3, LetsKeeps
  <2>4. CASE awaited # id
    <3>1. /\ phase' = phase /\ log' = log /\ nextTask' = nextTask /\ script' = script
          /\ turn' = turn /\ at' = at /\ turnNo' = turnNo /\ opNo' = opNo
          /\ verdict' = verdict /\ awaited' = awaited /\ refused' = refused
      BY <2>1, <2>2, <2>4 DEF session, recorder
    <3>2. ReplayerTyped' /\ Kept
      BY <1>1, <2>1, <3>1 DEF ReplayerTyped, Kept
    <3>3. PICK p : Keeps(p)
      BY DEF IInv
    <3>4. Follows(p)' /\ Passed' /\ NeverPastRefusal'
      BY <3>1, <3>3 DEF Keeps, Follows, Ahead, IInv, Passed, NeverPastRefusal
    <3>5. nextTask' \in Nat \ {0} /\ turn' \in BOOLEAN /\ verdict' \in Verdicts
      BY <1>1, <3>1
    <3> QED BY <1>2, <3>2, <3>3, <3>4, <3>5, ReplayRests
  <2> QED BY <2>3, <2>4
<1>14. CASE EvaluateAwaited
  <2>1. /\ awaited # 0 /\ UNCHANGED <<recorder, handlers, starters, arrived, rHanded>>
        /\ \/ BeginsAgain(awaited, "module", None, 0, 0) /\ UNCHANGED awaited
           \/ Lets(awaited, 0) /\ awaited' = 0
    BY <1>14 DEF EvaluateAwaited
  <2>2. at + 0 <= Len(log)
    BY <1>3
  <2>3. CASE BeginsAgain(awaited, "module", None, 0, 0) /\ UNCHANGED awaited
    <3>1. Kept /\ ReplayerTyped'
      BY <1>1, <2>1, <2>3 DEF Kept, BeginsAgain, ReplayerTyped
    <3> QED BY <1>2, <1>5, <2>2, <2>3, <3>1, BeginsKeeps
  <2>4. CASE Lets(awaited, 0) /\ awaited' = 0
    <3>1. Kept /\ ReplayerTyped'
      BY <1>1, <1>7, <2>1, <2>4 DEF Kept, ReplayerTyped
    <3>2. 0 + Ahead = 1 /\ 0 \in {0, 1}
      BY <2>1 DEF Ahead
    <3> QED BY <1>2, <1>5, <2>2, <2>4, <3>1, <3>2, LetsKeeps
  <2> QED BY <2>1, <2>3, <2>4
<1> QED BY <1>9, <1>10, <1>11, <1>12, <1>13, <1>14 DEF Scheduled

-----------------------------------------------------------------------------
LEMMA InitInv == Init => IInv
<1> SUFFICES ASSUME Init PROVE IInv
  OBVIOUS
<1>1. /\ phase = "record" /\ log = <<>> /\ nextTask = 1 /\ turn = TRUE
      /\ script = <<Turn(0, "script", None)>>
      /\ at = 1 /\ turnNo = 1 /\ opNo = 0 /\ verdict = "running"
      /\ kinds = <<>> /\ live = {} /\ settled = <<>> /\ refused = FALSE /\ userContent = <<>>
      /\ fonts = 1 /\ handed = [f \in 1..MaxFonts |-> 0]
      /\ handlers = {} /\ awaited = 0 /\ rHanded = {} /\ page \in Uses
  BY DEF Init, SessionInit, SeamInit
<1> DEFINE u == Turn(0, "script", None)
<1>2. u \in Turns /\ u.ops = <<>>
  BY DEF Turn, Turns, Parts, Answers
<1>3. SessionTyped
  BY <1>1, <1>2 DEF SessionTyped, Verdicts
<1>4. RecorderTyped /\ ReplayerTyped
  <2>1. page \in SUBSET Kinds
    BY <1>1, UsesAssumption
  <2>2. fonts \in 1..MaxFonts /\ handed \in [1..MaxFonts -> Nat]
    BY <1>1, FontsAssumption
  <2>3. /\ kinds \in Seq(Kinds) /\ live \subseteq DOMAIN kinds /\ settled \in Seq(Nat)
        /\ DOMAIN settled = {} /\ userContent \in Seq(BOOLEAN) /\ refused \in BOOLEAN
    <3>1. \A S : <<>> \in Seq(S)
      BY EmptySeq
    <3>2. DOMAIN <<>> = {}
      OBVIOUS
    <3> QED BY <1>1, <3>1, <3>2
  <2>4. ReplayerTyped
    BY <1>1 DEF ReplayerTyped
  <2> QED BY <2>1, <2>2, <2>3, <2>4 DEF RecorderTyped
<1>5. Told = 0 /\ LogWhole /\ Unreplayed /\ Passed /\ NeverPastRefusal
  BY <1>1 DEF Told, LogWhole, Unreplayed, Passed, NeverPastRefusal
<1> DEFINE p == [t \in {1} |-> [j \in 0..0 |-> 0]]
<1>6. Placed(p, script, log, kinds, Told)
  <2>1. script = <<u>> /\ Len(script) = 1 /\ DOMAIN script = {1} /\ script[1] = u
    BY <1>1
  <2>2. Len(script[1].ops) = 0
    BY <1>2, <2>1
  <2>3. DOMAIN p = {1} /\ p[1] = [j \in 0..0 |-> 0] /\ p[1][0] = 0
    OBVIOUS
  <2> HIDE DEF p, u
  <2>4. Places(p, script, Told)
    BY <1>5, <2>1, <2>2, <2>3 DEF Places
  <2> QED BY <1>5, <2>1, <2>2, <2>3, <2>4 DEF Placed
<1>7. Keeps(p)
  BY <1>1, <1>6 DEF Keeps, Follows
<1>8. Counted(log, Len(kinds))
  BY <1>1 DEF Counted, Registered
<1>9. HandedTold
  BY <1>1 DEF HandedTold
<1> QED BY <1>3, <1>4, <1>5, <1>7, <1>8, <1>9 DEF IInv, Typed

LEMMA NextInv == IInv /\ [Next]_vars => IInv'
<1> SUFFICES ASSUME IInv, [Next]_vars PROVE IInv'
  OBVIOUS
<1>1. CASE PageRecords
  BY <1>1, PageRecordsInv
<1>2. CASE PlatformRecords
  BY <1>2, PlatformRecordsInv
<1>3. CASE PageReplayed
  BY <1>3, PageReplayedInv
<1>4. CASE Scheduled
  BY <1>4, ScheduledInv
<1>5. CASE UNCHANGED vars
  <2>1. /\ phase' = phase /\ log' = log /\ nextTask' = nextTask /\ script' = script
        /\ turn' = turn /\ at' = at /\ turnNo' = turnNo /\ opNo' = opNo /\ verdict' = verdict
        /\ page' = page /\ kinds' = kinds /\ live' = live /\ settled' = settled
        /\ fonts' = fonts /\ handed' = handed /\ refused' = refused
        /\ userContent' = userContent /\ handlers' = handlers /\ awaited' = awaited
        /\ rHanded' = rHanded
    BY <1>5 DEF vars, session, recorder, replayer
  <2>2. PICK p : Keeps(p)
    BY DEF IInv
  <2>3. Keeps(p)'
    BY <2>1, <2>2 DEF Keeps, Told, Follows, Ahead
  <2>4. Typed'
    BY <2>1 DEF IInv, Typed, SessionTyped, RecorderTyped, ReplayerTyped
  <2>5. LogWhole' /\ Unreplayed' /\ Passed' /\ NeverPastRefusal' /\ Counted(log', Len(kinds'))
    BY <2>1 DEF IInv, LogWhole, Unreplayed, Passed, NeverPastRefusal, Told
  <2>6. HandedTold'
    BY <2>1 DEF IInv, HandedTold
  <2> QED BY <2>3, <2>4, <2>5, <2>6 DEF IInv
<1>6. Next => \/ PageRecords \/ PlatformRecords \/ PageReplayed \/ Scheduled
              \/ UNCHANGED vars
  BY DEF Next, Record, Replay, Finished, Platform, PageRecords, PlatformRecords, PageReplayed,
         Scheduled
<1> QED BY <1>1, <1>2, <1>3, <1>4, <1>5, <1>6

(* A replay of a session that used what the recorder refuses ends there:   *)
(* the page never goes on past it, whatever the page does, the platform    *)
(* answers and the tasks' order is (PlatformSeams, UseRefusedAgain).       *)
THEOREM RefusalsEndReplays == Spec => []NeverPastRefusal
<1>1. Init => IInv
  BY InitInv
<1>2. IInv /\ [Next]_vars => IInv'
  BY NextInv
<1>3. IInv => NeverPastRefusal
  BY DEF IInv
<1> QED BY <1>1, <1>2, <1>3, PTL DEF Spec

-----------------------------------------------------------------------------
(* What the replay keeps has its types. *)

(* What the replay keeps is of tasks the log registers, and an import it   *)
(* runs or waits for is one it holds.                                      *)
ImportsHeld ==
  /\ started \subseteq starters
  /\ \A id \in handlers : kinds[id] = "import" => id \in starters
  /\ awaited # 0 /\ kinds[awaited] = "import" => awaited \in starters
ReplayBounds ==
  /\ phase = "record" => handlers = {} /\ starters = {} /\ started = {}
  /\ phase = "replay" => turnNo \in 1..(Len(script) + 1) /\ nextTask <= Len(kinds) + 1
  /\ handlers \subseteq DOMAIN kinds /\ ImportsHeld
TypeInv == IInv /\ ReplayBounds

LEMMA TypesHeld ==
  ASSUME TypeInv
  PROVE  TypeOK
<1>1. /\ phase \in {"record", "replay"} /\ turn \in BOOLEAN /\ verdict \in Verdicts
      /\ Len(log) \in Nat /\ Len(script) \in Nat /\ script # <<>> /\ live \subseteq DOMAIN kinds
      /\ settled \in Seq(Nat) /\ \A i \in DOMAIN settled : settled[i] \in DOMAIN kinds
  BY LenProperties DEF TypeInv, IInv, Typed, SessionTyped, RecorderTyped
<1>2. at \in 1..(Len(log) + 1) /\ turnNo \in 1..(Len(script) + 1)
  BY <1>1 DEF TypeInv, ReplayBounds, IInv, Passed, Unreplayed
<1>3. ToSet(settled) \subseteq DOMAIN kinds
  BY <1>1 DEF ToSet
<1> QED BY <1>1, <1>2, <1>3 DEF TypeOK, Verdicts, TypeInv, ReplayBounds, ImportsHeld

(* A recorder has nothing to replay yet. *)
LEMMA UnreplayedBounds ==
  ASSUME IInv', phase' = "record", handlers' = {}, starters' = {}, started' = {}
  PROVE  ReplayBounds'
<1>1. awaited' = 0
  BY DEF IInv, Unreplayed
<1> QED BY <1>1 DEF ReplayBounds, ImportsHeld

(* What the page's replayed steps and the scheduler's keep, when they      *)
(* change neither ids nor turns by more than the log says.                 *)
LEMMA BoundsOn ==
  ASSUME TypeInv, Replaying, Kept, turnNo' = turnNo, nextTask' <= Len(kinds) + 1,
         handlers' \subseteq DOMAIN kinds, ImportsHeld'
  PROVE  ReplayBounds'
<1>1. phase' = phase /\ script' = script /\ kinds' = kinds /\ phase = "replay"
  BY DEF Kept, recorder, Replaying
<1> QED BY <1>1 DEF TypeInv, ReplayBounds

LEMMA BoundsBegun ==
  ASSUME TypeInv, Replaying, Kept, turnNo' = turnNo + 1, nextTask' = nextTask,
         handlers' \subseteq DOMAIN kinds, ImportsHeld'
  PROVE  ReplayBounds'
<1>1. phase' = phase /\ script' = script /\ kinds' = kinds /\ phase = "replay"
  BY DEF Kept, recorder, Replaying
<1>2. turnNo \in 1..Len(script) /\ Len(script) \in Nat
  BY Standing DEF TypeInv, IInv
<1> QED BY <1>1, <1>2 DEF TypeInv, ReplayBounds

(* A task the log registers next. *)
LEMMA RegisteredHere ==
  ASSUME IInv, Replaying, NEW i \in 1..Len(log), log[i].rec = "TaskReg", log[i].id = nextTask
  PROVE  nextTask \in 1..Len(kinds)
<1>1. Len(log) \in Nat /\ nextTask \in Nat
  BY LenProperties DEF IInv, Typed, SessionTyped
<1>2. Registered(nextTask, Len(log), log)
  BY DEF Registered
<1> QED BY <1>1, <1>2 DEF IInv, Counted

LEMMA RegisteredByCall ==
  ASSUME IInv, NEW kind \in Calls, PageReplays(<<"call", kind>>),
         Matches(<<TaskReg(nextTask, TaskKind(kind))>>)
  PROVE  nextTask \in 1..Len(kinds) /\ kinds[nextTask] = kind
<1> DEFINE r == TaskReg(nextTask, TaskKind(kind))
           asked == <<r>>
<1>1. Replaying /\ HasOp /\ ThisOp.op = <<"call", kind>>
  BY DEF PageReplays
<1>2. PICK p : Keeps(p)
  BY DEF IInv
<1>3. /\ at \in Nat \ {0} /\ Len(log) \in Nat /\ at + 1 <= Len(log)
      /\ Checked(log[at]) = Checked(r) /\ log \in Seq(Records)
  <2>1. at \in Nat \ {0} /\ Len(log) \in Nat /\ log \in Seq(Records)
    BY <1>1, LenProperties DEF IInv, Typed, SessionTyped, Passed, Replaying
  <2>2. Len(asked) = 1 /\ DOMAIN asked = {1} /\ asked[1] = r
    OBVIOUS
  <2> HIDE DEF asked, r
  <2>3. at + 1 <= Len(log) /\ Checked(log[at + 1 - 1]) = Checked(r)
    BY <2>2 DEF Matches, asked, r
  <2>4. at + 1 - 1 = at
    BY <2>1
  <2> QED BY <2>1, <2>3, <2>4
<1>4. log[at] \in Records /\ at \in 1..Len(log)
  BY <1>3
<1>5. log[at].rec = "TaskReg" /\ log[at].id = nextTask
  <2>1. Checked(log[at]).rec = log[at].rec /\ Checked(log[at]).id = log[at].id
    BY <1>4 DEF Checked, Records
  <2>2. Checked(r).rec = "TaskReg" /\ Checked(r).id = nextTask
    BY DEF Checked, TaskReg, Rec
  <2> QED BY <1>3, <2>1, <2>2
<1>6. p[turnNo][opNo + 1] = p[turnNo][opNo] + 1 /\ awaited = 0
  BY <1>1, <1>2, <1>5, StepPlaces
<1>7. at = p[turnNo][opNo] + 1 /\ p[turnNo][opNo] \in Nat
  BY <1>1, <1>2, <1>6, Standing DEF Ahead
<1>8. Wrote(ThisOp, p[turnNo][opNo], p[turnNo][opNo + 1], log, kinds)
  BY <1>1, <1>2, NextStep
<1>9. /\ ThisOp.saw \in DOMAIN kinds /\ kinds[ThisOp.saw] = kind
      /\ log[at] = TaskReg(ThisOp.saw, TaskKind(kind))
  BY <1>1, <1>6, <1>7, <1>8 DEF Wrote
<1>10. log[at].id = ThisOp.saw
  BY <1>9 DEF TaskReg, Rec
<1> QED BY <1>1, <1>4, <1>5, <1>9, <1>10, RegisteredHere

LEMMA RegisteredByReady ==
  ASSUME IInv, PageReplays(<<"ready", 0>>), log[at].value = 0,
         Matches(<<PlatformValue(0, "ready", None), TaskReg(nextTask, "platform")>>)
  PROVE  nextTask \in 1..Len(kinds) /\ kinds[nextTask] = "ready"
<1> DEFINE r == PlatformValue(0, "ready", None)
           t == TaskReg(nextTask, "platform")
           asked == <<r, t>>
<1>1. Replaying /\ HasOp /\ ThisOp.op = <<"ready", 0>>
  BY DEF PageReplays
<1>2. PICK p : Keeps(p)
  BY DEF IInv
<1>3. /\ at \in Nat \ {0} /\ Len(log) \in Nat /\ at + 2 <= Len(log)
      /\ Checked(log[at + 1]) = Checked(t) /\ log \in Seq(Records)
  <2>1. at \in Nat \ {0} /\ Len(log) \in Nat /\ log \in Seq(Records)
    BY <1>1, LenProperties DEF IInv, Typed, SessionTyped, Passed, Replaying
  <2>2. Len(asked) = 2 /\ DOMAIN asked = {1, 2} /\ asked[2] = t
    OBVIOUS
  <2> HIDE DEF asked, r, t
  <2>3. at + 2 <= Len(log) /\ Checked(log[at + 2 - 1]) = Checked(t)
    BY <2>2 DEF Matches, asked, r, t
  <2>4. at + 2 - 1 = at + 1
    BY <2>1
  <2> QED BY <2>1, <2>3, <2>4
<1>4. log[at + 1] \in Records /\ at + 1 \in 1..Len(log)
  BY <1>3
<1>5. log[at + 1].rec = "TaskReg" /\ log[at + 1].id = nextTask
  <2>1. Checked(log[at + 1]).rec = log[at + 1].rec /\ Checked(log[at + 1]).id = log[at + 1].id
    BY <1>4 DEF Checked, Records
  <2>2. Checked(t).rec = "TaskReg" /\ Checked(t).id = nextTask
    BY DEF Checked, TaskReg, Rec
  <2> QED BY <1>3, <2>1, <2>2
<1>6. p[turnNo][opNo + 1] = p[turnNo][opNo] + 2 /\ awaited = 0
  BY <1>1, <1>2, StepPlaces
<1>7. at = p[turnNo][opNo] + 1 /\ p[turnNo][opNo] \in Nat
  BY <1>1, <1>2, <1>6, Standing DEF Ahead
<1>8. Wrote(ThisOp, p[turnNo][opNo], p[turnNo][opNo + 1], log, kinds)
  BY <1>1, <1>2, NextStep
<1>9. /\ ThisOp.saw \in DOMAIN kinds /\ kinds[ThisOp.saw] = "ready"
      /\ log[at + 1] = TaskReg(ThisOp.saw, "platform")
  <2>1. p[turnNo][opNo + 1] = at + 1 /\ p[turnNo][opNo] + 2 # p[turnNo][opNo] + 1
    BY <1>6, <1>7
  <2> QED BY <1>1, <1>6, <1>8, <2>1 DEF Wrote
<1>10. log[at + 1].id = ThisOp.saw
  BY <1>9 DEF TaskReg, Rec
<1> QED BY <1>1, <1>4, <1>5, <1>9, <1>10, RegisteredHere

LEMMA ChangesKept ==
  ASSUME TypeInv, Replaying, Kept, UNCHANGED <<handlers, starters, started, awaited>>
  PROVE  handlers' \subseteq DOMAIN kinds /\ ImportsHeld'
<1>1. kinds' = kinds
  BY DEF Kept, recorder
<1> QED BY <1>1 DEF TypeInv, ReplayBounds, ImportsHeld

LEMMA PageReplayedBounds ==
  ASSUME TypeInv, PageReplayed
  PROVE  ReplayBounds'
<1>1. /\ nextTask \in Nat \ {0} /\ kinds \in Seq(Kinds) /\ Len(kinds) \in Nat
      /\ DOMAIN kinds = 1..Len(kinds) /\ IInv /\ ReplayBounds
  BY LenProperties DEF TypeInv, IInv, Typed, SessionTyped, RecorderTyped
<1>2. Replaying /\ UNCHANGED recorder
  BY DEF PageReplayed, ReadAgain, ReadOwnAgain, RegisterAgain, MakeAgain, ClearAgain,
         ReadReadyAgain, UseRefusedAgain, EndTurnAgain, TurnOverAgain, PageReplays
<1>3. nextTask <= Len(kinds) + 1
  BY <1>1, <1>2 DEF ReplayBounds, Replaying
<1>4. \A asked, saw, ids : Replays(asked, saw, ids) =>
        Kept /\ turnNo' = turnNo /\ nextTask' = nextTask + ids
  BY <1>2 DEF Replays, Kept
<1>5. \A how : Ends(how) => Kept /\ turnNo' = turnNo /\ nextTask' = nextTask
  BY <1>2 DEF Ends, Kept
<1>6. \A asked : Diverges(asked) => Kept /\ turnNo' = turnNo /\ nextTask' = nextTask
  BY <1>5 DEF Diverges
<1>7. ASSUME Kept, turnNo' = turnNo, nextTask' = nextTask,
             UNCHANGED <<handlers, starters, started, awaited>>
      PROVE  ReplayBounds'
  BY <1>2, <1>3, <1>7, ChangesKept, BoundsOn
<1>8. nextTask + 0 = nextTask
  BY <1>1
<1>9. UNCHANGED replayer => UNCHANGED <<handlers, starters, started, awaited>>
  BY DEF replayer
<1>10. \A asked, saw : Asks(asked, saw, 0, UNCHANGED replayer) =>
         /\ Kept /\ turnNo' = turnNo /\ nextTask' = nextTask
         /\ UNCHANGED <<handlers, starters, started, awaited>>
  BY <1>4, <1>6, <1>8, <1>9 DEF Asks
<1>11. CASE ReadAgain
  BY <1>7, <1>10, <1>11 DEF ReadAgain
<1>12. CASE ReadOwnAgain
  BY <1>7, <1>10, <1>12 DEF ReadOwnAgain
<1>13. CASE RegisterAgain
  <2> DEFINE asked(k) == <<TaskReg(nextTask, TaskKind(k))>>
  <2>1. PICK kind \in Calls :
          /\ PageReplays(<<"call", kind>>)
          /\ Asks(asked(kind), nextTask, 1,
                  /\ handlers' = handlers \cup {nextTask}
                  /\ starters' = IF kind = "import" THEN starters \cup {nextTask} ELSE starters
                  /\ UNCHANGED <<started, arrived, awaited, rHanded>>)
    BY <1>13 DEF RegisterAgain, Calls
  <2>2. CASE Diverges(asked(kind)) /\ UNCHANGED replayer
    BY <1>6, <1>7, <1>9, <2>2
  <2>3. CASE /\ Matches(asked(kind)) /\ Replays(asked(kind), nextTask, 1)
             /\ handlers' = handlers \cup {nextTask}
             /\ starters' = IF kind = "import" THEN starters \cup {nextTask} ELSE starters
             /\ UNCHANGED <<started, arrived, awaited, rHanded>>
    <3>1. nextTask \in 1..Len(kinds) /\ kinds[nextTask] = kind
      BY <1>1, <2>1, <2>3, RegisteredByCall
    <3>2. Kept /\ turnNo' = turnNo /\ nextTask' = nextTask + 1 /\ kinds' = kinds
      BY <1>2, <1>4, <2>3 DEF recorder
    <3>3. nextTask' <= Len(kinds) + 1 /\ handlers' \subseteq DOMAIN kinds
      BY <1>1, <2>3, <3>1, <3>2 DEF ReplayBounds
    <3>4. ImportsHeld'
      BY <1>1, <2>3, <3>1, <3>2 DEF ReplayBounds, ImportsHeld
    <3> QED BY <1>2, <3>2, <3>3, <3>4, BoundsOn
  <2> QED BY <2>1, <2>2, <2>3 DEF Asks
<1>14. CASE MakeAgain
  BY <1>4, <1>7, <1>8, <1>9, <1>14 DEF MakeAgain
<1>15. CASE ClearAgain
  <2>1. PICK id \in DOMAIN kinds : Replays(<<>>, None, 0) /\ handlers' = handlers \ {id}
    BY <1>15 DEF ClearAgain
  <2>2. UNCHANGED <<starters, started, awaited>>
    BY <1>15 DEF ClearAgain
  <2>3. Kept /\ turnNo' = turnNo /\ nextTask' = nextTask /\ kinds' = kinds
    BY <1>2, <1>4, <1>8, <2>1 DEF recorder
  <2>4. handlers' \subseteq DOMAIN kinds /\ ImportsHeld'
    BY <1>1, <2>1, <2>2, <2>3 DEF ReplayBounds, ImportsHeld
  <2> QED BY <1>2, <1>3, <2>3, <2>4, BoundsOn
<1>16. CASE ReadReadyAgain
  <2> DEFINE r == PlatformValue(0, "ready", None)
             t == TaskReg(nextTask, "platform")
             asked == <<r>>
             both == <<r>> \o <<t>>
  <2>1. PageReplays(<<"ready", 0>>)
    BY <1>16 DEF ReadReadyAgain
  <2>2. \/ (Diverges(asked) \/ Ends("diverged")) /\ UNCHANGED replayer
        \/ \E logged : Asks(asked, logged, 0, UNCHANGED replayer)
        \/ /\ Cursor.value = 0
           /\ Asks(both, nextTask, 1, /\ handlers' = handlers \cup {nextTask}
                                      /\ rHanded' = rHanded \cup {nextTask}
                                      /\ UNCHANGED <<starters, started, arrived, awaited>>)
    <3>1. CASE ~Matches(asked)
      BY <1>16, <3>1 DEF ReadReadyAgain
    <3>2. CASE Matches(asked) /\ Cursor.value = 0
      <4>1. ~(Cursor.value \in rHanded)
        BY <1>1, <3>2 DEF IInv, Typed, ReplayerTyped
      <4> QED BY <1>16, <3>2, <4>1 DEF ReadReadyAgain
    <3>3. CASE Matches(asked) /\ Cursor.value # 0
      BY <1>16, <3>3 DEF ReadReadyAgain
    <3> QED BY <3>1, <3>2, <3>3
  <2>3. CASE (Diverges(asked) \/ Ends("diverged")) /\ UNCHANGED replayer
    BY <1>5, <1>6, <1>7, <1>9, <2>3
  <2>4. CASE \E logged : Asks(asked, logged, 0, UNCHANGED replayer)
    BY <1>7, <1>10, <2>4
  <2>5. CASE Diverges(both) /\ UNCHANGED replayer
    BY <1>6, <1>7, <1>9, <2>5
  <2>6. CASE /\ Cursor.value = 0 /\ Matches(both) /\ Replays(both, nextTask, 1)
             /\ handlers' = handlers \cup {nextTask}
             /\ UNCHANGED <<starters, started, arrived, awaited>>
    <3>1. both = <<r, t>>
      <4>1. r \in Records /\ t \in Records
        BY <1>1, RecordsWritten DEF Queries, Kinds, Promises, Outcomes, Answers
      <4> QED BY <4>1, TwoWritten
    <3>2. nextTask \in 1..Len(kinds) /\ kinds[nextTask] = "ready"
      BY <1>1, <2>1, <2>6, <3>1, RegisteredByReady DEF Cursor
    <3>3. Kept /\ turnNo' = turnNo /\ nextTask' = nextTask + 1 /\ kinds' = kinds
      BY <1>2, <1>4, <2>6 DEF recorder
    <3>4. nextTask' <= Len(kinds) + 1 /\ handlers' \subseteq DOMAIN kinds
      BY <1>1, <2>6, <3>2, <3>3 DEF ReplayBounds
    <3>5. ImportsHeld'
      BY <1>1, <2>6, <3>2, <3>3 DEF ReplayBounds, ImportsHeld
    <3> QED BY <1>2, <3>3, <3>4, <3>5, BoundsOn
  <2>7. ASSUME Asks(both, nextTask, 1, /\ handlers' = handlers \cup {nextTask}
                                       /\ rHanded' = rHanded \cup {nextTask}
                                       /\ UNCHANGED <<starters, started, arrived, awaited>>),
               Cursor.value = 0
        PROVE  ReplayBounds'
    BY <2>5, <2>6, <2>7 DEF Asks
  <2> QED BY <2>2, <2>3, <2>4, <2>7
<1>17. CASE UseRefusedAgain
  <2>1. UNCHANGED replayer /\ (Ends("non-replayable") \/ Replays(<<>>, None, 0))
    BY <1>17 DEF UseRefusedAgain
  <2> QED BY <1>4, <1>5, <1>7, <1>8, <1>9, <2>1
<1>18. CASE EndTurnAgain
  BY <1>2, <1>7, <1>9, <1>18 DEF EndTurnAgain, TurnOverAgain, Kept
<1> QED BY <1>11, <1>12, <1>13, <1>14, <1>15, <1>16, <1>17, <1>18 DEF PageReplayed

LEMMA ScheduledBounds ==
  ASSUME TypeInv, Scheduled
  PROVE  ReplayBounds'
<1>1. /\ nextTask \in Nat \ {0} /\ kinds \in Seq(Kinds) /\ Len(kinds) \in Nat
      /\ IInv /\ ReplayBounds
  BY LenProperties DEF TypeInv, IInv, Typed, SessionTyped, RecorderTyped
<1>2. Replaying /\ UNCHANGED recorder /\ kinds' = kinds
  BY DEF Scheduled, AtEnd, RunTask, StartTask, MissingRead, Arrive, EvaluateAwaited, Scheduling,
         PageIdle, recorder
<1>3. nextTask <= Len(kinds) + 1 /\ nextTask + 0 = nextTask
  BY <1>1, <1>2 DEF ReplayBounds, Replaying
<1>4. \A how : Ends(how) => Kept /\ turnNo' = turnNo /\ nextTask' = nextTask
  BY <1>2 DEF Ends, Kept
<1>5. \A id, part, given, taken : BeginsAgain(id, part, given, taken, 0) =>
        Kept /\ turnNo' = turnNo + 1 /\ nextTask' = nextTask
  BY <1>2, <1>3 DEF BeginsAgain, Kept
<1>6. \A id, from : Lets(id, from) =>
        /\ Kept /\ nextTask' = nextTask
        /\ turnNo' = turnNo \/ turnNo' = turnNo + 1
  BY <1>4, <1>5 DEF Lets
<1>7. ASSUME Kept, nextTask' = nextTask, turnNo' = turnNo \/ turnNo' = turnNo + 1,
             handlers' \subseteq DOMAIN kinds, ImportsHeld'
      PROVE  ReplayBounds'
  BY <1>2, <1>3, <1>7, BoundsOn, BoundsBegun DEF TypeInv
<1>8. ASSUME UNCHANGED replayer, Kept
      PROVE  handlers' \subseteq DOMAIN kinds /\ ImportsHeld'
  BY <1>2, <1>8, ChangesKept DEF replayer
<1>9. CASE AtEnd
  BY <1>4, <1>7, <1>8, <1>9 DEF AtEnd
<1>10. CASE MissingRead
  BY <1>4, <1>7, <1>8, <1>10 DEF MissingRead
<1>11. CASE StartTask
  <2>1. /\ started' = started \cup {Starts} /\ BeginsAgain(Starts, "module", None, 0, 0)
        /\ UNCHANGED <<handlers, starters, awaited>>
    BY <1>11 DEF StartTask
  <2>2. Starts \in starters
    <3>1. Starts # 0 /\ Starts = WorkAfter
      BY <1>11 DEF StartTask, Starts
    <3> QED BY <3>1 DEF WorkAfter
  <2>3. handlers' \subseteq DOMAIN kinds /\ ImportsHeld'
    BY <1>1, <1>2, <2>1, <2>2 DEF ReplayBounds, ImportsHeld
  <2> QED BY <1>5, <1>7, <2>1, <2>3
<1>12. CASE RunTask
  <2> DEFINE id == Cursor.id
  <2>1. CASE Ends("diverged") /\ UNCHANGED replayer
    BY <1>4, <1>7, <1>8, <2>1
  <2>2. CASE /\ id \in handlers
             /\ handlers' = IF kinds[id] \in Repeats THEN handlers ELSE handlers \ {id}
             /\ UNCHANGED <<starters, started, arrived, rHanded>>
             /\ \/ /\ awaited' = id
                   /\ UNCHANGED <<phase, log, nextTask, script, turn, turnNo, opNo, verdict>>
                \/ Lets(id, 1) /\ awaited' = 0
    <3> HIDE DEF id
    <3>1. handlers' \subseteq DOMAIN kinds
      BY <1>1, <2>2 DEF ReplayBounds
    <3>2. ImportsHeld'
      BY <1>1, <1>2, <2>2 DEF ReplayBounds, ImportsHeld
    <3>3. /\ Kept /\ nextTask' = nextTask
          /\ turnNo' = turnNo \/ turnNo' = turnNo + 1
      BY <1>2, <1>6, <2>2 DEF Kept
    <3> QED BY <1>7, <3>1, <3>2, <3>3
  <2> QED BY <1>12, <2>1, <2>2 DEF RunTask
<1>13. CASE Arrive
  <2>1. PICK id \in (1..(nextTask - 1)) \ arrived :
          IF awaited = id THEN Lets(id, 0) /\ awaited' = 0
          ELSE UNCHANGED <<session, awaited>>
    BY <1>13 DEF Arrive
  <2>2. UNCHANGED <<handlers, starters, started>>
    BY <1>13 DEF Arrive
  <2>3. handlers' \subseteq DOMAIN kinds /\ ImportsHeld'
    BY <1>1, <1>2, <2>1, <2>2 DEF ReplayBounds, ImportsHeld
  <2>4. UNCHANGED session => Kept /\ nextTask' = nextTask /\ turnNo' = turnNo
    BY <1>2 DEF session, Kept
  <2> QED BY <1>6, <1>7, <2>1, <2>3, <2>4
<1>14. CASE EvaluateAwaited
  <2>1. awaited # 0 /\ kinds[awaited] = "import" /\ UNCHANGED <<handlers, starters>>
    BY <1>14 DEF EvaluateAwaited
  <2>2. \/ /\ started' = started \cup {awaited} /\ UNCHANGED awaited
           /\ BeginsAgain(awaited, "module", None, 0, 0)
        \/ Lets(awaited, 0) /\ awaited' = 0 /\ UNCHANGED started
    BY <1>14 DEF EvaluateAwaited
  <2>3. handlers' \subseteq DOMAIN kinds /\ ImportsHeld'
    BY <1>1, <1>2, <2>1, <2>2 DEF ReplayBounds, ImportsHeld
  <2> QED BY <1>5, <1>6, <1>7, <2>2, <2>3
<1> QED BY <1>9, <1>10, <1>11, <1>12, <1>13, <1>14 DEF Scheduled

LEMMA RecordedBounds ==
  ASSUME TypeInv, PageRecords \/ PlatformRecords, IInv'
  PROVE  ReplayBounds'
<1>1. phase = "record" /\ UNCHANGED replayer
  BY DEF PageRecords, PlatformRecords, PageRuns, PlatformActs, Recording,
         Read, ReadOwn, SetTimer, Observe, CallPlatform, ClearTimer, ReadReady, GetFile,
         MakeOfFile, ReadFile, UseRefused, RunTimer, RunObserver, PlatformEvent, SettlePlain,
         SettleOutcomes, TellOutcome, Evaluate, SettleImport, ReplaceFonts, EndTurn, TurnOver,
         StopRecording, Stop
<1>2. handlers' = {} /\ starters' = {} /\ started' = {}
  BY <1>1 DEF TypeInv, ReplayBounds, replayer
<1>3. CASE phase' = "record"
  BY <1>2, <1>3, UnreplayedBounds
<1>4. CASE StopRecording
  <2>1. /\ phase' = "replay" /\ nextTask' = 1
        /\ UNCHANGED <<script, turnNo, kinds, awaited>>
    BY <1>4 DEF StopRecording, Stop, recorder, replayer
  <2>2. /\ turnNo = 1 /\ awaited = 0 /\ Len(script) \in Nat /\ Len(kinds) \in Nat
    BY <1>1, LenProperties DEF TypeInv, IInv, Unreplayed, Typed, SessionTyped, RecorderTyped
  <2> QED BY <1>2, <2>1, <2>2 DEF ReplayBounds, ImportsHeld
<1>5. /\ \A op, saw, written, ids : Does(op, saw, written, ids) => phase' = phase
      /\ \A id, part, given, written, ids : Begins(id, part, given, written, ids) => phase' = phase
  BY DEF Does, Begins
<1>6. PageRecords => phase' = phase
  BY <1>5 DEF PageRecords, Read, ReadOwn, SetTimer, Observe, CallPlatform, ClearTimer, ReadReady,
         GetFile, MakeOfFile, ReadFile, UseRefused, Registers
<1>7. PlatformRecords => phase' = phase \/ StopRecording
  BY <1>5 DEF PlatformRecords, RunTimer, RunObserver, PlatformEvent, SettlePlain, SettleOutcomes,
         TellOutcome, Evaluate, SettleImport, ReplaceFonts, EndTurn, TurnOver, session
<1> QED BY <1>1, <1>3, <1>4, <1>6, <1>7

LEMMA NextTyped == TypeInv /\ [Next]_vars => TypeInv'
<1> SUFFICES ASSUME TypeInv, [Next]_vars PROVE TypeInv'
  OBVIOUS
<1>1. IInv'
  BY NextInv DEF TypeInv
<1>2. CASE PageRecords \/ PlatformRecords
  BY <1>1, <1>2, RecordedBounds DEF TypeInv
<1>3. CASE PageReplayed
  BY <1>1, <1>3, PageReplayedBounds DEF TypeInv
<1>4. CASE Scheduled
  BY <1>1, <1>4, ScheduledBounds DEF TypeInv
<1>5. CASE UNCHANGED vars
  <2>1. UNCHANGED <<phase, script, turnNo, nextTask, kinds, handlers, starters, started, awaited>>
    BY <1>5 DEF vars, session, recorder, replayer
  <2>2. ReplayBounds'
    BY <2>1 DEF TypeInv, ReplayBounds, ImportsHeld
  <2> QED BY <1>1, <2>2 DEF TypeInv
<1>6. Next => \/ PageRecords \/ PlatformRecords \/ PageReplayed \/ Scheduled
              \/ UNCHANGED vars
  BY DEF Next, Record, Replay, Finished, Platform, PageRecords, PlatformRecords, PageReplayed,
         Scheduled
<1> QED BY <1>2, <1>3, <1>4, <1>5, <1>6

(* Whatever the page uses and the platform does, and whatever the replay   *)
(* is known to get wrong: a replay runs no task the session did not        *)
(* register, mints no id past the session's (runtime.ts, registerTask),    *)
(* begins no import it does not hold (onTaskStart), and its page has at    *)
(* most one turn the recorded one had not.                                 *)
THEOREM SeamsTyped == Spec => []TypeOK
<1>1. Init => TypeInv
  <2> SUFFICES ASSUME Init PROVE TypeInv
    OBVIOUS
  <2>1. IInv /\ phase = "record" /\ handlers = {} /\ starters = {} /\ started = {} /\ awaited = 0
    BY InitInv DEF Init, SessionInit, SeamInit
  <2> QED BY <2>1 DEF TypeInv, ReplayBounds, ImportsHeld
<1>2. TypeInv /\ [Next]_vars => TypeInv'
  BY NextTyped
<1>3. TypeInv => TypeOK
  BY TypesHeld
<1> QED BY <1>1, <1>2, <1>3, PTL DEF Spec

-----------------------------------------------------------------------------
(* That a session replays as it was recorded. *)

(* What the replay is known to get wrong is left out: an import that       *)
(* settles apart from its module, a file the recorder does not know of,    *)
(* and a refusal in a page that imports (workAfter finds no held work      *)
(* before one).                                                            *)
Replayable ==
  /\ ~Apart
  /\ Ways \cap {"form", "iterable", "clone"} = {}
  /\ \A u \in Uses : "import" \in u => "refused" \notin u /\ "file" \notin u

(* Task id has not run in the first n turns, unless it repeats, nor was it *)
(* cleared.                                                                *)
Unspent(id, n, scr, ks) ==
  \A t \in 1..n :
    /\ scr[t].part = "task" /\ scr[t].id = id => ks[id] \in Repeats
    /\ \A j \in 1..Len(scr[t].ops) : scr[t].ops[j].op # <<"clear", id>>
ModuleOf(id, u) == u.part = "module" /\ u.id = id

(* A turn may follow those before it: a task runs once, a module is        *)
(* evaluated once and its import settles next.                             *)
Follow(t, scr, ks) ==
  /\ scr[t].part \in {"task", "module", "event"}
  /\ scr[t].part \in {"task", "module"} => scr[t].id \in DOMAIN ks
  /\ scr[t].part = "task" =>
       /\ Unspent(scr[t].id, t - 1, scr, ks)
       /\ ks[scr[t].id] = "import" => ModuleOf(scr[t].id, scr[t - 1])
  /\ scr[t].part = "module" =>
       /\ ks[scr[t].id] = "import"
       /\ \A s \in 1..t - 1 : ~ModuleOf(scr[t].id, scr[s])
  /\ scr[t - 1].part = "module" => scr[t].part = "task" /\ scr[t].id = scr[t - 1].id
Turned(scr, ks) ==
  scr[1].part = "script" /\ \A t \in 2..Len(scr) : Follow(t, scr, ks)

(* The recorder's state tells of the session so far.                       *)
Pending == live \cup {settled[i] : i \in DOMAIN settled}
LastTurn == script[Len(script)]
RecorderTold ==
  phase = "record" =>
    /\ \A id \in Pending : Unspent(id, Len(script), script, kinds)
    /\ \A i \in DOMAIN settled : settled[i] \notin live
    /\ \A i, j \in DOMAIN settled : settled[i] = settled[j] => i = j
    /\ LastTurn.part = "module" => LastTurn.id \in live
    /\ \A id \in live : Evaluated(id) => ModuleOf(id, LastTurn)
    /\ \A i \in DOMAIN userContent : userContent[i] /\ "file" \in page
    /\ started = {}

(* A file is read after a Refusal.                                         *)
Withheld ==
  \A i \in 1..Len(log) :
    log[i].rec = "TaskReg" /\ kinds[log[i].id] = "file" => \E j \in 1..i - 1 : log[j] = Refusal

PageTold ==
  /\ page \in Uses
  /\ \A id \in DOMAIN kinds : kinds[id] = "import" => "import" \in page
  /\ \A i \in 1..Len(log) : log[i].rec = "Refusal" => "refused" \in page \/ "file" \in page
  /\ phase = "replay" => LastTurn.part # "module"

(* The replay's state tells of the session as far as it is replayed: the   *)
(* first a - 1 records, and the turns to tno.                              *)
RegisteredTold(a, n) == \A id \in Nat : Registered(id, a - 1, log) <=> id \in 1..n - 1
HandlersTold(n, waits, tno, hs, ss) ==
  \A id \in 1..n - 1 :
    /\ id # waits /\ Unspent(id, tno, script, kinds) => id \in hs
    /\ kinds[id] = "import" => id \in ss
StartedTold(tno, S) == \A id \in Nat : id \in S <=> \E t \in 1..tno : ModuleOf(id, script[t])
HandedAgain(a, S) ==
  /\ \A j \in 1..a - 2 : log[j] = Ready(0) => log[j + 1].id \in S
  /\ a > 1 => log[a - 1] # Ready(0)
AwaitedTold(a, waits) ==
  waits # 0 => /\ log[a - 1] = Task(waits, "platform")
               /\ WaitsFor(waits) \/ kinds[waits] = "import"
ReplayTold ==
  phase = "replay" /\ verdict = "running" =>
    /\ RegisteredTold(at, nextTask)
    /\ HandlersTold(nextTask, awaited, turnNo, handlers, starters)
    /\ StartedTold(turnNo, started)
    /\ HandedAgain(at, rHanded)
    /\ AwaitedTold(at, awaited)

Verdict ==
  /\ verdict \in {"running", "done", "non-replayable"}
  /\ verdict = "done" => turnNo = Len(script) /\ ~HasOp

SessionTold == Turned(script, kinds) /\ Withheld /\ PageTold
ReplayInv == IInv /\ SessionTold /\ RecorderTold /\ ReplayTold /\ Verdict

-----------------------------------------------------------------------------
(* A set of naturals that holds 0 and its members' successors holds all.   *)
LEMMA LeastOf ==
  ASSUME NEW T \in SUBSET Nat, T # {}
  PROVE  \E x \in T : \A y \in T : x <= y
<1> DEFINE R == {q \in Nat \X Nat : q[1] < q[2]}
<1>1. IsWellFoundedOn(R, Nat)
  BY NatLessThanWellFounded DEF OpToRel
<1> HIDE DEF R
<1>2. PICK x \in T : \A y \in T : ~(<<y, x>> \in R)
  BY <1>1, WFMin
<1>3. \A y \in T : y < x => <<y, x>> \in R
  BY DEF R
<1>4. ASSUME NEW y \in T PROVE x <= y
  <2>1. ~(y < x)
    BY <1>2, <1>3
  <2> QED BY <2>1
<1> QED BY <1>4

LEMMA EveryNat ==
  ASSUME NEW S, 0 \in S, \A n \in Nat : n \in S => n + 1 \in S
  PROVE  \A n \in Nat : n \in S
<1> DEFINE T == {n \in Nat : n \notin S}
<1> SUFFICES ASSUME T # {} PROVE FALSE
  OBVIOUS
<1>1. PICK x \in T : \A y \in T : x <= y
  BY LeastOf
<1>2. x \in Nat /\ x # 0 /\ x - 1 \in Nat /\ ~(x <= x - 1) /\ (x - 1) + 1 = x
  BY <1>1
<1>3. x - 1 \in S
  BY <1>1, <1>2
<1> QED BY <1>1, <1>2, <1>3

(* What the records are, that a read or a task is told by.                 *)
LEMMA RecordsTell ==
  /\ \A what \in Reads : \A v :
       /\ ReadRecord(what, v).value = v /\ ReadRecord(what, v) # Ready(0)
       /\ ReadRecord(what, v).rec \in {"Clock", "Random", "PlatformValue", "StorageRead"}
       /\ Checked(ReadRecord(what, v)) = Checked(ReadAsks(what))
  /\ \A id, q, v : /\ PlatformValue(id, q, v).value = v
                   /\ PlatformValue(id, q, v).rec = "PlatformValue"
                   /\ PlatformValue(id, q, v).id = id /\ PlatformValue(id, q, v).query = q
                   /\ Checked(PlatformValue(id, q, v)) = Checked(PlatformValue(id, q, None))
  /\ \A q, v : /\ Clock(q, v).value = v /\ Clock(q, v).rec = "Clock"
               /\ Checked(Clock(q, v)) = Checked(Clock(q, None))
  /\ \A id, k : TaskReg(id, k).rec = "TaskReg" /\ TaskReg(id, k).id = id
  /\ \A id, k : Task(id, k).rec = "Task" /\ Task(id, k).id = id /\ Task(id, k).query = k
  /\ Refusal.rec = "Refusal" /\ End.rec = "End"
  /\ Ready(0).rec = "PlatformValue" /\ Ready(0).id = 0 /\ Ready(0).query = "ready"
  BY DEF ReadRecord, ReadAsks, Reads, patchClocks, patchRandom, patchStateReads,
         patchEventCounts, patchNotifications, patchMediaSeams, patchPerformance, patchStorage,
         patchStorageShape, patchCookie, replayClocks, replayRandom, replayStateReads,
         replayEventCounts, replayNotifications, replayMediaSeams, replayPerformance,
         replayStorage, replayStorageShape, replayCookie, Clock, PlatformValue, StorageRead,
         TaskReg, Task, Ready, Refusal, End, Rec, Checked

(* The log and the session, and where the replay is in both.               *)
LEMMA Here ==
  ASSUME IInv, Replaying, NEW p, Keeps(p)
  PROVE  /\ log \in Seq(Records) /\ Len(log) \in Nat \ {0} /\ at \in 1..Len(log)
         /\ log[Len(log)] = End /\ Told = Len(log) - 1
         /\ \A i \in 1..Len(log) - 1 : log[i].rec # "End"
         /\ \A i \in 1..at - 1 : log[i].rec # "Refusal"
         /\ script \in Seq(Turns) /\ Len(script) \in Nat \ {0} /\ DOMAIN script = 1..Len(script)
         /\ kinds \in Seq(Kinds) /\ Len(kinds) \in Nat /\ DOMAIN kinds = 1..Len(kinds)
         /\ nextTask \in Nat \ {0} /\ awaited \in Nat /\ rHanded \subseteq Nat \ {0}
         /\ turnNo \in 1..Len(script) /\ opNo \in 0..Len(script[turnNo].ops)
         /\ Len(script[turnNo].ops) \in Nat
         /\ p[turnNo][opNo] \in 0..Len(log) - 1
         /\ awaited = 0 => at = p[turnNo][opNo] + 1
         /\ awaited # 0 => at = p[turnNo][opNo] + 2 /\ log[p[turnNo][opNo] + 1].rec = "Task"
         /\ ~turn => opNo = Len(script[turnNo].ops)
         /\ phase = "replay" /\ verdict = "running"
<1>1. /\ log \in Seq(Records) /\ script \in Seq(Turns) /\ kinds \in Seq(Kinds)
      /\ nextTask \in Nat \ {0} /\ awaited \in Nat /\ rHanded \subseteq Nat \ {0}
  BY DEF IInv, Typed, SessionTyped, RecorderTyped, ReplayerTyped
<1>2. Len(log) \in Nat /\ Len(script) \in Nat /\ Len(kinds) \in Nat
      /\ DOMAIN script = 1..Len(script) /\ DOMAIN kinds = 1..Len(kinds)
  BY <1>1, LenProperties
<1>3. /\ turnNo \in 1..Len(script) /\ Len(script[turnNo].ops) \in Nat
      /\ opNo \in 0..Len(script[turnNo].ops)
      /\ p[turnNo][opNo] \in Nat /\ at = p[turnNo][opNo] + 1 + Ahead
      /\ at \in 1..Len(log) /\ log[Len(log)] = End
      /\ awaited # 0 => log[p[turnNo][opNo] + 1].rec = "Task"
      /\ ~turn => opNo = Len(script[turnNo].ops)
      /\ phase = "replay" /\ verdict = "running"
  BY Standing
<1>4. /\ Told = Len(log) - 1 /\ Len(log) \in Nat \ {0} /\ \A i \in 1..Told : log[i].rec # "End"
      /\ \A i \in 1..at - 1 : log[i].rec # "Refusal"
  BY <1>3 DEF Told, IInv, LogWhole, Passed
<1> DEFINE a == p[turnNo][opNo]
<1>5. a \in Nat /\ at = a + 1 + Ahead /\ at \in 1..Len(log)
  BY <1>3
<1> HIDE DEF a
<1>6. /\ a \in 0..Len(log) - 1 /\ (awaited = 0 => at = a + 1) /\ (awaited # 0 => at = a + 2)
  BY <1>2, <1>5 DEF Ahead
<1>7. Len(script) \in Nat \ {0}
  BY <1>2, <1>3
<1> QED BY <1>1, <1>2, <1>3, <1>4, <1>6, <1>7 DEF a

(* The next task a log registers is the replay's next.                     *)
LEMMA SameNext ==
  ASSUME NEW m \in Nat \ {0}, NEW n \in Nat \ {0}, \A id \in Nat : id \in 1..m - 1 <=> id \in 1..n - 1
  PROVE  m = n
<1>1. m \in 1..m - 1 <=> m \in 1..n - 1
  OBVIOUS
<1>2. n \in 1..m - 1 <=> n \in 1..n - 1
  OBVIOUS
<1> QED BY <1>1, <1>2

(* A step of a page that was refused nothing wrote no Task.                *)
LEMMA WroteReads ==
  ASSUME NEW step, NEW lg \in Seq(Records), NEW ks, NEW a \in Nat, NEW b \in 0..Len(lg),
         Wrote(step, a, b, lg, ks), \A i \in 1..Len(lg) : lg[i].rec # "Refusal"
  PROVE  a <= b /\ \A i \in a + 1..b : lg[i].rec \notin {"Task", "End", "Refusal"}
<1> DEFINE other == {"Clock", "Random", "PlatformValue", "StorageRead", "TaskReg"}
<1>0. Refusal.rec = "Refusal"
  BY RecordsTell
<1>1. b \in Nat /\ b <= Len(lg)
  BY LenProperties
<1>2. \A i \in 1..b : lg[i].rec # "Refusal" /\ lg[i] # Refusal
  <2>1. \A i \in 1..b : i \in 1..Len(lg)
    BY <1>1, LenProperties
  <2> QED BY <1>0, <2>1
<1>3. CASE step.op[1] = "read"
  <2>1. b = a + 1 /\ step.op[2] \in Reads /\ lg[b] = ReadRecord(step.op[2], step.saw)
    BY <1>3 DEF Wrote
  <2>2. lg[b].rec \in other
    BY <2>1, RecordsTell
  <2>3. \A i \in a + 1..b : i = b
    BY <1>1, <2>1
  <2> QED BY <1>1, <2>1, <2>2, <2>3
<1>4. CASE step.op[1] = "own"
  <2>1. b = a + 1 /\ lg[b].rec \in other
    BY <1>4, RecordsTell DEF Wrote
  <2>2. \A i \in a + 1..b : i = b
    BY <1>1, <2>1
  <2> QED BY <1>1, <2>1, <2>2
<1>5. CASE step.op[1] = "call"
  <2>1. lg[b].rec \in other /\ (b = a + 1 \/ (b = a + 2 /\ lg[a + 1] = Refusal))
    BY <1>5, RecordsTell DEF Wrote
  <2>2. b = a + 2 => a + 1 \in 1..b
    OBVIOUS
  <2>3. b = a + 1
    BY <1>2, <2>1, <2>2
  <2>4. \A i \in a + 1..b : i = b
    BY <1>1, <2>3
  <2> QED BY <1>1, <2>1, <2>3, <2>4
<1>6. CASE step.op[1] = "ready"
  <2>1. \/ b = a + 2 /\ lg[a + 1].rec \in other /\ lg[b].rec \in other
        \/ b = a + 1 /\ lg[b].rec \in other
    BY <1>6, RecordsTell DEF Wrote, Ready
  <2>2. CASE b = a + 2 /\ lg[a + 1].rec \in other /\ lg[b].rec \in other
    <3>1. \A i \in a + 1..b : i = a + 1 \/ i = b
      BY <1>1, <2>2
    <3> QED BY <2>2, <3>1
  <2>3. CASE b = a + 1 /\ lg[b].rec \in other
    <3>1. \A i \in a + 1..b : i = b
      BY <1>1, <2>3
    <3> QED BY <2>3, <3>1
  <2> QED BY <2>1, <2>2, <2>3
<1>7. CASE step.op[1] \in {"clear", "get", "make"}
  <2>1. b = a
    BY <1>7 DEF Wrote
  <2> QED BY <2>1
<1>8. CASE step.op[1] = "refused"
  <2>1. \/ b = a + 1 /\ lg[b] = Refusal
        \/ b = a /\ \E i \in 1..a : lg[i] = Refusal
    BY <1>8 DEF Wrote
  <2>2. b = a + 1 => b \in 1..b
    OBVIOUS
  <2> QED BY <1>2, <2>1, <2>2
<1> QED BY <1>3, <1>4, <1>5, <1>6, <1>7, <1>8 DEF Wrote

(* And so none of its turns did, after it began.                           *)
LEMMA TurnReads ==
  ASSUME IInv, Replaying, NEW p, Keeps(p), NEW t \in DOMAIN script,
         \A i \in 1..Len(log) : log[i].rec # "Refusal"
  PROVE  LET L == Len(script[t].ops)
         IN /\ L \in Nat /\ p[t][0] \in 0..Len(log) - 1 /\ p[t][L] \in 0..Len(log) - 1
            /\ p[t][0] <= p[t][L]
            /\ \A i \in p[t][0] + 1..p[t][L] : log[i].rec \notin {"Task", "End", "Refusal"}
<1> DEFINE L == Len(script[t].ops)
           q == p[t]
<1>1. /\ log \in Seq(Records) /\ Len(log) \in Nat \ {0} /\ Told = Len(log) - 1
      /\ script[t] \in Turns
  BY Here
<1>2. L \in Nat
  BY <1>1 DEF Turns
<1>3. q \in [0..L -> 0..Len(log) - 1]
  BY <1>1 DEF Keeps, Placed, Places
<1>4. \A j \in 1..L : Wrote(script[t].ops[j], q[j - 1], q[j], log, kinds)
  BY DEF Keeps, Placed
<1> HIDE DEF L, q
<1> DEFINE S == {j \in Nat : j <= L =>
                   /\ q[0] <= q[j]
                   /\ \A i \in q[0] + 1..q[j] : log[i].rec \notin {"Task", "End", "Refusal"}}
<1>5. 0 \in S
  <2>1. 0 \in 0..L
    BY <1>2
  <2>2. q[0] \in 0..Len(log) - 1
    BY <1>3, <2>1
  <2>3. q[0] <= q[0] /\ \A i \in q[0] + 1..q[0] : FALSE
    BY <1>1, <2>2
  <2> QED BY <2>3
<1>6. ASSUME NEW j \in Nat, j \in S
      PROVE  j + 1 \in S
  <2> SUFFICES ASSUME j + 1 <= L
               PROVE  /\ q[0] <= q[j + 1]
                      /\ \A i \in q[0] + 1..q[j + 1] : log[i].rec \notin {"Task", "End", "Refusal"}
    OBVIOUS
  <2>1. j \in 0..L /\ j + 1 \in 0..L /\ j + 1 \in 1..L /\ (j + 1) - 1 = j /\ j <= L /\ 0 \in 0..L
    BY <1>2
  <2>2. q[j] \in 0..Len(log) - 1 /\ q[j + 1] \in 0..Len(log) - 1 /\ q[0] \in 0..Len(log) - 1
    BY <1>3, <2>1
  <2>3. q[j] \in Nat /\ q[j + 1] \in 0..Len(log) /\ q[j + 1] \in Nat /\ q[0] \in Nat
    BY <1>1, <2>2
  <2>4. Wrote(script[t].ops[j + 1], q[j], q[j + 1], log, kinds)
    BY <1>4, <2>1
  <2>5. /\ q[j] <= q[j + 1]
        /\ \A i \in q[j] + 1..q[j + 1] : log[i].rec \notin {"Task", "End", "Refusal"}
    BY <1>1, <2>3, <2>4, WroteReads
  <2>6. /\ q[0] <= q[j]
        /\ \A i \in q[0] + 1..q[j] : log[i].rec \notin {"Task", "End", "Refusal"}
    BY <1>6, <2>1
  <2>7. \A i \in q[0] + 1..q[j + 1] : i \in q[0] + 1..q[j] \/ i \in q[j] + 1..q[j + 1]
    BY <2>3
  <2> QED BY <2>3, <2>5, <2>6, <2>7
<1>7. \A j \in Nat : j \in S
  <2> HIDE DEF S
  <2> QED BY <1>5, <1>6, EveryNat
<1>8. /\ q[0] <= q[L]
      /\ \A i \in q[0] + 1..q[L] : log[i].rec \notin {"Task", "End", "Refusal"}
  <2>1. L \in S /\ L <= L
    BY <1>2, <1>7
  <2> QED BY <2>1
<1>9. q[0] \in 0..Len(log) - 1 /\ q[L] \in 0..Len(log) - 1
  <2>1. 0 \in 0..L /\ L \in 0..L
    BY <1>2
  <2> QED BY <1>3, <2>1
<1> QED BY <1>2, <1>8, <1>9 DEF L, q

(* What the page's turn comes to, where the replay is quiescent: the log   *)
(* ends there, or tells of the next turn, or of the module's import that   *)
(* is next (its Task follows the reads of the module).                     *)
EndsAt(a) == turnNo = Len(script) /\ log[a + 1] = End
TaskAt(a, u) ==
  /\ u.part = "task" /\ u.id \in DOMAIN kinds /\ Registered(u.id, a, log)
  /\ Unspent(u.id, turnNo, script, kinds)
  /\ log[a + 1] = Task(u.id, TaskKind(kinds[u.id]))
  /\ IF kinds[u.id] \in Reads1 THEN GivenTo(u, kinds[u.id], log[a + 2])
     ELSE u.given = None /\ kinds[u.id] # "file"
  /\ kinds[u.id] = "import" => ModuleOf(u.id, script[turnNo])
ModuleAt(a, u) ==
  /\ u.part = "module" /\ u.given = None /\ u.id \in DOMAIN kinds /\ Registered(u.id, a, log)
  /\ Unspent(u.id, turnNo, script, kinds) /\ kinds[u.id] = "import"
  /\ \A s \in 1..turnNo : ~ModuleOf(u.id, script[s])
  /\ \E n \in a + 1..Len(log) :
       /\ log[n] = Task(u.id, "platform")
       /\ \A i \in a + 1..n - 1 : log[i].rec \notin {"Task", "End", "Refusal"}

(* Nothing a replay goes on past was refused, nor a file read.             *)
LEMMA NoFileHere ==
  ASSUME IInv, Replaying, Withheld, NEW id \in Nat, NEW a \in 0..at - 1, Registered(id, a, log)
  PROVE  kinds[id] # "file"
<1>1. /\ at \in 1..Len(log) /\ Len(log) \in Nat /\ \A i \in 1..at - 1 : log[i].rec # "Refusal"
  BY LenProperties DEF IInv, Passed, Replaying, Typed, SessionTyped
<1>2. PICK i \in 1..a : log[i].rec = "TaskReg" /\ log[i].id = id
  BY DEF Registered
<1>3. i \in 1..Len(log) /\ \A j \in 1..i - 1 : j \in 1..at - 1
  BY <1>1
<1>4. Refusal.rec = "Refusal"
  BY RecordsTell
<1> QED BY <1>1, <1>2, <1>3, <1>4 DEF Withheld

LEMMA NextTurn ==
  ASSUME Replayable, IInv, SessionTold, Replaying, ~turn, NEW p, Keeps(p)
  PROVE  LET a == p[turnNo][opNo]
             u == script[turnNo + 1]
         IN \/ EndsAt(a)
            \/ turnNo < Len(script) /\ TaskAt(a, u)
            \/ turnNo < Len(script) /\ log[a + 1] = Refusal
            \/ turnNo < Len(script) /\ ModuleAt(a, u)
<1> DEFINE a == p[turnNo][opNo]
           u == script[turnNo + 1]
           b == p[turnNo + 1][0]
<1>1. /\ log \in Seq(Records) /\ Len(log) \in Nat \ {0} /\ at \in 1..Len(log)
      /\ log[Len(log)] = End /\ Told = Len(log) - 1
      /\ \A i \in 1..at - 1 : log[i].rec # "Refusal"
      /\ script \in Seq(Turns) /\ Len(script) \in Nat \ {0} /\ DOMAIN script = 1..Len(script)
      /\ turnNo \in 1..Len(script) /\ opNo = Len(script[turnNo].ops)
      /\ a \in 0..Len(log) - 1 /\ (at = a + 1 \/ at = a + 2)
      /\ phase = "replay"
  BY Here
<1>11. ASSUME NEW x \in 0..Len(log) - 1, at = x + 1 \/ at = x + 2
       PROVE  x \in 0..at - 1 /\ x + 1 \in 1..Len(log) /\ \A i \in 1..x : i \in 1..at - 1
  <2>1. Len(log) \in Nat /\ at \in Nat
    BY <1>1
  <2> QED BY <1>11, <2>1
<1>12. turnNo \in Nat /\ Len(script) \in Nat
  BY <1>1
<1>2. CASE turnNo = Len(script)
  <2>1. a = Told
    BY <1>1, <1>2 DEF Keeps, Placed
  <2>2. a + 1 = Len(log)
    BY <1>1, <2>1
  <2> QED BY <1>1, <1>2, <2>2 DEF EndsAt
<1>3. CASE turnNo < Len(script)
  <2>0. turnNo \in 1..Len(script) - 1 /\ turnNo + 1 \in 2..Len(script) /\ u \in Turns
        /\ turnNo + 1 \in DOMAIN script /\ (turnNo + 1) - 1 = turnNo
    BY <1>1, <1>3
  <2>1. Opened(u, a, b, log, kinds)
    BY <1>1, <2>0 DEF Keeps, Placed
  <2>2. Follow(turnNo + 1, script, kinds)
    BY <2>0 DEF SessionTold, Turned
  <2>21. a \in 0..at - 1 /\ a + 1 \in 1..Len(log) /\ \A i \in 1..a : i \in 1..at - 1
    BY <1>1, <1>11
  <2>3. CASE u.part = "task"
    <3>1. /\ u.id \in DOMAIN kinds /\ Registered(u.id, a, log)
          /\ log[a + 1] = Task(u.id, TaskKind(kinds[u.id]))
          /\ IF kinds[u.id] \in Reads1 THEN GivenTo(u, kinds[u.id], log[a + 2])
             ELSE u.given = None \/ kinds[u.id] = "file"
      BY <2>1, <2>3 DEF Opened
    <3>2. /\ Unspent(u.id, turnNo, script, kinds)
          /\ kinds[u.id] = "import" => ModuleOf(u.id, script[turnNo])
      BY <2>0, <2>2, <2>3 DEF Follow
    <3>3. kinds[u.id] # "file"
      <4>1. u.id \in Nat
        BY <2>0 DEF Turns
      <4> QED BY <2>21, <3>1, <4>1, NoFileHere DEF SessionTold
    <3>4. TaskAt(a, u)
      BY <2>3, <3>1, <3>2, <3>3 DEF TaskAt
    <3> QED BY <1>3, <3>4
  <2>4. CASE u.part = "event"
    <3>1. \/ b = a + 1 /\ log[b] = Refusal
          \/ b = a /\ \E i \in 1..a : log[i] = Refusal
      BY <2>1, <2>4 DEF Opened
    <3>2. \A i \in 1..a : log[i] # Refusal
      BY <1>1, <2>21, RecordsTell
    <3>3. log[a + 1] = Refusal
      BY <3>1, <3>2
    <3> QED BY <1>3, <3>3
  <2>5. CASE u.part = "module"
    <3>1. b = a /\ u.given = None /\ Registered(u.id, a, log)
      BY <2>1, <2>5 DEF Opened
    <3>2. /\ u.id \in DOMAIN kinds /\ kinds[u.id] = "import"
          /\ \A s \in 1..turnNo : ~ModuleOf(u.id, script[s])
      BY <2>0, <2>2, <2>5 DEF Follow
    <3>3. \A i \in 1..Len(log) : log[i].rec # "Refusal"
      BY <3>2 DEF Replayable, SessionTold, PageTold
    <3>4. turnNo + 1 < Len(script)
      <4>1. turnNo + 1 # Len(script)
        BY <1>1, <2>5 DEF SessionTold, PageTold, LastTurn
      <4> QED BY <1>3, <1>12, <4>1
    <3> DEFINE L == Len(u.ops)
               c == p[turnNo + 1][L]
               v == script[turnNo + 2]
    <3>5. /\ L \in Nat /\ b \in 0..Len(log) - 1 /\ c \in 0..Len(log) - 1 /\ b <= c
          /\ \A i \in b + 1..c : log[i].rec \notin {"Task", "End", "Refusal"}
      BY <2>0, <3>3, TurnReads
    <3>6. /\ turnNo + 2 \in 2..Len(script) /\ (turnNo + 2) - 1 = turnNo + 1
          /\ turnNo + 1 \in 1..Len(script) - 1 /\ (turnNo + 1) + 1 = turnNo + 2
      BY <1>1, <3>4
    <3>7. Follow(turnNo + 2, script, kinds)
      BY <3>6 DEF SessionTold, Turned
    <3>8. v.part = "task" /\ v.id = u.id
      BY <2>5, <3>6, <3>7 DEF Follow
    <3>9. Opened(v, c, p[turnNo + 2][0], log, kinds)
      BY <3>6 DEF Keeps, Placed
    <3>10. log[c + 1] = Task(u.id, TaskKind("import"))
      BY <3>2, <3>8, <3>9 DEF Opened
    <3>11. TaskKind("import") = "platform"
      BY DEF TaskKind, Timers
    <3>12. Unspent(u.id, turnNo, script, kinds)
      <4>1. Unspent(u.id, turnNo + 1, script, kinds)
        BY <3>6, <3>7, <3>8 DEF Follow
      <4>2. \A t \in 1..turnNo : t \in 1..turnNo + 1
        BY <1>1
      <4> QED BY <4>1, <4>2 DEF Unspent
    <3> HIDE DEF c, L, v, u, b, a
    <3>13. /\ c + 1 \in a + 1..Len(log)
           /\ \A i \in a + 1..(c + 1) - 1 : log[i].rec \notin {"Task", "End", "Refusal"}
      <4>1. c + 1 \in a + 1..Len(log)
        BY <1>1, <3>1, <3>5
      <4>2. \A i \in a + 1..(c + 1) - 1 : i \in b + 1..c
        BY <1>1, <3>1, <3>5
      <4> QED BY <3>5, <4>1, <4>2
    <3>14. ModuleAt(a, u)
      BY <2>5, <3>1, <3>2, <3>10, <3>11, <3>12, <3>13 DEF ModuleAt
    <3> QED BY <1>3, <3>14 DEF a, u
  <2> QED BY <2>2, <2>0, <2>3, <2>4, <2>5 DEF Follow
<1> QED BY <1>1, <1>2, <1>3

-----------------------------------------------------------------------------
(* The replay goes on past a record. *)
LEMMA RegisteredOn ==
  ASSUME NEW lg, NEW m \in Nat, NEW id
  PROVE  Registered(id, m + 1, lg) <=>
           Registered(id, m, lg) \/ (lg[m + 1].rec = "TaskReg" /\ lg[m + 1].id = id)
<1>1. \A i \in 1..m + 1 : i \in 1..m \/ i = m + 1
  OBVIOUS
<1>2. m + 1 \in 1..m + 1 /\ \A i \in 1..m : i \in 1..m + 1
  OBVIOUS
<1> QED BY <1>1, <1>2 DEF Registered

LEMMA PastRecord ==
  ASSUME NEW a \in Nat \ {0}, NEW n \in Nat \ {0}, RegisteredTold(a, n),
         log[a].rec # "TaskReg" \/ (log[a].rec = "TaskReg" /\ log[a].id = n)
  PROVE  RegisteredTold(a + 1, IF log[a].rec = "TaskReg" THEN n + 1 ELSE n)
<1>1. a - 1 \in Nat /\ (a - 1) + 1 = a /\ (a + 1) - 1 = a /\ (n + 1) - 1 = n
  OBVIOUS
<1>2. \A id \in Nat : Registered(id, a, log) <=>
        Registered(id, a - 1, log) \/ (log[a].rec = "TaskReg" /\ log[a].id = id)
  <2> DEFINE m == a - 1
  <2>1. m \in Nat /\ m + 1 = a
    BY <1>1
  <2> HIDE DEF m
  <2>2. \A id : Registered(id, m + 1, log) <=>
          Registered(id, m, log) \/ (log[m + 1].rec = "TaskReg" /\ log[m + 1].id = id)
    BY <2>1, RegisteredOn
  <2>3. \A id : Registered(id, a, log) <=>
          Registered(id, m, log) \/ (log[a].rec = "TaskReg" /\ log[a].id = id)
    BY <2>1, <2>2
  <2> QED BY <2>3 DEF m
<1>3. \A id \in Nat : id \in 1..n <=> id \in 1..n - 1 \/ id = n
  OBVIOUS
<1> QED BY <1>1, <1>2, <1>3 DEF RegisteredTold

LEMMA PastHanded ==
  ASSUME NEW a \in Nat \ {0}, NEW S, HandedAgain(a, S), log[a] # Ready(0)
  PROVE  HandedAgain(a + 1, S)
<1>1. (a + 1) - 2 = a - 1 /\ (a + 1) - 1 = a /\ \A j \in 1..a - 1 : j \in 1..a - 2 \/ (j = a - 1 /\ a > 1)
  OBVIOUS
<1> QED BY <1>1 DEF HandedAgain

LEMMA PastHanding ==
  ASSUME NEW a \in Nat \ {0}, NEW S, HandedAgain(a, S), log[a + 1] # Ready(0)
  PROVE  HandedAgain(a + 2, S \cup {log[a + 1].id})
<1>1. (a + 2) - 2 = a /\ (a + 2) - 1 = a + 1
      /\ \A j \in 1..a : j \in 1..a - 2 \/ (j = a - 1 /\ a > 1) \/ j = a
  OBVIOUS
<1> QED BY <1>1 DEF HandedAgain

LEMMA ToldAgain ==
  ASSUME UNCHANGED <<phase, log, script, kinds>>, RegisteredTold(at', nextTask'),
         HandlersTold(nextTask', awaited', turnNo', handlers', starters'),
         StartedTold(turnNo', started'), HandedAgain(at', rHanded'),
         AwaitedTold(at', awaited')
  PROVE  ReplayTold'
  BY DEF ReplayTold, RegisteredTold, HandlersTold, StartedTold, HandedAgain, AwaitedTold,
         WaitsFor

LEMMA ToldHere ==
  ASSUME ReplayTold, Replaying
  PROVE  /\ RegisteredTold(at, nextTask)
         /\ HandlersTold(nextTask, awaited, turnNo, handlers, starters)
         /\ StartedTold(turnNo, started) /\ HandedAgain(at, rHanded)
         /\ AwaitedTold(at, awaited)
  BY DEF ReplayTold, Replaying

(* The replay ends as it should. *)
LEMMA EndsTold ==
  ASSUME Replaying, NEW how \in {"done", "non-replayable"}, Ends(how),
         how = "done" => turnNo = Len(script) /\ ~HasOp
  PROVE  ReplayTold' /\ Verdict'
<1>1. /\ verdict' = how /\ turnNo' = turnNo /\ script' = script /\ opNo' = opNo
  BY DEF Ends
<1>2. ReplayTold'
  BY <1>1 DEF ReplayTold
<1>3. HasOp' <=> HasOp
  BY <1>1 DEF HasOp, ThisTurn
<1> QED BY <1>1, <1>2, <1>3 DEF Verdict

(* The page makes its step again, and sees what it saw.                    *)
LEMMA StepTold ==
  ASSUME IInv, ReplayTold, Replaying, HasOp, Kept, NEW asked, NEW saw, NEW ids \in {0, 1},
         NEW n \in {0, 1, 2}, Len(asked) = n, Replays(asked, saw, ids), saw = ThisOp.saw,
         awaited' = awaited, started' = started, n # 0 => awaited = 0,
         ids = 0 => starters' = starters /\ rHanded' = rHanded,
         ids = 0 => \/ handlers' = handlers
                    \/ \E id : handlers' = handlers \ {id} /\ ThisOp.op = <<"clear", id>>,
         n = 0 => ids = 0,
         n = 1 => /\ log[at] # Ready(0)
                  /\ IF ids = 0 THEN log[at].rec # "TaskReg"
                     ELSE log[at].rec = "TaskReg" /\ log[at].id = nextTask /\ rHanded' = rHanded,
         n = 2 => /\ log[at] = Ready(0) /\ ids = 1
                  /\ log[at + 1].rec = "TaskReg" /\ log[at + 1].id = nextTask
                  /\ rHanded' = rHanded \cup {nextTask},
         ids = 1 => /\ handlers' = handlers \cup {nextTask}
                    /\ starters \subseteq starters'
                    /\ kinds[nextTask] = "import" => nextTask \in starters'
  PROVE  ReplayTold' /\ Verdict'
<1>0. PICK p : Keeps(p)
  BY DEF IInv
<1>1. /\ at \in Nat \ {0} /\ nextTask \in Nat \ {0} /\ turnNo \in 1..Len(script)
      /\ Len(script) \in Nat /\ opNo \in Nat /\ Len(script[turnNo].ops) \in Nat
      /\ verdict = "running" /\ phase = "replay"
  <2>1. at \in 1..Len(log) /\ Len(log) \in Nat
    BY <1>0, Here
  <2> QED BY <1>0, <2>1, Here
<1>2. /\ at' = at + n /\ nextTask' = nextTask + ids /\ verdict' = verdict
      /\ turnNo' = turnNo /\ opNo' = opNo + 1
      /\ UNCHANGED <<phase, log, script, kinds>>
  BY DEF Replays, Kept, recorder
<1>3. /\ RegisteredTold(at, nextTask)
      /\ HandlersTold(nextTask, awaited, turnNo, handlers, starters)
      /\ StartedTold(turnNo, started) /\ HandedAgain(at, rHanded)
      /\ AwaitedTold(at, awaited)
  BY ToldHere
<1>4. RegisteredTold(at', nextTask')
  <2>1. CASE n = 0
    <3>1. at' = at /\ nextTask' = nextTask
      BY <1>1, <1>2, <2>1
    <3> QED BY <1>3, <3>1
  <2>2. CASE n = 1
    <3>1. RegisteredTold(at + 1, IF log[at].rec = "TaskReg" THEN nextTask + 1 ELSE nextTask)
      BY <1>1, <1>3, <2>2, PastRecord
    <3>2. at' = at + 1
          /\ nextTask' = IF log[at].rec = "TaskReg" THEN nextTask + 1 ELSE nextTask
      BY <1>1, <1>2, <2>2
    <3> QED BY <3>1, <3>2
  <2>3. CASE n = 2
    <3>1. log[at].rec # "TaskReg"
      BY <2>3, RecordsTell
    <3>2. RegisteredTold(at + 1, nextTask)
      BY <1>1, <1>3, <3>1, PastRecord
    <3>3. RegisteredTold((at + 1) + 1, nextTask + 1)
      <4> DEFINE a == at + 1
      <4>1. a \in Nat \ {0} /\ log[a].rec = "TaskReg" /\ log[a].id = nextTask
            /\ RegisteredTold(a, nextTask)
        BY <1>1, <2>3, <3>2
      <4> HIDE DEF a
      <4>2. RegisteredTold(a + 1, nextTask + 1)
        BY <1>1, <4>1, PastRecord
      <4> QED BY <4>2 DEF a
    <3>4. at' = (at + 1) + 1 /\ nextTask' = nextTask + 1
      BY <1>1, <1>2, <2>3
    <3> QED BY <3>3, <3>4
  <2> QED BY <2>1, <2>2, <2>3
<1>5. HandedAgain(at', rHanded')
  <2>1. CASE n = 0
    BY <1>1, <1>2, <1>3, <2>1
  <2>2. CASE n = 1
    <3>1. HandedAgain(at + 1, rHanded)
      BY <1>1, <1>3, <2>2, PastHanded
    <3> QED BY <1>2, <2>2, <3>1
  <2>3. CASE n = 2
    <3>1. log[at + 1] # Ready(0)
      BY <2>3, RecordsTell
    <3>2. HandedAgain(at + 2, rHanded \cup {log[at + 1].id})
      BY <1>1, <1>3, <3>1, PastHanding
    <3> QED BY <1>2, <2>3, <3>2
  <2> QED BY <2>1, <2>2, <2>3
<1>6. HandlersTold(nextTask', awaited', turnNo', handlers', starters')
  <2> SUFFICES ASSUME NEW id \in 1..nextTask' - 1
               PROVE  /\ id # awaited /\ Unspent(id, turnNo, script, kinds) => id \in handlers'
                      /\ kinds[id] = "import" => id \in starters'
    BY <1>2 DEF HandlersTold
  <2>1. CASE ids = 0
    <3>1. id \in 1..nextTask - 1 /\ starters' = starters
      BY <1>1, <1>2, <2>1
    <3>2. Unspent(id, turnNo, script, kinds) => ThisOp.op # <<"clear", id>>
      <4>1. turnNo \in 1..turnNo /\ opNo + 1 \in 1..Len(script[turnNo].ops)
            /\ ThisOp = script[turnNo].ops[opNo + 1]
        BY <1>1 DEF HasOp, ThisTurn, ThisOp
      <4> QED BY <4>1 DEF Unspent
    <3>3. Unspent(id, turnNo, script, kinds) /\ id \in handlers => id \in handlers'
      BY <2>1, <3>2
    <3> QED BY <1>3, <3>1, <3>3 DEF HandlersTold
  <2>2. CASE ids = 1
    <3>1. id \in 1..nextTask - 1 \/ id = nextTask
      BY <1>1, <1>2, <2>2
    <3> QED BY <1>3, <2>2, <3>1 DEF HandlersTold
  <2> QED BY <2>1, <2>2
<1>7. StartedTold(turnNo', started')
  BY <1>2, <1>3
<1>8. AwaitedTold(at', awaited')
  <2>1. awaited # 0 => at' = at
    BY <1>1, <1>2
  <2> QED BY <1>3, <2>1 DEF AwaitedTold
<1>9. Verdict'
  BY <1>1, <1>2 DEF Verdict
<1> QED BY <1>2, <1>4, <1>5, <1>6, <1>7, <1>8, <1>9, ToldAgain

(* The record a seam asks for is the cursor's, or the log was refused.     *)
LEMMA MatchesOne ==
  ASSUME at \in Nat, at + 1 <= Len(log), NEW r, Checked(log[at]) = Checked(r)
  PROVE  Matches(<<r>>) /\ ~Diverges(<<r>>) /\ Len(<<r>>) = 1
<1>1. Len(<<r>>) = 1 /\ DOMAIN <<r>> = {1} /\ <<r>>[1] = r /\ at + 1 - 1 = at
  OBVIOUS
<1> DEFINE asked == <<r>>
<1> HIDE DEF asked
<1>2. Matches(asked)
  BY <1>1 DEF Matches, asked
<1> QED BY <1>1, <1>2 DEF Diverges, asked

LEMMA DivergesOne ==
  ASSUME at \in Nat, log[at] = Refusal, NEW r \in Records, r.rec # "Refusal"
  PROVE  ~Matches(<<r>>) /\ (Diverges(<<r>>) => Ends("non-replayable"))
<1> DEFINE asked == <<r>>
<1>1. DOMAIN asked = {1} /\ asked[1] = r /\ at + 1 - 1 = at
  OBVIOUS
<1> HIDE DEF asked
<1>2. Checked(log[at]) # Checked(r)
  <2>1. Checked(Refusal).rec = "Refusal" /\ Checked(r).rec = r.rec
    BY DEF Checked, Refusal, Rec, Records
  <2> QED BY <2>1
<1>3. ~Matches(asked)
  BY <1>1, <1>2 DEF Matches
<1> DEFINE First(j) == /\ Checked(log[at + j - 1]) # Checked(asked[j])
                       /\ \A k \in 1..(j - 1) : Checked(log[at + k - 1]) = Checked(asked[k])
           i == CHOOSE j \in DOMAIN asked : First(j)
           how == CASE log[at + i - 1] = End -> "done"
                    [] log[at + i - 1] = Refusal -> "non-replayable"
                    [] OTHER -> "diverged"
<1>4. Diverges(asked) => Ends(how)
  BY DEF Diverges
<1>5. First(1)
  BY <1>1, <1>2
<1>6. i = 1
  <2> HIDE DEF First
  <2> QED BY <1>1, <1>5
<1> HIDE DEF i
<1>7. log[at + i - 1] = Refusal /\ Refusal # End
  BY <1>1, <1>6 DEF Refusal, End, Rec
<1>8. how = "non-replayable"
  BY <1>7
<1> HIDE DEF how
<1> QED BY <1>3, <1>4, <1>8 DEF asked

(* What the next step of the page wrote is at the cursor.                  *)
LEMMA StepHere ==
  ASSUME IInv, ReplayTold, Replaying, HasOp
  PROVE  LET op == ThisOp.op
             saw == ThisOp.saw
         IN /\ op[1] \in {"read", "own", "ready"} => awaited = 0 /\ at + 1 <= Len(log)
            /\ op[1] = "read" => op[2] \in Reads /\ log[at] = ReadRecord(op[2], saw)
            /\ op[1] = "own" => /\ op[2] \in DOMAIN kinds
                                /\ log[at] = PlatformValue(op[2], OwnQuery(op[2], kinds), saw)
            /\ op[1] = "call" =>
                 \/ log[at] = Refusal
                 \/ /\ awaited = 0 /\ at + 1 <= Len(log) /\ saw = nextTask
                    /\ kinds[saw] = op[2] /\ log[at] = TaskReg(saw, TaskKind(op[2]))
            /\ op[1] = "ready" =>
                 \/ /\ at + 2 <= Len(log) /\ log[at] = Ready(0) /\ saw = nextTask
                    /\ kinds[saw] = "ready" /\ log[at + 1] = TaskReg(saw, "platform")
                 \/ log[at] = Ready(saw) /\ saw # 0 /\ saw \in rHanded
            /\ op[1] \in {"clear", "get", "make"} => saw = None
            /\ op[1] = "refused" => log[at] = Refusal
<1> DEFINE op == ThisOp.op
           saw == ThisOp.saw
<1>0. PICK p : Keeps(p)
  BY DEF IInv
<1> DEFINE a == p[turnNo][opNo]
           b == p[turnNo][opNo + 1]
<1>1. /\ Len(log) \in Nat \ {0} /\ at \in 1..Len(log) /\ log[Len(log)] = End
      /\ a \in 0..Len(log) - 1 /\ (awaited = 0 => at = a + 1)
      /\ awaited # 0 => log[a + 1].rec = "Task"
      /\ nextTask \in Nat \ {0} /\ DOMAIN kinds = 1..Len(kinds) /\ Len(kinds) \in Nat
  BY <1>0, Here
<1>2. Wrote(ThisOp, a, b, log, kinds)
  BY <1>0, NextStep
<1>3. op[1] = "refused" => log[at] = Refusal
  BY <1>0, StepPlaces
<1> HIDE DEF a, b
<1>4. log[at].rec # "End" => at + 1 <= Len(log)
  BY <1>1, RecordsTell
<1>5. a \in Nat /\ at \in Nat
  BY <1>1
<1>6. CASE op[1] = "read"
  <2>1. op[2] \in Reads /\ b = a + 1 /\ log[b] = ReadRecord(op[2], saw)
    BY <1>2, <1>6 DEF Wrote
  <2>2. log[a + 1].rec \notin {"Task", "End"}
    BY <2>1, RecordsTell
  <2>3. awaited = 0 /\ at = a + 1
    BY <1>1, <2>2
  <2> QED BY <1>4, <1>6, <2>1, <2>2, <2>3
<1>7. CASE op[1] = "own"
  <2>1. op[2] \in DOMAIN kinds /\ b = a + 1
        /\ log[b] = PlatformValue(op[2], OwnQuery(op[2], kinds), saw)
    BY <1>2, <1>7 DEF Wrote
  <2>2. log[a + 1].rec \notin {"Task", "End"}
    BY <2>1, RecordsTell
  <2>3. awaited = 0 /\ at = a + 1
    BY <1>1, <2>2
  <2> QED BY <1>4, <1>7, <2>1, <2>2, <2>3
<1>8. CASE op[1] = "call"
  <2>1. /\ saw \in DOMAIN kinds /\ kinds[saw] = op[2] /\ log[b] = TaskReg(saw, TaskKind(op[2]))
        /\ b = a + 1 \/ (b = a + 2 /\ log[a + 1] = Refusal)
    BY <1>2, <1>8 DEF Wrote
  <2>2. log[a + 1].rec # "Task"
    BY <2>1, RecordsTell
  <2>3. awaited = 0 /\ at = a + 1
    BY <1>1, <2>2
  <2>4. CASE log[at] = Refusal
    BY <1>8, <2>4
  <2>5. CASE log[at] # Refusal
    <3>1. log[at] = TaskReg(saw, TaskKind(op[2]))
      BY <2>1, <2>3, <2>5
    <3>2. log[at].rec = "TaskReg" /\ log[at].id = saw
      BY <3>1, RecordsTell
    <3>3. saw = nextTask
      <4>1. RegisteredTold(at, nextTask)
        BY ToldHere
      <4>2. \A id \in Nat : Registered(id, at - 1, log) <=> id \in 1..saw - 1
        BY <1>1, <3>2 DEF IInv, Counted
      <4>3. saw \in Nat \ {0}
        BY <1>1, <2>1
      <4> HIDE DEF saw
      <4>4. \A id \in Nat : id \in 1..saw - 1 <=> id \in 1..nextTask - 1
        BY <4>1, <4>2 DEF RegisteredTold
      <4> QED BY <1>1, <4>3, <4>4, SameNext
    <3> QED BY <1>4, <1>8, <2>1, <2>3, <3>1, <3>2, <3>3
  <2> QED BY <2>4, <2>5
<1>9. CASE op[1] = "ready"
  <2>1. \/ /\ b = a + 2 /\ log[a + 1] = Ready(0) /\ log[b] = TaskReg(saw, "platform")
           /\ saw \in DOMAIN kinds /\ kinds[saw] = "ready"
        \/ b = a + 1 /\ log[b] = Ready(saw) /\ saw # 0 /\ HandedIn(saw, a, log)
    BY <1>2, <1>9 DEF Wrote
  <2>2. log[a + 1].rec = "PlatformValue"
    BY <2>1, RecordsTell DEF Ready
  <2>3. awaited = 0 /\ at = a + 1 /\ at + 1 <= Len(log)
    BY <1>1, <1>4, <2>2
  <2>4. CASE /\ b = a + 2 /\ log[a + 1] = Ready(0) /\ log[b] = TaskReg(saw, "platform")
             /\ saw \in DOMAIN kinds /\ kinds[saw] = "ready"
    <3>1. log[at] = Ready(0) /\ log[at + 1] = TaskReg(saw, "platform")
      BY <1>5, <2>3, <2>4
    <3>2. log[at].rec # "TaskReg" /\ log[at + 1].rec = "TaskReg" /\ log[at + 1].id = saw
      BY <3>1, RecordsTell
    <3>3. at + 2 <= Len(log)
      <4>1. at + 1 # Len(log)
        BY <1>1, <3>2, RecordsTell
      <4> QED BY <1>1, <2>3, <4>1
    <3>4. saw = nextTask
      <4>1. RegisteredTold(at + 1, nextTask)
        <5>1. RegisteredTold(at, nextTask) /\ at \in Nat \ {0}
          BY <1>1, ToldHere
        <5> QED BY <1>1, <3>2, <5>1, PastRecord
      <4>2. \A id \in Nat : Registered(id, (at + 1) - 1, log) <=> id \in 1..saw - 1
        <5>1. at + 1 \in 1..Len(log)
          BY <1>1, <2>3
        <5> QED BY <3>2, <5>1 DEF IInv, Counted
      <4>3. saw \in Nat \ {0}
        BY <1>1, <2>4
      <4> HIDE DEF saw
      <4>4. \A id \in Nat : id \in 1..saw - 1 <=> id \in 1..nextTask - 1
        BY <4>1, <4>2 DEF RegisteredTold
      <4> QED BY <1>1, <4>3, <4>4, SameNext
    <3> QED BY <1>9, <2>3, <2>4, <3>1, <3>3, <3>4
  <2>5. CASE b = a + 1 /\ log[b] = Ready(saw) /\ saw # 0 /\ HandedIn(saw, a, log)
    <3>1. PICK j \in 1..a - 1 : log[j] = Ready(0) /\ log[j + 1] = TaskReg(saw, "platform")
      BY <2>5 DEF HandedIn
    <3>2. j \in 1..at - 2
      BY <1>5, <2>3, <3>1
    <3>3. HandedAgain(at, rHanded)
      BY ToldHere
    <3>4. log[j + 1].id = saw
      BY <3>1, RecordsTell
    <3> QED BY <1>9, <2>3, <2>5, <3>1, <3>2, <3>3, <3>4 DEF HandedAgain
  <2> QED BY <2>1, <2>4, <2>5
<1>10. CASE op[1] \in {"clear", "get", "make"}
  <2>1. saw = None
    BY <1>2, <1>10 DEF Wrote
  <2> QED BY <1>10, <2>1
<1>11. CASE op[1] = "refused"
  BY <1>3, <1>11
<1>12. op[1] \in {"read", "own", "call", "ready", "clear", "get", "make", "refused"}
  BY <1>2 DEF Wrote
<1> HIDE DEF op, saw
<1> QED BY <1>6, <1>7, <1>8, <1>9, <1>10, <1>11, <1>12 DEF op, saw

(* The replayed page does what the page did, and sees what it saw.         *)
LEMMA PageReplayedTold ==
  ASSUME IInv, ReplayTold, PageReplayed
  PROVE  ReplayTold' /\ Verdict'
<1>0. PICK p : Keeps(p)
  BY DEF IInv
<1>1. Replaying /\ (~EndTurnAgain => HasOp)
  BY DEF PageReplayed, ReadAgain, ReadOwnAgain, RegisterAgain, MakeAgain, ClearAgain,
         ReadReadyAgain, UseRefusedAgain, EndTurnAgain, TurnOverAgain, PageReplays
<1>2. /\ at \in Nat \ {0} /\ Len(log) \in Nat /\ nextTask \in Nat \ {0}
      /\ 0 \notin rHanded /\ 0 # nextTask /\ at \in 1..Len(log)
  BY <1>0, <1>1, Here
<1>3. \A asked, saw, ids : Replays(asked, saw, ids) => UNCHANGED <<phase, log, script>>
  BY DEF Replays
<1>4. CASE ReadAgain
  <2>1. PICK what \in Reads :
          /\ PageReplays(<<"read", what>>)
          /\ Asks(<<ReadAsks(what)>>, Cursor.value, 0, UNCHANGED replayer)
    BY <1>4 DEF ReadAgain
  <2>2. HasOp /\ ThisOp.op = <<"read", what>>
    BY <2>1 DEF PageReplays
  <2>3. /\ awaited = 0 /\ at + 1 <= Len(log) /\ log[at] = ReadRecord(what, ThisOp.saw)
    BY <1>1, <2>2, StepHere
  <2>4. /\ Checked(log[at]) = Checked(ReadAsks(what)) /\ log[at].value = ThisOp.saw
        /\ log[at] # Ready(0) /\ log[at].rec # "TaskReg"
    BY <2>3, RecordsTell
  <2> DEFINE asked == <<ReadAsks(what)>>
             saw == Cursor.value
  <2>5. Len(asked) = 1 /\ ~Diverges(asked)
    BY <1>2, <2>3, <2>4, MatchesOne
  <2>6. Replays(asked, saw, 0) /\ UNCHANGED replayer
    BY <2>1, <2>5 DEF Asks
  <2>7. saw = ThisOp.saw
    BY <2>4 DEF Cursor
  <2>8. Kept
    BY <1>3, <1>4, <2>6 DEF Kept, ReadAgain
  <2> HIDE DEF asked, saw
  <2> QED BY <1>1, <2>2, <2>3, <2>4, <2>5, <2>6, <2>7, <2>8, StepTold DEF replayer
<1>5. CASE ReadOwnAgain
  <2>1. PICK id \in DOMAIN kinds :
          /\ PageReplays(<<"own", id>>)
          /\ Asks(<<PlatformValue(id, OwnQuery(id, kinds), None)>>, Cursor.value, 0,
                  UNCHANGED replayer)
    BY <1>5 DEF ReadOwnAgain, OwnQuery
  <2> DEFINE r == PlatformValue(id, OwnQuery(id, kinds), None)
             asked == <<r>>
             saw == Cursor.value
  <2>2. HasOp /\ ThisOp.op = <<"own", id>>
    BY <2>1 DEF PageReplays
  <2>3. /\ awaited = 0 /\ at + 1 <= Len(log)
        /\ log[at] = PlatformValue(id, OwnQuery(id, kinds), ThisOp.saw)
    BY <1>1, <2>2, StepHere
  <2>31. log[at].query # "ready"
    BY <2>3, RecordsTell DEF OwnQuery
  <2>4. /\ Checked(log[at]) = Checked(r) /\ log[at].value = ThisOp.saw
        /\ log[at] # Ready(0) /\ log[at].rec # "TaskReg"
    BY <2>3, <2>31, RecordsTell
  <2> HIDE DEF r
  <2>5. Len(asked) = 1 /\ ~Diverges(asked)
    BY <1>2, <2>3, <2>4, MatchesOne
  <2>6. Replays(asked, saw, 0) /\ UNCHANGED replayer
    BY <2>1, <2>5 DEF Asks, r
  <2>7. saw = ThisOp.saw
    BY <2>4 DEF Cursor
  <2>8. Kept
    BY <1>3, <1>5, <2>6 DEF Kept, ReadOwnAgain
  <2> HIDE DEF asked, saw
  <2> QED BY <1>1, <2>2, <2>3, <2>4, <2>5, <2>6, <2>7, <2>8, StepTold DEF replayer
<1>6. CASE RegisterAgain
  <2>1. PICK kind \in Calls :
          /\ PageReplays(<<"call", kind>>)
          /\ Asks(<<TaskReg(nextTask, TaskKind(kind))>>, nextTask, 1,
                  /\ handlers' = handlers \cup {nextTask}
                  /\ starters' = IF kind = "import" THEN starters \cup {nextTask} ELSE starters
                  /\ UNCHANGED <<started, arrived, awaited, rHanded>>)
    BY <1>6 DEF RegisterAgain, Calls
  <2> DEFINE r == TaskReg(nextTask, TaskKind(kind))
             asked == <<r>>
  <2>2. HasOp /\ ThisOp.op = <<"call", kind>>
    BY <2>1 DEF PageReplays
  <2>3. r \in Records /\ r.rec = "TaskReg" /\ r.id = nextTask
    <3>1. kind \in Kinds /\ nextTask \in Nat /\ None \in Answers
      BY <1>2 DEF Calls, Kinds, Answers
    <3> QED BY <3>1, RecordsWritten
  <2>4. UNCHANGED recorder
    BY <1>6 DEF RegisterAgain
  <2>5. CASE log[at] = Refusal
    <3> HIDE DEF r
    <3>1. ~Matches(asked) /\ (Diverges(asked) => Ends("non-replayable"))
      BY <1>2, <2>3, <2>5, DivergesOne
    <3>2. Ends("non-replayable")
      BY <2>1, <3>1 DEF Asks, r
    <3> QED BY <1>1, <3>2, EndsTold
  <2>6. CASE log[at] # Refusal
    <3>1. /\ awaited = 0 /\ at + 1 <= Len(log) /\ ThisOp.saw = nextTask
          /\ kinds[nextTask] = kind /\ log[at] = r
      BY <1>1, <2>2, <2>6, StepHere
    <3>2. log[at] # Ready(0) /\ log[at].rec = "TaskReg" /\ log[at].id = nextTask
      BY <3>1, RecordsTell
    <3> HIDE DEF r
    <3>3. Len(asked) = 1 /\ ~Diverges(asked)
      BY <1>2, <3>1, MatchesOne
    <3>4. /\ Replays(asked, nextTask, 1)
          /\ handlers' = handlers \cup {nextTask}
          /\ starters' = IF kind = "import" THEN starters \cup {nextTask} ELSE starters
          /\ UNCHANGED <<started, arrived, awaited, rHanded>>
      BY <2>1, <3>3 DEF Asks, r
    <3>5. Kept
      BY <1>3, <2>4, <3>4 DEF Kept
    <3> HIDE DEF asked
    <3>6. starters \subseteq starters' /\ (kinds[nextTask] = "import" => nextTask \in starters')
      BY <3>1, <3>4
    <3> QED BY <1>1, <2>2, <3>1, <3>2, <3>3, <3>4, <3>5, <3>6, StepTold
  <2> QED BY <2>5, <2>6
<1>7. CASE MakeAgain \/ ClearAgain
  <2> DEFINE asked == <<>>
  <2>1. /\ Replays(asked, None, 0) /\ UNCHANGED <<recorder, starters, started, awaited, rHanded>>
        /\ \/ ThisOp.op[1] \in {"get", "make"} /\ handlers' = handlers
           \/ \E id : ThisOp.op = <<"clear", id>> /\ handlers' = handlers \ {id}
    <3>1. CASE MakeAgain
      BY <3>1 DEF MakeAgain, PageReplays, replayer
    <3>2. CASE ClearAgain
      BY <3>2 DEF ClearAgain, PageReplays
    <3> QED BY <1>7, <3>1, <3>2
  <2>2. Len(asked) = 0 /\ HasOp
    BY <1>1, <1>7 DEF MakeAgain, ClearAgain, PageReplays
  <2>3. ThisOp.saw = None
    BY <1>1, <2>1, <2>2, StepHere
  <2>4. Kept
    BY <1>3, <2>1 DEF Kept
  <2> HIDE DEF asked
  <2> QED BY <1>1, <2>1, <2>2, <2>3, <2>4, StepTold
<1>8. CASE ReadReadyAgain
  <2> DEFINE r == PlatformValue(0, "ready", None)
             asked == <<r>>
             s == TaskReg(nextTask, "platform")
             both == asked \o <<s>>
             logged == Cursor.value
  <2>1. HasOp /\ ThisOp.op = <<"ready", 0>> /\ UNCHANGED recorder
    BY <1>8 DEF ReadReadyAgain, PageReplays
  <2>2. /\ awaited = 0 /\ at + 1 <= Len(log)
        /\ \/ /\ at + 2 <= Len(log) /\ log[at] = Ready(0) /\ ThisOp.saw = nextTask
              /\ kinds[nextTask] = "ready" /\ log[at + 1] = s
           \/ log[at] = Ready(ThisOp.saw) /\ ThisOp.saw # 0 /\ ThisOp.saw \in rHanded
    BY <1>1, <2>1, StepHere
  <2>3. Checked(log[at]) = Checked(r) /\ logged = log[at].value
    BY <2>2, RecordsTell DEF Ready, Cursor
  <2>4. Matches(asked) /\ ~Diverges(asked) /\ Len(asked) = 1
    <3> HIDE DEF r
    <3> QED BY <1>2, <2>2, <2>3, MatchesOne
  <2>5. /\ logged = 0 =>
              Asks(both, nextTask, 1,
                   /\ handlers' = handlers \cup {nextTask}
                   /\ rHanded' = rHanded \cup {nextTask}
                   /\ UNCHANGED <<starters, started, arrived, awaited>>)
        /\ logged # 0 /\ logged \in rHanded => Asks(asked, logged, 0, UNCHANGED replayer)
    BY <1>2, <1>8, <2>4 DEF ReadReadyAgain
  <2>6. CASE /\ at + 2 <= Len(log) /\ log[at] = Ready(0) /\ ThisOp.saw = nextTask
             /\ kinds[nextTask] = "ready" /\ log[at + 1] = s
    <3>1. logged = 0
      BY <2>3, <2>6, RecordsTell DEF Ready
    <3>2. log[at + 1].rec = "TaskReg" /\ log[at + 1].id = nextTask
      BY <2>6, RecordsTell
    <3>31. r \in Records /\ s \in Records
      <4>1. "ready" \in Queries /\ None \in Answers /\ 0 \in Nat /\ nextTask \in Nat
        BY <1>2 DEF Queries, Kinds, Promises, Outcomes, Answers
      <4> QED BY <4>1, RecordsWritten
    <3> HIDE DEF r, s
    <3>32. both = <<r, s>>
      BY <3>31, TwoWritten
    <3>3. Len(both) = 2 /\ DOMAIN both = {1, 2} /\ both[1] = r /\ both[2] = s
      <4> DEFINE pair == <<r, s>>
      <4>1. Len(pair) = 2 /\ DOMAIN pair = {1, 2} /\ pair[1] = r /\ pair[2] = s
        OBVIOUS
      <4> HIDE DEF pair, both
      <4> QED BY <3>32, <4>1 DEF pair
    <3> HIDE DEF both, asked
    <3>4. at + 1 - 1 = at /\ at + 2 - 1 = at + 1
      BY <1>2
    <3>5. Matches(both)
      BY <2>3, <2>6, <3>3, <3>4 DEF Matches
    <3>6. /\ Replays(both, nextTask, 1) /\ handlers' = handlers \cup {nextTask}
          /\ rHanded' = rHanded \cup {nextTask}
          /\ UNCHANGED <<starters, started, arrived, awaited>>
      BY <2>5, <3>1, <3>5 DEF Asks, Diverges
    <3>7. Kept
      BY <1>3, <2>1, <3>6 DEF Kept
    <3> QED BY <1>1, <2>1, <2>2, <2>6, <3>2, <3>3, <3>6, <3>7, StepTold
  <2>7. CASE log[at] = Ready(ThisOp.saw) /\ ThisOp.saw # 0 /\ ThisOp.saw \in rHanded
    <3>1. logged = ThisOp.saw /\ log[at] # Ready(0) /\ log[at].rec # "TaskReg"
      BY <2>3, <2>7, RecordsTell DEF Ready
    <3> HIDE DEF both, s, asked
    <3>2. Replays(asked, logged, 0) /\ UNCHANGED replayer
      BY <2>4, <2>5, <2>7, <3>1 DEF Asks
    <3>3. Kept
      BY <1>3, <2>1, <3>2 DEF Kept
    <3> HIDE DEF logged
    <3> QED BY <1>1, <2>1, <2>2, <2>4, <3>1, <3>2, <3>3, StepTold DEF replayer
  <2> QED BY <2>2, <2>6, <2>7
<1>9. CASE UseRefusedAgain
  <2>1. /\ HasOp /\ ThisOp.op[1] = "refused"
        /\ IF refusedHere THEN Ends("non-replayable") ELSE Replays(<<>>, None, 0)
    BY <1>9 DEF UseRefusedAgain, PageReplays
  <2>2. refusedHere
    BY <1>1, <2>1, StepHere DEF refusedHere, Cursor
  <2> QED BY <1>1, <2>1, <2>2, EndsTold
<1>10. CASE EndTurnAgain
  <2>1. UNCHANGED <<phase, log, nextTask, script, at, turnNo, opNo, verdict, kinds,
                    handlers, starters, started, awaited, rHanded>>
    BY <1>10 DEF EndTurnAgain, TurnOverAgain, recorder, replayer
  <2>2. ReplayTold'
    BY <1>1, <2>1, ToldHere, ToldAgain
  <2> QED BY <1>1, <2>1, <2>2 DEF Verdict, Replaying
<1> QED BY <1>4, <1>5, <1>6, <1>7, <1>8, <1>9, <1>10 DEF PageReplayed

-----------------------------------------------------------------------------
(* The page's next turn begins as it began. *)
LEMMA BeginsTold ==
  ASSUME turnNo \in Nat, turnNo < Len(script), NEW u \in Turns, u = script[turnNo + 1],
         NEW taken, BeginsAgain(u.id, u.part, u.given, taken, 0), nextTask \in Nat
  PROVE  /\ verdict' = verdict /\ at' = at + taken /\ turnNo' = turnNo + 1
         /\ nextTask' = nextTask /\ UNCHANGED <<phase, log, script>>
<1>1. u = [Turn(u.id, u.part, u.given) EXCEPT !.ops = u.ops]
  BY DEF Turn, Turns
<1>2. script[turnNo + 1] = [Turn(u.id, u.part, u.given) EXCEPT !.ops = script[turnNo + 1].ops]
  BY <1>1
<1> QED BY <1>2 DEF BeginsAgain

LEMMA UnspentBefore ==
  ASSUME NEW n \in Nat, NEW id, NEW scr, NEW ks, Unspent(id, n + 1, scr, ks)
  PROVE  /\ Unspent(id, n, scr, ks)
         /\ scr[n + 1].part = "task" /\ scr[n + 1].id = id => ks[id] \in Repeats
<1>1. n + 1 \in 1..n + 1 /\ \A t \in 1..n : t \in 1..n + 1
  OBVIOUS
<1> QED BY <1>1 DEF Unspent

LEMMA StartedNext ==
  ASSUME NEW n \in Nat, NEW id
  PROVE  (\E t \in 1..n + 1 : ModuleOf(id, script[t])) <=>
           (\E t \in 1..n : ModuleOf(id, script[t])) \/ ModuleOf(id, script[n + 1])
<1>1. n + 1 \in 1..n + 1 /\ (\A t \in 1..n : t \in 1..n + 1)
      /\ \A t \in 1..n + 1 : t \in 1..n \/ t = n + 1
  OBVIOUS
<1> QED BY <1>1

(* The page's code of the task that ran next runs next, and is given what  *)
(* it was given.                                                           *)
LEMMA LetsTold ==
  ASSUME IInv, ReplayTold, Replaying, ~turn, Kept, NEW p, Keeps(p), turnNo < Len(script),
         NEW u, u = script[turnNo + 1], TaskAt(p[turnNo][opNo], u),
         NEW from \in {0, 1}, at + from = p[turnNo][opNo] + 2, Lets(u.id, from),
         awaited \in {0, u.id}, awaited # 0 => kinds[u.id] \notin Repeats, awaited' = 0,
         UNCHANGED <<starters, started, rHanded>>,
         \A x \in handlers : x # u.id \/ kinds[u.id] \in Repeats => x \in handlers'
  PROVE  ReplayTold' /\ Verdict'
<1> DEFINE a == p[turnNo][opNo]
           id == u.id
           k == kinds[id]
           given == Given(id)
           n == IF k \in Reads1 THEN 1 ELSE 0
           value == CASE k = "file" -> "a stand-in's"
                      [] given = <<>> \/ k = "bitmap" -> None
                      [] OTHER -> log[at + from].value
           g == IF k = "frame" THEN Clock("frame", None)
                ELSE IF k = "observer" THEN PlatformValue(id, "callback", None)
                ELSE PlatformValue(id, k, None)
<1>1. /\ log \in Seq(Records) /\ Len(log) \in Nat \ {0} /\ at \in 1..Len(log)
      /\ script \in Seq(Turns) /\ Len(script) \in Nat \ {0}
      /\ kinds \in Seq(Kinds) /\ DOMAIN kinds = 1..Len(kinds) /\ Len(kinds) \in Nat
      /\ nextTask \in Nat \ {0} /\ turnNo \in 1..Len(script) /\ a \in 0..Len(log) - 1
      /\ verdict = "running" /\ phase = "replay"
      /\ awaited # 0 => at = a + 2
  BY Here
<1>2. /\ u.part = "task" /\ id \in DOMAIN kinds /\ log[a + 1] = Task(id, TaskKind(k))
      /\ IF k \in Reads1 THEN GivenTo(u, k, log[a + 2]) ELSE u.given = None /\ k # "file"
  BY DEF TaskAt
<1>3. u \in Turns
  <2>1. turnNo + 1 \in 1..Len(script)
    BY <1>1
  <2> QED BY <1>1, <2>1
<1>4. given = IF k \in Reads1 THEN <<g>> ELSE <<>>
  BY DEF Given, Reads1, Outcomes
<1>5. k \in Reads1 =>
        /\ Checked(log[at + from]) = Checked(g)
        /\ k # "file" /\ u.given = IF k = "bitmap" THEN None ELSE log[at + from].value
        /\ log[at + from].rec # "TaskReg" /\ log[at + from] # Ready(0)
  <2> SUFFICES ASSUME k \in Reads1
               PROVE  /\ Checked(log[a + 2]) = Checked(g)
                      /\ k # "file" /\ u.given = IF k = "bitmap" THEN None ELSE log[a + 2].value
                      /\ log[a + 2].rec # "TaskReg" /\ log[a + 2] # Ready(0)
    OBVIOUS
  <2>1. GivenTo(u, k, log[a + 2])
    BY <1>2
  <2>2. id # 0
    BY <1>1, <1>2, SMTT(60)
  <2> HIDE DEF a, k, given, value, id
  <2>3. CASE k = "frame"
    BY <2>1, <2>3, RecordsTell DEF GivenTo, Outcomes, id
  <2>4. CASE k = "observer"
    BY <2>1, <2>2, <2>4, RecordsTell DEF GivenTo, Outcomes, id
  <2>5. CASE k = "bitmap"
    BY <2>1, <2>2, <2>5, RecordsTell DEF GivenTo, Outcomes, id
  <2>6. CASE k \in Outcomes
    BY <2>1, <2>2, <2>6, RecordsTell DEF GivenTo, Outcomes, id
  <2> QED BY <2>3, <2>4, <2>5, <2>6 DEF Reads1
<1>6. IF \A i \in DOMAIN given : Checked(log[at + from + i - 1]) = Checked(given[i])
      THEN BeginsAgain(id, "task", value, from + Len(given), 0)
      ELSE Ends(IF log[at + from] = End THEN "done" ELSE "diverged")
  BY DEF Lets
<1>7. /\ \A i \in DOMAIN given : Checked(log[at + from + i - 1]) = Checked(given[i])
      /\ Len(given) = n /\ value = u.given
  <2>1. CASE k \in Reads1
    <3>1. given = <<g>> /\ DOMAIN given = {1} /\ given[1] = g /\ Len(given) = 1
      BY <1>4, <2>1
    <3>2. at + from + 1 - 1 = at + from /\ given # <<>>
      BY <1>1, <3>1
    <3> HIDE DEF given, g, k
    <3>3. value = IF k = "bitmap" THEN None ELSE log[at + from].value
      BY <1>5, <2>1, <3>2
    <3> HIDE DEF value
    <3> QED BY <1>5, <2>1, <3>1, <3>2, <3>3
  <2>2. CASE k \notin Reads1
    <3>1. given = <<>> /\ DOMAIN given = {} /\ Len(given) = 0
      BY <1>4, <2>2
    <3> HIDE DEF given
    <3> QED BY <1>2, <2>2, <3>1
  <2> QED BY <2>1, <2>2
<1> HIDE DEF given, value, g
<1>8. BeginsAgain(u.id, u.part, u.given, from + n, 0)
  BY <1>2, <1>6, <1>7
<1>9. /\ verdict' = verdict /\ at' = at + (from + n) /\ turnNo' = turnNo + 1
      /\ nextTask' = nextTask /\ UNCHANGED <<phase, log, script>>
  <2>1. turnNo \in Nat /\ nextTask \in Nat
    BY <1>1
  <2> HIDE DEF n
  <2> QED BY <1>3, <1>8, <2>1, BeginsTold
<1>10. UNCHANGED <<phase, log, script, kinds>>
  BY <1>9 DEF Kept, recorder
<1>11. /\ RegisteredTold(at, nextTask)
       /\ HandlersTold(nextTask, awaited, turnNo, handlers, starters)
       /\ StartedTold(turnNo, started) /\ HandedAgain(at, rHanded)
  BY ToldHere
<1>12. RegisteredTold(at + from, nextTask) /\ HandedAgain(at + from, rHanded)
  <2>1. CASE from = 0
    <3>1. at + from = at
      BY <1>1, <2>1
    <3> QED BY <1>11, <3>1
  <2>2. CASE from = 1
    <3>1. at = a + 1
      <4>1. a \in Nat /\ at \in Nat /\ at + 1 = a + 2
        BY <1>1, <2>2
      <4> HIDE DEF a
      <4> QED BY <4>1
    <3>2. log[at].rec = "Task" /\ log[at] # Ready(0)
      BY <1>2, <3>1, RecordsTell
    <3>3. at \in Nat \ {0}
      BY <1>1
    <3> QED BY <1>1, <1>11, <2>2, <3>2, <3>3, PastRecord, PastHanded
  <2> QED BY <2>1, <2>2
<1>13. RegisteredTold(at', nextTask') /\ HandedAgain(at', rHanded')
  <2> DEFINE c == at + from
  <2>1. c \in Nat \ {0} /\ RegisteredTold(c, nextTask) /\ HandedAgain(c, rHanded)
        /\ at' = c + n
    <3>1. at \in Nat \ {0} /\ from \in Nat /\ n \in Nat
      BY <1>1
    <3>2. at + from \in Nat \ {0}
      BY <3>1
    <3> HIDE DEF n
    <3>3. c \in Nat \ {0} /\ at + (from + n) = c + n
      BY <3>1, <3>2
    <3> QED BY <1>9, <1>12, <3>3, Zenon
  <2>2. k \in Reads1 => log[c].rec # "TaskReg" /\ log[c] # Ready(0)
    BY <1>5
  <2> HIDE DEF c, k
  <2>3. CASE k \in Reads1
    <3>1. RegisteredTold(c + 1, nextTask) /\ HandedAgain(c + 1, rHanded)
      BY <1>1, <2>1, <2>2, <2>3, PastRecord, PastHanded
    <3> QED BY <1>9, <2>1, <2>3, <3>1
  <2>4. CASE k \notin Reads1
    <3>1. at' = c
      BY <2>1, <2>4
    <3> QED BY <1>9, <2>1, <3>1
  <2> QED BY <2>3, <2>4
<1>14. HandlersTold(nextTask', awaited', turnNo', handlers', starters')
  <2> SUFFICES ASSUME NEW x \in 1..nextTask - 1
               PROVE  /\ x # 0 /\ Unspent(x, turnNo + 1, script, kinds) => x \in handlers'
                      /\ kinds[x] = "import" => x \in starters
    BY <1>9 DEF HandlersTold
  <2>1. kinds[x] = "import" => x \in starters
    BY <1>11 DEF HandlersTold
  <2>2. ASSUME Unspent(x, turnNo + 1, script, kinds)
        PROVE  x \in handlers'
    <3>1. Unspent(x, turnNo, script, kinds) /\ (x = u.id => kinds[u.id] \in Repeats)
      <4>1. turnNo \in Nat /\ u = script[turnNo + 1] /\ u.part = "task"
        BY <1>1, <1>2
      <4> QED BY <2>2, <4>1, UnspentBefore, Zenon
    <3>2. x # 0
      BY <1>1
    <3>3. x # awaited
      BY <3>1, <3>2
    <3>4. x \in handlers
      BY <1>11, <3>1, <3>3 DEF HandlersTold
    <3> QED BY <3>1, <3>4
  <2> QED BY <2>1, <2>2
<1>15. StartedTold(turnNo', started')
  <2>1. \A x : ~ModuleOf(x, script[turnNo + 1])
    BY <1>2 DEF ModuleOf
  <2>2. \A x : (\E t \in 1..turnNo + 1 : ModuleOf(x, script[t])) <=>
               (\E t \in 1..turnNo : ModuleOf(x, script[t])) \/ ModuleOf(x, script[turnNo + 1])
    BY <1>1, StartedNext
  <2> QED BY <1>9, <1>11, <2>1, <2>2 DEF StartedTold
<1>16. AwaitedTold(at', awaited')
  BY DEF AwaitedTold
<1>17. Verdict'
  BY <1>1, <1>9 DEF Verdict
<1> QED BY <1>10, <1>13, <1>14, <1>15, <1>16, <1>17, ToldAgain

(* The module that was evaluated next is evaluated next.                   *)
LEMMA ModuleTold ==
  ASSUME IInv, ReplayTold, Replaying, ~turn, Kept, NEW p, Keeps(p), turnNo < Len(script),
         NEW u, u = script[turnNo + 1], ModuleAt(p[turnNo][opNo], u),
         BeginsAgain(u.id, "module", None, 0, 0), started' = started \cup {u.id},
         UNCHANGED <<handlers, starters, awaited, rHanded>>
  PROVE  ReplayTold' /\ Verdict'
<1>1. /\ at \in 1..Len(log) /\ script \in Seq(Turns) /\ Len(script) \in Nat \ {0}
      /\ nextTask \in Nat \ {0} /\ turnNo \in 1..Len(script)
      /\ verdict = "running" /\ phase = "replay" /\ Len(log) \in Nat
  BY Here
<1>2. u.part = "module" /\ u.given = None
  BY DEF ModuleAt
<1>3. u \in Turns
  <2>1. turnNo + 1 \in 1..Len(script)
    BY <1>1
  <2> QED BY <1>1, <2>1
<1>4. /\ verdict' = verdict /\ at' = at + 0 /\ turnNo' = turnNo + 1
      /\ nextTask' = nextTask /\ UNCHANGED <<phase, log, script>>
  <2>1. turnNo \in Nat /\ nextTask \in Nat
    BY <1>1
  <2>2. BeginsAgain(u.id, u.part, u.given, 0, 0)
    BY <1>2
  <2> QED BY <1>3, <2>1, <2>2, BeginsTold
<1>5. UNCHANGED <<phase, log, script, kinds>>
  BY <1>4 DEF Kept, recorder
<1>6. /\ RegisteredTold(at, nextTask)
      /\ HandlersTold(nextTask, awaited, turnNo, handlers, starters)
      /\ StartedTold(turnNo, started) /\ HandedAgain(at, rHanded)
      /\ AwaitedTold(at, awaited)
  BY ToldHere
<1>7. at' = at
  BY <1>1, <1>4
<1>8. HandlersTold(nextTask', awaited', turnNo', handlers', starters')
  <2>1. \A x : Unspent(x, turnNo + 1, script, kinds) => Unspent(x, turnNo, script, kinds)
    <3>1. turnNo \in Nat
      BY <1>1
    <3> QED BY <3>1, UnspentBefore
  <2> QED BY <1>4, <1>6, <2>1 DEF HandlersTold
<1>9. StartedTold(turnNo', started')
  <2>1. \A x : ModuleOf(x, script[turnNo + 1]) <=> x = u.id
    BY <1>2 DEF ModuleOf
  <2>2. \A x : (\E t \in 1..turnNo + 1 : ModuleOf(x, script[t])) <=>
               (\E t \in 1..turnNo : ModuleOf(x, script[t])) \/ ModuleOf(x, script[turnNo + 1])
    BY <1>1, StartedNext
  <2> QED BY <1>4, <1>6, <2>1, <2>2 DEF StartedTold
<1>10. Verdict'
  BY <1>1, <1>4 DEF Verdict
<1> QED BY <1>4, <1>5, <1>6, <1>7, <1>8, <1>9, <1>10, ToldAgain

(* The held work that a read is of is the module evaluated next.           *)
LEMMA WorkFound ==
  ASSUME at \in Nat, Len(log) \in Nat, NEW id, id \in starters \ started,
         NEW n \in at..Len(log), log[n] = Task(id, "platform"),
         \A i \in at..n - 1 : log[i].rec \notin {"Task", "End", "Refusal"}
  PROVE  WorkAfter = id
<1> DEFINE later == {i \in at..Len(log) : log[i].rec \in {"Task", "End", "Refusal"}}
           m == CHOOSE i \in later : \A j \in later : i <= j
<1>1. log[n].rec = "Task" /\ log[n].id = id
  BY RecordsTell
<1>2. n \in later /\ \A j \in later : n <= j
  <2>1. n \in later
    BY <1>1
  <2>2. ASSUME NEW j \in later, ~(n <= j)
        PROVE  FALSE
    <3>1. j \in at..n - 1
      BY <2>2
    <3> QED BY <2>2, <3>1
  <2> QED BY <2>1, <2>2
<1>3. m \in later /\ \A j \in later : m <= j
  BY <1>2
<1>4. m = n
  BY <1>2, <1>3
<1>5. WorkAfter = IF log[m].rec = "Task" /\ log[m].id \in starters \ started THEN log[m].id ELSE 0
  BY DEF WorkAfter
<1> HIDE DEF m
<1> QED BY <1>1, <1>4, <1>5

(* The scheduler goes on as the page went on. *)
LEMMA ScheduledTold ==
  ASSUME Replayable, IInv, SessionTold, ReplayTold, Scheduled
  PROVE  ReplayTold' /\ Verdict'
<1>1. Replaying /\ ~turn
  BY DEF Scheduled, AtEnd, RunTask, StartTask, MissingRead, Arrive, EvaluateAwaited, Scheduling,
         PageIdle
<1>0. PICK p : Keeps(p)
  BY DEF IInv
<1> DEFINE a == p[turnNo][opNo]
           u == script[turnNo + 1]
<1>2. /\ Len(log) \in Nat \ {0} /\ at \in 1..Len(log) /\ log[Len(log)] = End
      /\ script \in Seq(Turns) /\ Len(script) \in Nat \ {0}
      /\ kinds \in Seq(Kinds) /\ DOMAIN kinds = 1..Len(kinds) /\ Len(kinds) \in Nat
      /\ nextTask \in Nat \ {0} /\ turnNo \in 1..Len(script) /\ a \in 0..Len(log) - 1
      /\ verdict = "running" /\ phase = "replay" /\ awaited \in Nat
      /\ awaited = 0 => at = a + 1
      /\ awaited # 0 => at = a + 2 /\ log[a + 1].rec = "Task"
      /\ opNo = Len(script[turnNo].ops)
  BY <1>0, <1>1, Here
<1>3. \/ EndsAt(a)
      \/ turnNo < Len(script) /\ TaskAt(a, u)
      \/ turnNo < Len(script) /\ log[a + 1] = Refusal
      \/ turnNo < Len(script) /\ ModuleAt(a, u)
  BY <1>0, <1>1, NextTurn
<1>4. /\ RegisteredTold(at, nextTask)
      /\ HandlersTold(nextTask, awaited, turnNo, handlers, starters)
      /\ StartedTold(turnNo, started) /\ HandedAgain(at, rHanded)
      /\ AwaitedTold(at, awaited)
  BY <1>1, ToldHere
<1>5. ~HasOp
  BY <1>1, <1>2 DEF HasOp, ThisTurn
<1>6. \A how : Ends(how) => UNCHANGED <<phase, log, script>>
  BY DEF Ends
<1>7. \A id, from : Lets(id, from) => UNCHANGED <<phase, log, script>>
  BY DEF Lets, BeginsAgain, Ends
<1> HIDE DEF a, u
(* The task or the module that is next is known to the replay.             *)
<1>8. ASSUME TaskAt(a, u) \/ ModuleAt(a, u), awaited = 0
      PROVE  u.id \in handlers /\ (kinds[u.id] = "import" => u.id \in starters)
  <2>1. u.id \in DOMAIN kinds /\ Registered(u.id, a, log)
        /\ Unspent(u.id, turnNo, script, kinds)
    BY <1>8 DEF TaskAt, ModuleAt
  <2>2. at - 1 = a /\ u.id \in Nat /\ u.id # awaited
    <3> DEFINE x == u.id
    <3>1. x \in 1..Len(kinds) /\ Len(kinds) \in Nat
      BY <1>2, <2>1
    <3>2. awaited = 0 /\ at = a + 1 /\ a \in Nat
      BY <1>2, <1>8
    <3> HIDE DEF x
    <3>3. x \in Nat /\ x # 0
      BY <3>1
    <3>4. at - 1 = a
      BY <3>2
    <3> QED BY <3>2, <3>3, <3>4 DEF x
  <2>3. u.id \in 1..nextTask - 1
    BY <1>4, <2>1, <2>2 DEF RegisteredTold
  <2> QED BY <1>4, <2>1, <2>2, <2>3 DEF HandlersTold
<1>9. TaskAt(a, u) /\ kinds[u.id] = "import" => u.id \in started
  <2>1. turnNo \in 1..turnNo
    BY <1>2
  <2>2. TaskAt(a, u) => u.id \in Nat
    BY <1>2 DEF TaskAt
  <2> QED BY <1>4, <2>1, <2>2 DEF StartedTold, TaskAt
<1>10. ModuleAt(a, u) => u.id \notin started
  <2>1. ModuleAt(a, u) => u.id \in Nat
    BY <1>2 DEF ModuleAt
  <2> QED BY <1>4, <2>1 DEF StartedTold, ModuleAt
<1>11. turnNo < Len(script) => u = script[turnNo + 1]
  BY DEF u
<1>12. a \in Nat
  BY <1>2
(* While a task released waits, it is that task's, or its module's, turn.  *)
<1>13. ASSUME awaited # 0
       PROVE  /\ turnNo < Len(script)
              /\ \/ TaskAt(a, u) /\ u.id = awaited
                 \/ ModuleAt(a, u) /\ u.id = awaited
  <2>1. at = a + 2 /\ log[a + 1] = Task(awaited, "platform")
    <3>1. at = a + 2
      BY <1>2, <1>13
    <3>2. at - 1 = a + 1
      BY <1>12, <3>1
    <3> QED BY <1>4, <1>13, <3>1, <3>2 DEF AwaitedTold
  <2>2. log[a + 1].rec = "Task" /\ log[a + 1].id = awaited
    BY <2>1, RecordsTell
  <2>3. ~EndsAt(a) /\ log[a + 1] # Refusal
    BY <2>2, RecordsTell DEF EndsAt
  <2>4. CASE turnNo < Len(script) /\ TaskAt(a, u)
    <3>1. log[a + 1].id = u.id
      BY <2>4, RecordsTell DEF TaskAt
    <3> QED BY <2>2, <2>4, <3>1
  <2>5. CASE turnNo < Len(script) /\ ModuleAt(a, u)
    <3>1. PICK n \in a + 1..Len(log) :
            /\ log[n] = Task(u.id, "platform")
            /\ \A i \in a + 1..n - 1 : log[i].rec \notin {"Task", "End", "Refusal"}
      BY <2>5 DEF ModuleAt
    <3>2. a + 1 \notin a + 1..n - 1
      BY <2>2, <3>1
    <3>3. n = a + 1
      BY <1>2, <1>12, <3>1, <3>2
    <3>4. log[a + 1].id = u.id
      BY <3>1, <3>3, RecordsTell
    <3> QED BY <2>2, <2>5, <3>4
  <2> QED BY <1>3, <2>3, <2>4, <2>5
<1>14. CASE AtEnd
  <2>1. awaited = 0 /\ Terminated /\ Ends(Terminal)
    BY <1>14 DEF AtEnd, Scheduling
  <2>2. CASE log[at] = End
    <3>1. log[a + 1] = End /\ End.rec = "End"
      BY <1>2, <2>1, <2>2, RecordsTell
    <3>2. ~TaskAt(a, u) /\ log[a + 1] # Refusal
      BY <3>1, RecordsTell DEF TaskAt
    <3>3. ~ModuleAt(a, u)
      <4> SUFFICES ASSUME ModuleAt(a, u) PROVE FALSE
        OBVIOUS
      <4>1. PICK n \in a + 1..Len(log) :
              /\ log[n] = Task(u.id, "platform")
              /\ \A i \in a + 1..n - 1 : log[i].rec \notin {"Task", "End", "Refusal"}
        BY DEF ModuleAt
      <4>2. a + 1 \notin a + 1..n - 1
        BY <3>1, <4>1
      <4>3. n = a + 1
        BY <1>2, <1>12, <4>1, <4>2
      <4> QED BY <3>1, <4>1, <4>3, RecordsTell
    <3>4. turnNo = Len(script)
      BY <1>3, <3>2, <3>3 DEF EndsAt
    <3>5. Terminal = "done"
      BY <2>2 DEF Terminal, Cursor
    <3> QED BY <1>1, <1>5, <2>1, <3>4, <3>5, EndsTold
  <2>3. CASE log[at] # End
    <3>1. Terminal = "non-replayable"
      BY <2>3 DEF Terminal, Cursor
    <3> QED BY <1>1, <2>1, <3>1, EndsTold
  <2> QED BY <2>2, <2>3
(* A read nobody has made is of the module evaluated next.                 *)
<1>15. ASSUME awaited = 0, log[at].rec \notin {"Task", "End", "Refusal"}
       PROVE  turnNo < Len(script) /\ ModuleAt(a, u) /\ WorkAfter = u.id
  <2>1. at = a + 1
    BY <1>2, <1>15
  <2>2. ~EndsAt(a) /\ log[a + 1] # Refusal /\ ~TaskAt(a, u)
    BY <1>15, <2>1, RecordsTell DEF EndsAt, TaskAt
  <2>3. turnNo < Len(script) /\ ModuleAt(a, u)
    BY <1>3, <2>2
  <2>4. PICK n \in a + 1..Len(log) :
          /\ log[n] = Task(u.id, "platform")
          /\ \A i \in a + 1..n - 1 : log[i].rec \notin {"Task", "End", "Refusal"}
    BY <2>3 DEF ModuleAt
  <2>5. u.id \in starters \ started
    BY <1>8, <1>10, <1>15, <2>3 DEF ModuleAt
  <2>6. at \in Nat /\ Len(log) \in Nat
    BY <1>2
  <2>7. WorkAfter = u.id
    BY <2>1, <2>4, <2>5, <2>6, WorkFound
  <2> QED BY <2>3, <2>7
<1>16. CASE MissingRead
  <2>1. awaited = 0 /\ log[at].rec \notin {"Task", "End", "Refusal"} /\ Starts = 0
    BY <1>16 DEF MissingRead, Scheduling, Cursor
  <2>2. Starts = u.id /\ u.id # 0
    <3>1. ModuleAt(a, u) /\ WorkAfter = u.id
      BY <1>15, <2>1
    <3>2. u.id # 0
      BY <1>2, <3>1 DEF ModuleAt
    <3> QED BY <2>1, <3>1, <3>2 DEF Starts, Cursor
  <2> QED BY <2>1, <2>2
<1>17. CASE StartTask
  <2>1. /\ awaited = 0 /\ Starts # 0 /\ started' = started \cup {Starts}
        /\ BeginsAgain(Starts, "module", None, 0, 0)
        /\ UNCHANGED <<recorder, handlers, starters, awaited, rHanded>>
    BY <1>17 DEF StartTask, Scheduling
  <2>2. log[at].rec \notin {"Task", "End", "Refusal"} /\ Starts = WorkAfter
    BY <2>1 DEF Starts, Cursor
  <2>3. turnNo < Len(script) /\ ModuleAt(a, u) /\ Starts = u.id
    BY <1>15, <2>1, <2>2
  <2>4. Kept
    BY <2>1 DEF Kept, BeginsAgain
  <2> QED BY <1>0, <1>1, <1>11, <2>1, <2>3, <2>4, ModuleTold DEF a
<1>18. CASE RunTask
  <2> DEFINE id == Cursor.id
  <2>1. /\ awaited = 0 /\ log[at].rec = "Task" /\ UNCHANGED recorder /\ at = a + 1
    BY <1>2, <1>18 DEF RunTask, Scheduling, Cursor
  <2>2. ~EndsAt(a) /\ log[a + 1] # Refusal
    BY <2>1, RecordsTell DEF EndsAt
  <2>3. /\ turnNo < Len(script) /\ log[at] = Task(u.id, TaskKind(kinds[u.id]))
        /\ TaskAt(a, u) \/ (ModuleAt(a, u) /\ TaskKind(kinds[u.id]) = "platform")
    <3>1. CASE turnNo < Len(script) /\ TaskAt(a, u)
      BY <2>1, <3>1 DEF TaskAt
    <3>2. CASE turnNo < Len(script) /\ ModuleAt(a, u)
      <4>1. PICK n \in a + 1..Len(log) :
              /\ log[n] = Task(u.id, "platform")
              /\ \A i \in a + 1..n - 1 : log[i].rec \notin {"Task", "End", "Refusal"}
        BY <3>2 DEF ModuleAt
      <4>2. a + 1 \notin a + 1..n - 1
        BY <2>1, <4>1
      <4>3. n = a + 1
        BY <1>2, <1>12, <4>1, <4>2
      <4>4. kinds[u.id] = "import" /\ TaskKind("import") = "platform"
        BY <3>2 DEF ModuleAt, TaskKind, Timers
      <4> QED BY <2>1, <3>2, <4>1, <4>3, <4>4
    <3> QED BY <1>3, <2>2, <3>1, <3>2
  <2>4. id = u.id /\ Cursor.query = TaskKind(kinds[u.id]) /\ id \in handlers
    BY <1>8, <2>1, <2>3, RecordsTell DEF Cursor
  <2>5. /\ handlers' = IF kinds[id] \in Repeats THEN handlers ELSE handlers \ {id}
        /\ IF \/ WaitsFor(id) /\ id \notin arrived
              \/ kinds[id] = "import" /\ id \notin started
           THEN /\ awaited' = id /\ at' = at + 1
                /\ UNCHANGED <<phase, log, nextTask, script, turn, turnNo, opNo, verdict>>
           ELSE Lets(id, 1) /\ awaited' = 0
        /\ UNCHANGED <<starters, started, arrived, rHanded>>
    BY <1>18, <2>4 DEF RunTask
  <2> HIDE DEF id
  <2>6. CASE \/ WaitsFor(id) /\ id \notin arrived
             \/ kinds[id] = "import" /\ id \notin started
    <3>1. /\ awaited' = id /\ at' = at + 1 /\ handlers' \in {handlers, handlers \ {id}}
          /\ UNCHANGED <<phase, log, nextTask, script, turn, turnNo, opNo, verdict>>
          /\ UNCHANGED <<starters, started, arrived, rHanded>>
      BY <2>5, <2>6
    <3>2. UNCHANGED <<phase, log, script, kinds>>
      BY <2>1, <3>1 DEF recorder
    <3>3. log[at].rec # "TaskReg" /\ log[at] # Ready(0) /\ at \in Nat \ {0}
      BY <1>2, <2>1, RecordsTell
    <3>4. RegisteredTold(at', nextTask') /\ HandedAgain(at', rHanded')
      BY <1>2, <1>4, <3>1, <3>3, PastRecord, PastHanded
    <3>5. HandlersTold(nextTask', awaited', turnNo', handlers', starters')
      BY <1>4, <2>1, <3>1, <1>2 DEF HandlersTold
    <3>6. StartedTold(turnNo', started')
      BY <1>4, <3>1
    <3>7. AwaitedTold(at', awaited')
      <4>1. kinds[id] \in Plain \cup {"bitmap", "import"}
        BY <2>6 DEF WaitsFor
      <4>2. TaskKind(kinds[id]) = "platform"
        BY <4>1 DEF TaskKind, Plain, Timers
      <4>3. at' - 1 = at
        BY <3>1, <3>3
      <4> QED BY <2>3, <2>4, <2>6, <3>1, <4>2, <4>3 DEF AwaitedTold
    <3>8. Verdict'
      BY <1>2, <3>1 DEF Verdict
    <3> QED BY <3>2, <3>4, <3>5, <3>6, <3>7, <3>8, ToldAgain
  <2>7. CASE ~(\/ WaitsFor(id) /\ id \notin arrived
               \/ kinds[id] = "import" /\ id \notin started)
    <3>1. Lets(u.id, 1) /\ awaited' = 0
      BY <2>4, <2>5, <2>7
    <3>2. TaskAt(a, u)
      BY <1>10, <2>3, <2>4, <2>7 DEF ModuleAt
    <3>3. Kept
      BY <1>7, <2>1, <3>1 DEF Kept
    <3>4. at + 1 = a + 2 /\ awaited \in {0, u.id} /\ 1 \in {0, 1}
      BY <1>12, <2>1
    <3>5. \A x \in handlers : x # u.id \/ kinds[u.id] \in Repeats => x \in handlers'
      BY <2>4, <2>5
    <3>6. UNCHANGED <<starters, started, rHanded>>
      BY <2>5
    <3> QED BY <1>0, <1>1, <1>11, <2>1, <2>3, <3>1, <3>2, <3>3, <3>4, <3>5, <3>6, LetsTold DEF a
  <2> QED BY <2>6, <2>7
<1>19. CASE Arrive
  <2>1. /\ UNCHANGED <<recorder, handlers, starters, started, rHanded>>
        /\ \E id \in (1..(nextTask - 1)) \ arrived :
             /\ WaitsFor(id)
             /\ IF awaited = id THEN Lets(id, 0) /\ awaited' = 0
                ELSE UNCHANGED <<session, awaited>>
    BY <1>19 DEF Arrive
  <2>2. PICK id \in (1..(nextTask - 1)) \ arrived :
          /\ WaitsFor(id)
          /\ IF awaited = id THEN Lets(id, 0) /\ awaited' = 0
             ELSE UNCHANGED <<session, awaited>>
    BY <2>1
  <2>3. CASE awaited = id
    <3>1. Lets(id, 0) /\ awaited' = 0 /\ awaited # 0
      BY <1>2, <2>2, <2>3
    <3>2. kinds[awaited] # "import" /\ kinds[awaited] \notin Repeats
      BY <2>2, <2>3 DEF WaitsFor, Plain, Repeats
    <3>3. turnNo < Len(script) /\ TaskAt(a, u) /\ u.id = awaited
      BY <1>13, <3>1, <3>2 DEF ModuleAt
    <3>4. Kept
      BY <1>7, <2>1, <3>1 DEF Kept
    <3>5. at + 0 = a + 2 /\ 0 \in {0, 1} /\ Lets(u.id, 0)
      BY <1>2, <1>12, <2>3, <3>1, <3>3
    <3> QED BY <1>0, <1>1, <1>11, <2>1, <3>1, <3>2, <3>3, <3>4, <3>5, LetsTold DEF a
  <2>4. CASE awaited # id
    <3>1. /\ UNCHANGED <<phase, log, script, kinds>>
          /\ UNCHANGED <<nextTask, at, turnNo, opNo, verdict, awaited, handlers, starters,
                         started, rHanded>>
      BY <2>1, <2>2, <2>4 DEF session, recorder
    <3>2. ReplayTold'
      BY <1>4, <3>1, ToldAgain
    <3> QED BY <1>2, <3>1, <3>2 DEF Verdict
  <2> QED BY <2>3, <2>4
<1>20. CASE EvaluateAwaited
  <2>1. /\ awaited # 0 /\ kinds[awaited] = "import"
        /\ UNCHANGED <<recorder, handlers, starters, arrived, rHanded>>
        /\ IF awaited \notin started
           THEN /\ started' = started \cup {awaited} /\ UNCHANGED awaited
                /\ BeginsAgain(awaited, "module", None, 0, 0)
           ELSE Lets(awaited, 0) /\ awaited' = 0 /\ UNCHANGED started
    BY <1>20 DEF EvaluateAwaited
  <2>2. /\ turnNo < Len(script) /\ u.id = awaited
        /\ IF awaited \in started THEN TaskAt(a, u) ELSE ModuleAt(a, u)
    BY <1>9, <1>10, <1>13, <2>1
  <2>3. CASE awaited \notin started
    <3>1. Kept
      BY <2>1, <2>3 DEF Kept, BeginsAgain
    <3> QED BY <1>0, <1>1, <1>11, <2>1, <2>2, <2>3, <3>1, ModuleTold DEF a
  <2>4. CASE awaited \in started
    <3>1. Lets(u.id, 0) /\ awaited' = 0 /\ UNCHANGED started
      BY <2>1, <2>2, <2>4
    <3>2. Kept
      BY <1>7, <2>1, <3>1 DEF Kept
    <3>3. at + 0 = a + 2 /\ 0 \in {0, 1}
      BY <1>2, <1>12, <2>1
    <3>4. kinds[u.id] \notin Repeats
      BY <2>1, <2>2 DEF Repeats
    <3> QED BY <1>0, <1>1, <1>11, <2>1, <2>2, <2>4, <3>1, <3>2, <3>3, <3>4, LetsTold DEF a
  <2> QED BY <2>3, <2>4
<1> QED BY <1>14, <1>16, <1>17, <1>18, <1>19, <1>20 DEF Scheduled

-----------------------------------------------------------------------------
(* What the recorder does tells on. *)

LEMMA Recorded ==
  ASSUME ReplayInv, Recording
  PROVE  /\ script \in Seq(Turns) /\ Len(script) \in Nat \ {0} /\ DOMAIN script = 1..Len(script)
         /\ \A t \in 1..Len(script) : /\ script[t] \in Turns /\ script[t].ops \in Seq(Steps)
                                      /\ Len(script[t].ops) \in Nat
         /\ log \in Seq(Records) /\ Len(log) \in Nat
         /\ kinds \in Seq(Kinds) /\ Len(kinds) \in Nat /\ DOMAIN kinds = 1..Len(kinds)
         /\ nextTask = Len(kinds) + 1 /\ nextTask \notin DOMAIN kinds /\ Pending \subseteq DOMAIN kinds
         /\ phase = "record" /\ verdict = "running"
         /\ \A t \in 1..Len(script) :
              /\ script[t].part \in {"task", "module"} => script[t].id \in DOMAIN kinds
              /\ script[t].part = "module" => kinds[script[t].id] = "import"
         /\ \A t \in 1..Len(script) : \A j \in 1..Len(script[t].ops) : \A id :
              script[t].ops[j].op = <<"clear", id>> => id \in DOMAIN kinds
         /\ \A i \in 1..Len(log) : log[i].rec = "TaskReg" => log[i].id \in DOMAIN kinds
<1>1. /\ script \in Seq(Turns) /\ script # <<>> /\ log \in Seq(Records) /\ kinds \in Seq(Kinds)
      /\ phase = "record" /\ live \subseteq DOMAIN kinds
      /\ \A i \in DOMAIN settled : settled[i] \in DOMAIN kinds
  BY DEF ReplayInv, IInv, Typed, SessionTyped, RecorderTyped, Recording
<1>2. /\ Len(script) \in Nat \ {0} /\ DOMAIN script = 1..Len(script) /\ Len(log) \in Nat
      /\ Len(kinds) \in Nat /\ DOMAIN kinds = 1..Len(kinds)
      /\ \A t \in 1..Len(script) : script[t] \in Turns
  BY <1>1, LenProperties
<1>3. \A t \in 1..Len(script) : script[t].ops \in Seq(Steps) /\ Len(script[t].ops) \in Nat
  <2>1. \A u \in Turns : u.ops \in Seq(Steps) /\ Len(u.ops) \in Nat
    BY DEF Turns
  <2> QED BY <1>2, <2>1
<1>4. nextTask = Len(kinds) + 1 /\ verdict = "running"
  BY <1>1 DEF ReplayInv, IInv, Unreplayed
<1>5. nextTask \notin DOMAIN kinds /\ Pending \subseteq DOMAIN kinds
  BY <1>1, <1>2, <1>4 DEF Pending
<1>6. \A t \in 1..Len(script) :
        /\ script[t].part \in {"task", "module"} => script[t].id \in DOMAIN kinds
        /\ script[t].part = "module" => kinds[script[t].id] = "import"
  <2> TAKE t \in 1..Len(script)
  <2>1. CASE t = 1
    BY <2>1 DEF ReplayInv, SessionTold, Turned
  <2>2. CASE t \in 2..Len(script)
    BY <2>2 DEF ReplayInv, SessionTold, Turned, Follow
  <2> QED BY <1>2, <2>1, <2>2
<1>7. ASSUME NEW t \in 1..Len(script), NEW j \in 1..Len(script[t].ops), NEW id,
             script[t].ops[j].op = <<"clear", id>>
      PROVE  id \in DOMAIN kinds
  <2>1. PICK p : Keeps(p)
    BY DEF ReplayInv, IInv
  <2>2. Wrote(script[t].ops[j], p[t][j - 1], p[t][j], log, kinds)
    BY <1>2, <2>1 DEF Keeps, Placed
  <2>3. script[t].ops[j].op[1] = "clear" /\ script[t].ops[j].op[2] = id
    BY <1>7
  <2> QED BY <2>2, <2>3 DEF Wrote
<1>8. ASSUME NEW i \in 1..Len(log), log[i].rec = "TaskReg"
      PROVE  log[i].id \in DOMAIN kinds
  <2>1. log[i] \in Records
    BY <1>1
  <2>2. log[i].id \in Nat
    BY <2>1 DEF Records
  <2>3. Registered(log[i].id, Len(log), log)
    BY <1>8 DEF Registered
  <2> QED BY <1>2, <2>2, <2>3 DEF ReplayInv, IInv, Counted
<1> QED BY <1>1, <1>2, <1>3, <1>4, <1>5, <1>6, <1>7, <1>8

(* What is written tells of files and of refusals.                         *)
LEMMA LogTells ==
  ASSUME ReplayInv, Recording, phase' = "record", page' = page, script' # <<>>,
         NEW w \in Seq(Records), log' = log \o w,
         \A id \in DOMAIN kinds : id \in DOMAIN kinds' /\ kinds'[id] = kinds[id],
         \A id \in DOMAIN kinds' : id \in DOMAIN kinds \/ (kinds'[id] = "import" => "import" \in page),
         \A i \in 1..Len(w) : w[i].rec = "TaskReg" /\ kinds'[w[i].id] = "file" =>
            \/ \E j \in 1..Len(log) : log[j] = Refusal
            \/ i = 2 /\ w[1] = Refusal,
         \A i \in 1..Len(w) : w[i].rec = "Refusal" => "refused" \in page \/ "file" \in page
  PROVE  Withheld' /\ PageTold'
<1>1. /\ log \in Seq(Records) /\ Len(log) \in Nat
      /\ \A i \in 1..Len(log) : log[i].rec = "TaskReg" => log[i].id \in DOMAIN kinds
  BY Recorded
<1>2. /\ Len(log') = Len(log) + Len(w) /\ Len(w) \in Nat
      /\ \A i \in 1..Len(log) : log'[i] = log[i]
      /\ \A i \in 1..Len(w) : log'[Len(log) + i] = w[i]
  BY <1>1, LogGrows, LenProperties
<1> DEFINE m == Len(log)
           n == Len(w)
<1>3. /\ m \in Nat /\ n \in Nat /\ Len(log') = m + n /\ (\A i \in 1..m : log'[i] = log[i])
      /\ (\A i \in 1..n : log'[m + i] = w[i])
  BY <1>1, <1>2
<1>4. Withheld /\ PageTold
  BY DEF ReplayInv, SessionTold
<1>5. \A i \in 1..Len(log') : i \in 1..m \/ (i - m \in 1..n /\ log'[i] = w[i - m])
  <2> HIDE DEF m, n
  <2> TAKE i \in 1..Len(log')
  <2>1. CASE i \notin 1..m
    <3>1. i - m \in 1..n /\ m + (i - m) = i
      BY <1>3, <2>1
    <3> QED BY <1>3, <3>1
  <2> QED BY <2>1
<1>6. ASSUME NEW i \in 1..Len(log'), log'[i].rec = "TaskReg", kinds'[log'[i].id] = "file"
      PROVE  \E j \in 1..i - 1 : log'[j] = Refusal
  <2>1. CASE i \in 1..m
    <3>1. log'[i] = log[i] /\ kinds[log[i].id] = "file"
      BY <1>1, <1>2, <1>6, <2>1
    <3>2. PICK j \in 1..i - 1 : log[j] = Refusal
      BY <1>4, <1>6, <2>1, <3>1 DEF Withheld
    <3>3. j \in 1..m
      BY <1>1, <2>1
    <3> QED BY <1>2, <3>2, <3>3
  <2>2. CASE i \notin 1..m
    <3>1. i - m \in 1..n /\ log'[i] = w[i - m] /\ i \in Nat
      BY <1>3, <1>5, <2>2
    <3>2. \/ \E j \in 1..m : log[j] = Refusal
          \/ i - m = 2 /\ w[1] = Refusal
      BY <1>6, <3>1
    <3>3. CASE \E j \in 1..m : log[j] = Refusal
      <4>1. PICK j \in 1..m : log[j] = Refusal
        BY <3>3
      <4> HIDE DEF m, n
      <4>2. j \in 1..i - 1
        BY <1>3, <3>1
      <4> QED BY <1>3, <4>1, <4>2
    <3>4. CASE i - m = 2 /\ w[1] = Refusal
      <4> HIDE DEF m, n
      <4>1. m + 1 \in 1..i - 1 /\ 1 \in 1..n
        BY <1>3, <3>1, <3>4
      <4>2. log'[m + 1] = w[1]
        BY <1>3, <4>1
      <4> QED BY <3>4, <4>1, <4>2
    <3> QED BY <3>2, <3>3, <3>4
  <2> QED BY <2>1, <2>2
<1>7. \A i \in 1..Len(log') : log'[i].rec = "Refusal" => "refused" \in page \/ "file" \in page
  BY <1>2, <1>4, <1>5 DEF PageTold
<1>8. Withheld'
  BY <1>6 DEF Withheld
<1>9. PageTold'
  BY <1>4, <1>7 DEF PageTold
<1> QED BY <1>8, <1>9

(* The page makes a step. *)
LEMMA StepTells ==
  ASSUME ReplayInv, IInv', Recording, NEW op, NEW saw, NEW w \in Seq(Records), NEW ids,
         Does(op, saw, w, ids), UNCHANGED <<page, settled, started>>,
         \/ kinds' = kinds /\ live' \subseteq live
         \/ \E k \in Kinds : /\ kinds' = Append(kinds, k) /\ live' = live \cup {nextTask}
                             /\ k = "import" => "import" \in page,
         \A id \in live : id \in live' \/ kinds[id] \in Timers,
         \A id \in Pending' : op # <<"clear", id>>,
         \A i \in 1..Len(w) : w[i].rec = "TaskReg" /\ kinds'[w[i].id] = "file" =>
            \/ \E j \in 1..Len(log) : log[j] = Refusal
            \/ i = 2 /\ w[1] = Refusal,
         \A i \in 1..Len(w) : w[i].rec = "Refusal" => "refused" \in page \/ "file" \in page,
         \A i \in DOMAIN userContent' : userContent'[i] /\ "file" \in page
  PROVE  SessionTold' /\ RecorderTold'
<1> DEFINE T == Len(script)
           step == [op |-> op, saw |-> saw]
<1>1. /\ script \in Seq(Turns) /\ T \in Nat \ {0} /\ DOMAIN script = 1..T
      /\ \A t \in 1..T : /\ script[t] \in Turns /\ script[t].ops \in Seq(Steps)
                         /\ Len(script[t].ops) \in Nat
      /\ kinds \in Seq(Kinds) /\ Len(kinds) \in Nat /\ DOMAIN kinds = 1..Len(kinds)
      /\ nextTask = Len(kinds) + 1 /\ nextTask \notin DOMAIN kinds /\ Pending \subseteq DOMAIN kinds
      /\ phase = "record"
      /\ \A t \in 1..T :
           /\ script[t].part \in {"task", "module"} => script[t].id \in DOMAIN kinds
           /\ script[t].part = "module" => kinds[script[t].id] = "import"
      /\ \A t \in 1..T : \A j \in 1..Len(script[t].ops) : \A id :
           script[t].ops[j].op = <<"clear", id>> => id \in DOMAIN kinds
  BY Recorded
<1>2. /\ script' = [script EXCEPT ![T].ops = Append(@, step)]
      /\ log' = log \o w /\ phase' = "record"
  BY <1>1 DEF Does
<1>3. /\ Turned(script, kinds)
      /\ \A id \in Pending : Unspent(id, T, script, kinds)
      /\ \A i \in DOMAIN settled : settled[i] \notin live
      /\ \A i, j \in DOMAIN settled : settled[i] = settled[j] => i = j
      /\ LastTurn.part = "module" => LastTurn.id \in live
      /\ \A id \in live : Evaluated(id) => ModuleOf(id, LastTurn)
      /\ started = {}
  BY <1>1 DEF ReplayInv, SessionTold, RecorderTold
<1>4. /\ \A id \in DOMAIN kinds : id \in DOMAIN kinds' /\ kinds'[id] = kinds[id]
      /\ \A id \in DOMAIN kinds' : id \in DOMAIN kinds \/ (kinds'[id] = "import" => "import" \in page)
  BY <1>1
<1>5. /\ DOMAIN script' = 1..T /\ Len(script') = T /\ script' # <<>>
      /\ \A t \in 1..T : script'[t].part = script[t].part /\ script'[t].id = script[t].id
      /\ \A t \in 1..T : t # T => script'[t] = script[t]
      /\ script'[T].ops = Append(script[T].ops, step)
  <2>1. DOMAIN script' = 1..T
    BY <1>1, <1>2
  <2>2. Len(script') = T /\ script' # <<>>
    <3>1. script' \in Seq(Turns) /\ script' # <<>>
      BY DEF IInv, Typed, SessionTyped
    <3>2. Len(script') \in Nat /\ DOMAIN script' = 1..Len(script')
      BY <3>1, LenProperties
    <3> QED BY <1>1, <2>1, <3>1, <3>2
  <2>3. T \in 1..T
    BY <1>1
  <2> HIDE DEF step, T
  <2>4. \A t \in 1..T : t # T => script'[t] = script[t]
    BY <1>1, <1>2
  <2>5. /\ script'[T].ops = Append(script[T].ops, step)
        /\ script'[T].part = script[T].part /\ script'[T].id = script[T].id
    BY <1>1, <1>2, <2>3 DEF Turns
  <2> QED BY <2>1, <2>2, <2>4, <2>5
<1>6. \A j \in 1..Len(script'[T].ops) :
        \/ j \in 1..Len(script[T].ops) /\ script'[T].ops[j] = script[T].ops[j]
        \/ script'[T].ops[j].op = op
  <2>1. T \in 1..T
    BY <1>1
  <2> DEFINE s == script[T].ops
  <2>2. s \in Seq(Steps) /\ Len(s) \in Nat
    BY <1>1, <2>1
  <2> HIDE DEF s, step
  <2>3. /\ Len(Append(s, step)) = Len(s) + 1 /\ Append(s, step)[Len(s) + 1] = step
        /\ \A j \in 1..Len(s) : Append(s, step)[j] = s[j]
    BY <2>2
  <2>4. \A j \in 1..Len(s) + 1 : j \in 1..Len(s) \/ j = Len(s) + 1
    BY <2>2
  <2>5. script'[T].ops = Append(s, step) /\ step.op = op
    BY <1>5 DEF s, step
  <2> QED BY <2>3, <2>4, <2>5 DEF s
<1> HIDE DEF T, step
<1>7. ASSUME NEW t \in 2..T
      PROVE  Follow(t, script', kinds')
  <2>1. t \in 1..T /\ t - 1 \in 1..T /\ (\A s \in 1..t - 1 : s \in 1..T /\ s # T)
    BY <1>1
  <2>2. Follow(t, script, kinds)
    BY <1>3 DEF Turned, T
  <2>3. \A id : ModuleOf(id, script'[t - 1]) <=> ModuleOf(id, script[t - 1])
    BY <1>5, <2>1 DEF ModuleOf
  <2>4. \A s \in 1..t - 1 : script'[s] = script[s]
    BY <1>5, <2>1
  <2>5. ASSUME NEW id \in DOMAIN kinds, Unspent(id, t - 1, script, kinds)
        PROVE  Unspent(id, t - 1, script', kinds')
    <3>1. kinds'[id] = kinds[id]
      BY <1>4
    <3> DEFINE ks == kinds'
               scr == script'
    <3>2. /\ ks[id] = kinds[id] /\ \A s \in 1..t - 1 : scr[s] = script[s]
      BY <2>4, <3>1
    <3> HIDE DEF ks, scr
    <3>3. Unspent(id, t - 1, scr, ks)
      <4>1. ASSUME NEW s \in 1..t - 1
            PROVE  /\ scr[s].part = "task" /\ scr[s].id = id => ks[id] \in Repeats
                   /\ \A j \in 1..Len(scr[s].ops) : scr[s].ops[j].op # <<"clear", id>>
        <5>1. scr[s] = script[s]
          BY <3>2
        <5>2. /\ script[s].part = "task" /\ script[s].id = id => kinds[id] \in Repeats
              /\ \A j \in 1..Len(script[s].ops) : script[s].ops[j].op # <<"clear", id>>
          BY <2>5 DEF Unspent
        <5> QED BY <3>2, <5>1, <5>2
      <4> QED BY <4>1 DEF Unspent
    <3> QED BY <3>3 DEF ks, scr
  <2>6. script'[t].part = script[t].part /\ script'[t].id = script[t].id
        /\ script'[t - 1].part = script[t - 1].part /\ script'[t - 1].id = script[t - 1].id
    BY <1>5, <2>1
  <2>7. script[t].part \in {"task", "module"} =>
          script[t].id \in DOMAIN kinds' /\ kinds'[script[t].id] = kinds[script[t].id]
    BY <1>4, <2>2 DEF Follow
  <2> QED BY <2>2, <2>3, <2>4, <2>5, <2>6, <2>7 DEF Follow
<1>8. Turned(script', kinds')
  <2>1. script'[1].part = script[1].part
    <3>1. 1 \in 1..T
      BY <1>1
    <3> QED BY <1>5, <3>1
  <2> QED BY <1>3, <1>5, <1>7, <2>1 DEF Turned
<1>9. ASSUME NEW id \in Pending'
      PROVE  Unspent(id, T, script', kinds')
  <2>1. id \in Pending \/ id = nextTask
    BY DEF Pending
  <2>2. ASSUME NEW t \in 1..T, NEW j \in 1..Len(script'[t].ops), script'[t].ops[j].op = <<"clear", id>>
        PROVE  j \in 1..Len(script[t].ops) /\ script[t].ops[j].op = <<"clear", id>>
    <3>1. CASE t = T
      <4>1. j \in 1..Len(script'[T].ops) /\ script'[T].ops[j].op = <<"clear", id>>
        BY <2>2, <3>1
      <4>2. op # <<"clear", id>>
        OBVIOUS
      <4> QED BY <1>6, <3>1, <4>1, <4>2
    <3>2. CASE t # T
      <4>1. script'[t] = script[t]
        BY <1>5, <3>2
      <4> QED BY <2>2, <4>1
    <3> QED BY <3>1, <3>2
  <2>3. CASE id \in Pending
    <3>1. Unspent(id, T, script, kinds) /\ id \in DOMAIN kinds
      BY <1>1, <1>3, <2>3
    <3> QED BY <1>4, <1>5, <2>2, <3>1 DEF Unspent
  <2>4. CASE id = nextTask
    <3>1. \A t \in 1..T : ~(script'[t].part = "task" /\ script'[t].id = id)
      <4>1. ASSUME NEW t \in 1..T, script'[t].part = "task", script'[t].id = id
            PROVE  FALSE
        <5>1. script[t].part = "task" /\ script[t].id = nextTask
          BY <1>5, <2>4, <4>1
        <5>2. script[t].id \in DOMAIN kinds
          BY <1>1, <5>1
        <5> QED BY <1>1, <5>1, <5>2
      <4> QED BY <4>1
    <3>2. \A t \in 1..T : \A j \in 1..Len(script'[t].ops) : script'[t].ops[j].op # <<"clear", id>>
      BY <1>1, <2>2, <2>4
    <3> QED BY <3>1, <3>2 DEF Unspent
  <2> QED BY <2>1, <2>3, <2>4
<1>10. LastTurn'.part = LastTurn.part /\ LastTurn'.id = LastTurn.id
  <2>1. T \in 1..T
    BY <1>1
  <2> QED BY <1>5, <2>1 DEF LastTurn, T
<1>11. \A id : Evaluated(id)' <=> Evaluated(id)
  BY <1>1, <1>5 DEF Evaluated
<1>12. \A i \in DOMAIN settled' : settled'[i] \notin live'
  BY <1>1, <1>3 DEF Pending
<1>13. LastTurn'.part = "module" => LastTurn'.id \in live'
  <2>1. T \in 1..T
    BY <1>1
  <2>2. LastTurn.part = "module" => kinds[LastTurn.id] = "import"
    BY <1>1, <2>1 DEF LastTurn, T
  <2> QED BY <1>3, <1>10, <2>2 DEF Timers
<1>14. \A id \in live' : Evaluated(id)' => ModuleOf(id, LastTurn')
  <2>1. ~Evaluated(nextTask)
    BY <1>1 DEF Evaluated
  <2>2. \A id \in live' : id \in live \/ id = nextTask
    OBVIOUS
  <2> QED BY <1>3, <1>10, <1>11, <2>1, <2>2 DEF ModuleOf
<1>15. Withheld' /\ PageTold'
  BY <1>2, <1>4, <1>5, LogTells
<1>16. RecorderTold'
  BY <1>3, <1>5, <1>9, <1>12, <1>13, <1>14 DEF RecorderTold
<1> QED BY <1>8, <1>15, <1>16 DEF SessionTold

(* A turn of the page begins. *)
LEMMA TurnTells ==
  ASSUME ReplayInv, IInv', Recording, NEW id, NEW part \in {"task", "module", "event"}, NEW given,
         NEW w \in Seq(Records), Begins(id, part, given, w, 0),
         UNCHANGED <<page, kinds, userContent, started>>,
         live' \subseteq live, Pending' \subseteq Pending,
         \A i \in DOMAIN settled' : settled'[i] \notin live',
         \A i, j \in DOMAIN settled' : settled'[i] = settled'[j] => i = j,
         LastTurn.part = "module" => part = "task" /\ id = LastTurn.id,
         part = "task" => /\ id \in Pending
                          /\ id \in Pending' => kinds[id] \in Repeats
                          /\ kinds[id] = "import" => ModuleOf(id, LastTurn),
         part = "module" => id \in live' /\ kinds[id] = "import" /\ ~Evaluated(id),
         \A i \in 1..Len(w) : w[i].rec # "TaskReg",
         \A i \in 1..Len(w) : w[i].rec = "Refusal" => "refused" \in page
  PROVE  SessionTold' /\ RecorderTold'
<1> DEFINE T == Len(script)
           u == Turn(id, part, given)
<1>1. /\ script \in Seq(Turns) /\ T \in Nat \ {0} /\ DOMAIN script = 1..T
      /\ \A t \in 1..T : script[t] \in Turns
      /\ DOMAIN kinds = 1..Len(kinds) /\ Pending \subseteq DOMAIN kinds /\ phase = "record"
      /\ live \subseteq Pending
      /\ \A t \in 1..T :
           /\ script[t].part \in {"task", "module"} => script[t].id \in DOMAIN kinds
           /\ script[t].part = "module" => kinds[script[t].id] = "import"
  BY Recorded DEF Pending
<1>2. /\ script' = Append(script, u) /\ log' = log \o w /\ phase' = "record"
      /\ kinds' = kinds /\ page' = page
  BY <1>1 DEF Begins
<1>3. u.id = id /\ u.part = part /\ u.ops = <<>> /\ Len(u.ops) = 0
  BY DEF Turn
<1>4. /\ Turned(script, kinds)
      /\ \A x \in Pending : Unspent(x, T, script, kinds)
      /\ LastTurn.part = "module" => LastTurn.id \in live
      /\ \A x \in live : Evaluated(x) => ModuleOf(x, LastTurn)
      /\ \A i \in DOMAIN userContent : userContent[i] /\ "file" \in page
      /\ started = {}
  BY <1>1 DEF ReplayInv, SessionTold, RecorderTold
<1>40. LastTurn = script[T] /\ T \in 1..T
  BY <1>1 DEF LastTurn
<1> HIDE DEF u
<1>5. /\ DOMAIN script' = 1..T + 1 /\ Len(script') = T + 1 /\ script' # <<>>
      /\ \A t \in 1..T : script'[t] = script[t]
      /\ script'[T + 1] = u /\ LastTurn' = u
  <2> DEFINE scr == script'
  <2>1. scr = Append(script, u)
    BY <1>2
  <2>2. /\ DOMAIN scr = 1..T + 1 /\ Len(scr) = T + 1
        /\ (\A t \in 1..T : scr[t] = script[t]) /\ scr[T + 1] = u
    BY <1>1, <2>1
  <2>3. scr # <<>>
    BY <1>1, <2>2
  <2> HIDE DEF scr
  <2> QED BY <2>2, <2>3 DEF LastTurn, scr
<1> HIDE DEF T
<1>6. ASSUME NEW x, NEW n \in 0..T
      PROVE  Unspent(x, n, script, kinds) <=> Unspent(x, n, script', kinds')
  <2> DEFINE scr == script'
  <2>1. \A t \in 1..n : scr[t] = script[t]
    <3>1. \A t \in 1..n : t \in 1..T
      BY <1>1
    <3> QED BY <1>5, <3>1
  <2> HIDE DEF scr
  <2>2. Unspent(x, n, script, kinds) <=> Unspent(x, n, scr, kinds)
    BY <2>1, ZenonT(60) DEF Unspent
  <2> QED BY <1>2, <2>2 DEF scr
<1>7. ASSUME NEW t \in 2..T
      PROVE  Follow(t, script', kinds')
  <2>1. t \in 1..T /\ t - 1 \in 1..T /\ t - 1 \in 0..T /\ \A s \in 1..t - 1 : s \in 1..T
    BY <1>1
  <2>2. Follow(t, script, kinds)
    BY <1>4 DEF Turned, T
  <2>3. script'[t] = script[t] /\ script'[t - 1] = script[t - 1]
        /\ \A s \in 1..t - 1 : script'[s] = script[s]
    BY <1>5, <2>1
  <2>4. Unspent(script[t].id, t - 1, script, kinds) <=> Unspent(script[t].id, t - 1, script', kinds')
    BY <1>6, <2>1
  <2> QED BY <1>2, <2>2, <2>3, <2>4 DEF Follow
<1>8. Follow(T + 1, script', kinds')
  <2>1. (T + 1) - 1 = T /\ T \in 0..T
    BY <1>1
  <2>2. script'[T] = LastTurn
    BY <1>5, <1>40
  <2>3. part \in {"task", "module"} => id \in DOMAIN kinds
    BY <1>1
  <2>4. part = "task" => Unspent(id, T, script', kinds')
    BY <1>4, <1>6, <2>1
  <2>5. part = "module" => \A s \in 1..T : ~ModuleOf(id, script'[s])
    BY <1>1, <1>5 DEF Evaluated, ModuleOf
  <2> DEFINE next == T + 1
             v == script'[next]
  <2>6. v.part = part /\ v.id = id /\ next - 1 = T /\ kinds' = kinds
    BY <1>2, <1>3, <1>5, <2>1
  <2> HIDE DEF next, v
  <2>7. v.part = "task" =>
          /\ Unspent(v.id, next - 1, script', kinds')
          /\ kinds'[v.id] = "import" => ModuleOf(v.id, script'[next - 1])
    BY <2>2, <2>4, <2>6
  <2>8. v.part = "module" =>
          /\ kinds'[v.id] = "import"
          /\ \A s \in 1..next - 1 : ~ModuleOf(v.id, script'[s])
    BY <2>5, <2>6
  <2>9. script'[next - 1].part = "module" => v.part = "task" /\ v.id = script'[next - 1].id
    BY <2>2, <2>6
  <2>10. Follow(next, script', kinds')
    BY <2>3, <2>6, <2>7, <2>8, <2>9 DEF Follow, v
  <2> QED BY <2>10 DEF next
<1>9. Turned(script', kinds')
  <2>1. script'[1] = script[1]
    <3>1. 1 \in 1..T
      BY <1>1
    <3> QED BY <1>5, <3>1
  <2>2. \A t \in 2..T + 1 : t \in 2..T \/ t = T + 1
    BY <1>1
  <2> QED BY <1>4, <1>5, <1>7, <1>8, <2>1, <2>2 DEF Turned
<1>10. ASSUME NEW x \in Pending'
       PROVE  Unspent(x, T + 1, script', kinds')
  <2>1. T \in 0..T /\ \A t \in 1..T + 1 : t \in 1..T \/ t = T + 1
    BY <1>1
  <2>2. Unspent(x, T, script', kinds')
    BY <1>4, <1>6, <2>1
  <2>3. u.part = "task" /\ u.id = x => kinds'[x] \in Repeats
    BY <1>2, <1>3
  <2>4. \A j \in 1..Len(u.ops) : FALSE
    BY <1>3
  <2> QED BY <1>5, <2>1, <2>2, <2>3, <2>4 DEF Unspent
<1>11. ASSUME NEW x \in live', Evaluated(x)'
       PROVE  ModuleOf(x, LastTurn')
  <2>1. Evaluated(x) \/ (u.id = x /\ u.part = "module")
    <3>1. PICK t \in 1..T + 1 : script'[t].id = x /\ script'[t].part = "module"
      BY <1>5, <1>11 DEF Evaluated
    <3>2. t \in 1..T \/ t = T + 1
      BY <1>1
    <3> QED BY <1>1, <1>5, <3>1, <3>2 DEF Evaluated
  <2>2. CASE Evaluated(x)
    <3>1. ModuleOf(x, LastTurn)
      BY <1>4, <2>2
    <3>2. part = "task" /\ id = x /\ kinds[x] = "import"
      BY <1>1, <1>40, <3>1 DEF ModuleOf
    <3>3. x \in Pending' /\ "import" \notin Repeats
      BY DEF Pending, Repeats
    <3> QED BY <3>2, <3>3
  <2> QED BY <1>5, <2>1, <2>2 DEF ModuleOf
<1>12. LastTurn'.part = "module" => LastTurn'.id \in live'
  BY <1>3, <1>5
<1>13. Withheld' /\ PageTold'
  BY <1>2, <1>5, LogTells
<1>14. RecorderTold'
  BY <1>2, <1>4, <1>5, <1>10, <1>11, <1>12 DEF RecorderTold
<1> QED BY <1>9, <1>13, <1>14 DEF SessionTold

LEMMA PageRecordsTold ==
  ASSUME Replayable, ReplayInv, IInv', PageRecords
  PROVE  SessionTold' /\ RecorderTold'
<1>1. Recording
  BY DEF PageRecords, Read, ReadOwn, SetTimer, Observe, CallPlatform, ClearTimer, ReadReady,
         GetFile, MakeOfFile, ReadFile, UseRefused, PageRuns
<1>2. /\ log \in Seq(Records) /\ Len(log) \in Nat /\ nextTask \in Nat /\ kinds \in Seq(Kinds)
      /\ DOMAIN kinds = 1..Len(kinds) /\ Len(kinds) \in Nat /\ nextTask = Len(kinds) + 1
      /\ userContent \in Seq(BOOLEAN) /\ phase = "record" /\ live \subseteq DOMAIN kinds
      /\ Pending \subseteq DOMAIN kinds
  BY <1>1, Recorded, SMTT(60) DEF ReplayInv, IInv, Typed, RecorderTyped
<1>3. /\ \A i \in DOMAIN userContent : userContent[i] /\ "file" \in page
      /\ \A i \in DOMAIN settled : settled[i] \notin live
  BY <1>2 DEF ReplayInv, RecorderTold
<1>4. \A k \in Kinds : Append(kinds, k)[nextTask] = k
  BY <1>2
<1>5. None \in Answers /\ nextTask \in Answers /\ Values \subseteq Answers
  BY <1>2 DEF Answers
(* The steps that mint no task. *)
<1>6. ASSUME NEW op, NEW saw, NEW w \in Seq(Records), Does(op, saw, w, 0),
             UNCHANGED <<page, kinds, settled, replayer>>, live' \subseteq live,
             \A id \in live : id \in live' \/ kinds[id] \in Timers,
             \A id \in Pending' : op # <<"clear", id>>,
             \A i \in 1..Len(w) : w[i].rec # "TaskReg",
             \A i \in 1..Len(w) : w[i].rec = "Refusal" => "refused" \in page,
             \A i \in DOMAIN userContent' : userContent'[i] /\ "file" \in page
      PROVE  SessionTold' /\ RecorderTold'
  <2>1. UNCHANGED <<page, settled, started>>
    BY <1>6 DEF replayer
  <2> QED BY <1>1, <1>6, <2>1, StepTells
<1>7. ASSUME NEW op, NEW saw, NEW r \in Records, Does(op, saw, <<r>>, 0), op[1] # "clear",
             UNCHANGED <<page, kinds, live, settled, userContent, replayer>>,
             r.rec \notin {"TaskReg", "Refusal"}
      PROVE  SessionTold' /\ RecorderTold'
  <2> DEFINE w == <<r>>
  <2>1. w \in Seq(Records) /\ Len(w) = 1 /\ w[1] = r
    OBVIOUS
  <2>2. Does(op, saw, w, 0)
    BY <1>7
  <2> HIDE DEF w
  <2>3. \A i \in 1..Len(w) : w[i].rec \notin {"TaskReg", "Refusal"}
    BY <1>7, <2>1
  <2>4. \A id : op # <<"clear", id>>
    BY <1>7
  <2> QED BY <1>3, <1>6, <1>7, <2>1, <2>2, <2>3, <2>4
<1>8. CASE Read
  <2>1. PICK what \in page \cap Reads, v \in Values :
          Does(<<"read", what>>, v, <<ReadRecord(what, v)>>, 0)
    BY <1>8 DEF Read
  <2> DEFINE r == ReadRecord(what, v)
             op == <<"read", what>>
  <2>2. r \in Records /\ r.rec \notin {"TaskReg", "Refusal"}
    BY ReadWritten
  <2>3. UNCHANGED <<page, kinds, live, settled, userContent, replayer>>
    BY <1>8 DEF Read, recorder
  <2>4. Does(op, v, <<r>>, 0) /\ op[1] # "clear"
    BY <2>1
  <2> HIDE DEF r, op
  <2> QED BY <1>7, <2>2, <2>3, <2>4
<1>9. CASE ReadOwn
  <2>1. PICK id \in DOMAIN kinds, v \in Values : Does(<<"own", id>>, v, <<OwnRead(id, v)>>, 0)
    BY <1>9 DEF ReadOwn
  <2> DEFINE r == OwnRead(id, v)
             op == <<"own", id>>
  <2>2. r \in Records /\ r.rec \notin {"TaskReg", "Refusal"}
    <3>1. id \in Nat /\ v \in Answers /\ {"didTimeout", "takeRecords"} \subseteq Queries
      BY <1>2, <1>5 DEF Queries
    <3>2. \A q \in Queries : PlatformValue(id, q, v) \in Records
                             /\ PlatformValue(id, q, v).rec = "PlatformValue"
      BY <3>1, RecordsWritten
    <3> QED BY <3>1, <3>2 DEF OwnRead, patchIdleDeadline, takeRecords
  <2>3. UNCHANGED <<page, kinds, live, settled, userContent, replayer>>
    BY <1>9 DEF ReadOwn, recorder
  <2>4. Does(op, v, <<r>>, 0) /\ op[1] # "clear"
    BY <2>1
  <2> HIDE DEF r, op
  <2> QED BY <1>7, <2>2, <2>3, <2>4
<1>10. CASE SetTimer \/ Observe \/ CallPlatform
  <2>1. /\ \E kind \in Calls : kind \in page /\ kind # "file" /\ Registers(kind)
        /\ UNCHANGED <<page, settled, userContent, replayer>>
    <3>1. CASE SetTimer
      BY <3>1 DEF SetTimer, Calls, Timers
    <3>2. CASE Observe
      BY <3>2 DEF Observe, Calls
    <3>3. CASE CallPlatform
      BY <3>3 DEF CallPlatform, Calls
    <3> QED BY <1>10, <3>1, <3>2, <3>3
  <2>2. PICK kind \in Calls : kind \in page /\ kind # "file" /\ Registers(kind)
    BY <2>1
  <2> DEFINE r == TaskReg(nextTask, TaskKind(kind))
             w == <<r>>
             op == <<"call", kind>>
  <2>3. kind \in Kinds
    BY DEF Calls, Kinds
  <2>4. r \in Records /\ r.rec = "TaskReg" /\ r.id = nextTask
    BY <1>2, <1>5, <2>3, RecordsWritten
  <2>5. w \in Seq(Records) /\ Len(w) = 1 /\ w[1] = r
    BY <2>4
  <2>6. /\ Does(op, nextTask, w, 1) /\ kinds' = Append(kinds, kind)
        /\ live' = live \cup {nextTask}
    BY <2>2 DEF Registers
  <2>7. \A id : op # <<"clear", id>>
    OBVIOUS
  <2> HIDE DEF r, w, op
  <2>8. \A i \in 1..Len(w) : w[i].rec # "Refusal" /\ kinds'[w[i].id] # "file"
    <3>1. kinds'[nextTask] = kind
      BY <1>4, <2>3, <2>6
    <3>2. \A i \in 1..Len(w) : w[i] = r
      BY <2>5
    <3> QED BY <2>2, <2>4, <3>1, <3>2
  <2>9. UNCHANGED <<page, settled, started>> /\ userContent' = userContent
    BY <2>1 DEF replayer
  <2>10. \E k \in Kinds : /\ kinds' = Append(kinds, k) /\ live' = live \cup {nextTask}
                          /\ k = "import" => "import" \in page
    BY <2>2, <2>3, <2>6
  <2>11. \A id \in live : id \in live'
    BY <2>6
  <2> QED BY <1>1, <1>3, <2>5, <2>6, <2>7, <2>8, <2>9, <2>10, <2>11, StepTells
<1>11. <<>> \in Seq(Records) /\ \A i \in 1..Len(<<>>) : FALSE
  OBVIOUS
<1>12. CASE ClearTimer
  <2>1. PICK id \in live : /\ kinds[id] \in Timers /\ live' = live \ {id}
                           /\ Does(<<"clear", id>>, None, <<>>, 0)
    BY <1>12 DEF ClearTimer
  <2>2. UNCHANGED <<page, kinds, settled, userContent, replayer>>
    BY <1>12 DEF ClearTimer
  <2>3. id \notin Pending'
    BY <1>3, <2>1, <2>2 DEF Pending
  <2>4. \A x \in Pending' : <<"clear", id>> # <<"clear", x>>
    <3>1. ASSUME NEW x, <<"clear", id>> = <<"clear", x>>
          PROVE  id = x
      BY <3>1
    <3> QED BY <2>3, <3>1
  <2> DEFINE op == <<"clear", id>>
  <2>5. Does(op, None, <<>>, 0) /\ \A x \in Pending' : op # <<"clear", x>>
    BY <2>1, <2>4
  <2> HIDE DEF op
  <2> QED BY <1>3, <1>6, <1>11, <2>1, <2>2, <2>5
<1>13. CASE GetFile \/ MakeOfFile
  <2>1. PICK op : Does(op, None, <<>>, 0) /\ \A id : op # <<"clear", id>>
    BY <1>13 DEF GetFile, MakeOfFile
  <2>2. /\ UNCHANGED <<page, kinds, settled, replayer>> /\ live' = live
    BY <1>13 DEF GetFile, MakeOfFile
  <2>3. userContent' = Append(userContent, TRUE) /\ "file" \in page
    <3>1. CASE GetFile
      <4>1. PICK way \in Ways \cap Gets : userContent' = Append(userContent, way # "form")
        BY <3>1 DEF GetFile, markList
      <4>2. (way # "form") = TRUE
        BY DEF Replayable
      <4> QED BY <3>1, <4>1, <4>2 DEF GetFile
    <3>2. CASE MakeOfFile
      <4>1. PICK i \in DOMAIN userContent, way \in Ways \cap Makes :
              userContent' = Append(userContent, fromParts(userContent[i], way))
        BY <3>2 DEF MakeOfFile
      <4>2. userContent[i] \in BOOLEAN /\ way \notin {"iterable", "clone"}
        BY <1>2 DEF Replayable
      <4>3. fromParts(userContent[i], way) = TRUE
        BY <1>3, <4>2 DEF fromParts
      <4> QED BY <1>3, <4>1, <4>3
    <3> QED BY <1>13, <3>1, <3>2
  <2>4. \A i \in DOMAIN userContent' : userContent'[i] /\ "file" \in page
    BY <1>2, <1>3, <2>3
  <2> QED BY <1>6, <1>11, <2>1, <2>2, <2>4
<1>14. CASE UseRefused
  <2> DEFINE w == refuseOnce
             op == <<"refused", 0>>
  <2>1. w \in Seq(Records) /\ \A i \in 1..Len(w) : w[i] = Refusal
    BY <1>1, RefusalWritten DEF ReplayInv
  <2>2. /\ Does(op, None, w, 0) /\ "refused" \in page
        /\ UNCHANGED <<page, kinds, live, settled, userContent, replayer>>
    BY <1>14 DEF UseRefused
  <2>3. \A id : op # <<"clear", id>>
    OBVIOUS
  <2> HIDE DEF w, op
  <2>4. \A i \in 1..Len(w) : w[i].rec # "TaskReg"
    BY <2>1, RecordsTell
  <2> QED BY <1>3, <1>6, <2>1, <2>2, <2>3, <2>4
<1>15. CASE ReadFile
  <2>1. PICK i \in DOMAIN userContent :
          Does(<<"call", "file">>, nextTask,
               (IF userContent[i] THEN refuseOnce ELSE <<>>) \o <<TaskReg(nextTask, "platform")>>, 1)
    BY <1>15 DEF ReadFile, refuseUserContent
  <2>2. /\ kinds' = Append(kinds, "file") /\ live' = live \cup {nextTask}
        /\ UNCHANGED <<page, settled, userContent, replayer>>
    BY <1>15 DEF ReadFile
  <2> DEFINE r == TaskReg(nextTask, "platform")
             f == refuseOnce
             w == f \o <<r>>
             op == <<"call", "file">>
  <2>3. userContent[i] /\ "file" \in page
    BY <1>3
  <2>4. Does(op, nextTask, w, 1) /\ \A id : op # <<"clear", id>>
    BY <2>1, <2>3
  <2>5. /\ f \in Seq(Records)
        /\ \/ Len(f) = 0 /\ refused /\ f = <<>>
           \/ Len(f) = 1 /\ f[1] = Refusal
    BY <1>1, RefusalWritten DEF ReplayInv
  <2>6. r \in Records /\ r.rec = "TaskReg" /\ r.id = nextTask
    BY <1>2, <1>5, RecordsWritten
  <2>7. <<r>> \in Seq(Records) /\ Len(<<r>>) = 1 /\ <<r>>[1] = r
    BY <2>6
  <2> HIDE DEF r, f, op
  <2>8. /\ w \in Seq(Records) /\ Len(w) = Len(f) + 1 /\ w[Len(f) + 1] = r
        /\ \A j \in 1..Len(f) : w[j] = f[j]
    <3>1. /\ w \in Seq(Records) /\ Len(w) = Len(f) + Len(<<r>>)
          /\ \A j \in 1..Len(f) : w[j] = f[j]
          /\ \A j \in 1..Len(<<r>>) : w[Len(f) + j] = <<r>>[j]
      BY <2>5, <2>7, LogGrows
    <3>2. 1 \in 1..Len(<<r>>)
      BY <2>7
    <3> QED BY <2>7, <3>1, <3>2
  <2> HIDE DEF w
  <2>9. \A j \in 1..Len(w) :
          \/ \E l \in 1..Len(log) : log[l] = Refusal
          \/ j = 2 /\ w[1] = Refusal
          \/ w[j].rec # "TaskReg"
    <3>1. CASE Len(f) = 0 /\ refused
      BY <1>1, <1>2, <3>1 DEF ReplayInv, IInv, LogWhole, Told
    <3>2. CASE Len(f) = 1 /\ f[1] = Refusal
      <4>1. Len(w) = 2 /\ w[1] = Refusal
        BY <2>8, <3>2
      <4>2. \A j \in 1..Len(w) : j = 1 \/ j = 2
        BY <4>1
      <4> QED BY <4>1, <4>2, RecordsTell
    <3> QED BY <2>5, <3>1, <3>2
  <2>10. "file" \in Kinds
    BY DEF Kinds, Promises, Plain
  <2>11. \E k \in Kinds : /\ kinds' = Append(kinds, k) /\ live' = live \cup {nextTask}
                          /\ k = "import" => "import" \in page
    BY <2>2, <2>10
  <2>12. UNCHANGED <<page, settled, started>> /\ userContent' = userContent
    BY <2>2 DEF replayer
  <2>13. \A id \in live : id \in live'
    BY <2>2
  <2> QED BY <1>1, <1>3, <2>3, <2>4, <2>8, <2>9, <2>11, <2>12, <2>13, StepTells
<1>16. CASE ReadReady
  <2> DEFINE had == handed[fonts]
             told == PlatformValue(0, "ready", had)
             r == TaskReg(nextTask, "platform")
             op == <<"ready", 0>>
  <2>1. had \in Answers
    <3>1. RecorderTyped
      BY DEF ReplayInv, IInv, Typed
    <3> QED BY <3>1 DEF RecorderTyped, Answers
  <2>2. "ready" \in Kinds /\ "ready" \in Queries /\ op[1] # "clear"
    BY DEF Kinds, Promises, Outcomes, Queries
  <2>3. told \in Records /\ told.rec = "PlatformValue"
    BY <2>1, <2>2, RecordsWritten
  <2>4. r \in Records /\ r.rec = "TaskReg" /\ r.id = nextTask
    BY <1>2, <1>5, RecordsWritten
  <2>5. UNCHANGED <<page, settled, userContent, replayer>>
    BY <1>16 DEF ReadReady
  <2>6. CASE had # 0
    <3>1. Does(op, had, <<told>>, 0) /\ UNCHANGED <<kinds, live, handed>>
      BY <1>16, <2>6 DEF ReadReady, promiseIdentity
    <3> HIDE DEF told, op, had
    <3> QED BY <1>7, <2>2, <2>3, <2>5, <3>1
  <2>7. CASE had = 0
    <3> DEFINE w == <<told, r>>
    <3>1. /\ Does(op, nextTask, w, 1)
          /\ kinds' = Append(kinds, "ready") /\ live' = live \cup {nextTask}
      BY <1>16, <2>7 DEF ReadReady, promiseIdentity
    <3>2. w \in Seq(Records) /\ Len(w) = 2 /\ w[1] = told /\ w[2] = r
      BY <2>3, <2>4
    <3>3. \A id : op # <<"clear", id>>
      OBVIOUS
    <3> HIDE DEF w, op, told, r
    <3>4. \A i \in 1..Len(w) :
            w[i].rec # "Refusal" /\ (w[i].rec = "TaskReg" => kinds'[w[i].id] # "file")
      <4>1. \A i \in 1..Len(w) : i = 1 \/ i = 2
        BY <3>2
      <4>2. kinds'[nextTask] = "ready"
        BY <1>4, <2>2, <3>1
      <4> QED BY <2>3, <2>4, <3>2, <4>1, <4>2
    <3>5. UNCHANGED <<page, settled, started>> /\ userContent' = userContent
      BY <2>5 DEF replayer
    <3>6. \E k \in Kinds : /\ kinds' = Append(kinds, k) /\ live' = live \cup {nextTask}
                           /\ k = "import" => "import" \in page
      BY <2>2, <3>1
    <3>7. \A id \in live : id \in live'
      BY <3>1
    <3> QED BY <1>1, <1>3, <3>1, <3>2, <3>3, <3>4, <3>5, <3>6, <3>7, StepTells
  <2> QED BY <2>6, <2>7
<1> QED BY <1>8, <1>9, <1>10, <1>12, <1>13, <1>14, <1>15, <1>16 DEF PageRecords

LEMMA PlatformTold ==
  ASSUME Replayable, ReplayInv, IInv', Platform
  PROVE  SessionTold' /\ RecorderTold'
<1>1. Recording
  BY DEF Platform, RunTimer, RunObserver, PlatformEvent, SettlePlain, SettleOutcomes,
         TellOutcome, Evaluate, SettleImport, PlatformActs
<1>2. /\ script \in Seq(Turns) /\ Len(script) \in Nat \ {0} /\ DOMAIN script = 1..Len(script)
      /\ kinds \in Seq(Kinds) /\ Pending \subseteq DOMAIN kinds /\ phase = "record"
      /\ \A t \in 1..Len(script) : script[t].part = "module" => kinds[script[t].id] = "import"
      /\ settled \in Seq(Nat) /\ live \subseteq DOMAIN kinds
      /\ \A i \in DOMAIN settled : kinds[settled[i]] \in Outcomes \cup {"bitmap"}
      /\ \A id \in DOMAIN kinds : id \in Nat /\ kinds[id] \in Kinds
  BY <1>1, Recorded, SMTT(60) DEF ReplayInv, IInv, Typed, RecorderTyped
<1>3. /\ \A i \in DOMAIN settled : settled[i] \notin live
      /\ \A i, j \in DOMAIN settled : settled[i] = settled[j] => i = j
      /\ LastTurn.part = "module" => LastTurn.id \in live
      /\ \A id \in live : Evaluated(id) => ModuleOf(id, LastTurn)
      /\ Turned(script, kinds)
      /\ \A id \in Pending : Unspent(id, Len(script), script, kinds)
  BY <1>2 DEF ReplayInv, RecorderTold, SessionTold
(* Nothing comes between a module and its import's settlement.             *)
<1>4. Undisturbed => LastTurn.part # "module"
  <2>1. Undisturbed => Settling = {}
    BY DEF Undisturbed, Replayable
  <2>2. LastTurn = script[Len(script)] /\ Len(script) \in 1..Len(script)
    BY <1>2 DEF LastTurn
  <2>3. LastTurn.part = "module" => LastTurn.id \in Settling
    BY <1>2, <1>3, <2>2 DEF Settling
  <2> QED BY <2>1, <2>3
<1>5. \A id \in live : id \in Pending /\ id \in DOMAIN kinds
  BY <1>2 DEF Pending
<1>6. /\ \A id \in DOMAIN kinds, q \in Queries, v \in Values \cup {"shape"} :
           /\ Task(id, q) \in Records /\ PlatformValue(id, q, v) \in Records
           /\ Clock(q, v) \in Records
      /\ Kinds \subseteq Queries /\ {"platform", "callback"} \subseteq Queries
  <2>1. Values \cup {"shape"} \subseteq Answers
    BY DEF Answers
  <2> QED BY <1>2, <2>1, RecordsWritten DEF Queries
(* A task runs, and what is written of it mints no other.                  *)
<1>7. ASSUME NEW id \in live, NEW given, NEW w \in Seq(Records), Begins(id, "task", given, w, 0),
             UNCHANGED <<page, kinds, settled, userContent, replayer>>,
             live' = IF kinds[id] \in Repeats THEN live ELSE live \ {id},
             \A i \in 1..Len(w) : w[i].rec \notin {"TaskReg", "Refusal"},
             Undisturbed \/ ModuleOf(id, LastTurn), kinds[id] = "import" => ModuleOf(id, LastTurn)
      PROVE  SessionTold' /\ RecorderTold'
  <2>1. UNCHANGED <<page, kinds, userContent, started>>
    BY <1>7 DEF replayer
  <2>2. live' \subseteq live /\ Pending' \subseteq Pending /\ id \in Pending
    BY <1>5, <1>7 DEF Pending
  <2>3. id \in Pending' => kinds[id] \in Repeats
    BY <1>3, <1>7 DEF Pending
  <2>4. /\ \A i \in DOMAIN settled' : settled'[i] \notin live'
        /\ \A i, j \in DOMAIN settled' : settled'[i] = settled'[j] => i = j
    BY <1>3, <1>7, <2>2
  <2>5. LastTurn.part = "module" => id = LastTurn.id
    BY <1>4, <1>7 DEF ModuleOf
  <2> QED BY <1>1, <1>7, <2>1, <2>2, <2>3, <2>4, <2>5, TurnTells
<1>8. \A r, s : r \in Records /\ s \in Records =>
        /\ <<r>> \in Seq(Records) /\ Len(<<r>>) = 1 /\ <<r>>[1] = r
        /\ <<r, s>> \in Seq(Records) /\ Len(<<r, s>>) = 2 /\ <<r, s>>[1] = r /\ <<r, s>>[2] = s
  OBVIOUS
<1>9. ASSUME NEW r \in Records, r.rec \notin {"TaskReg", "Refusal"}, NEW s \in Records,
             s.rec \notin {"TaskReg", "Refusal"}, NEW w, w = <<r>> \/ w = <<r, s>>
      PROVE  w \in Seq(Records) /\ \A i \in 1..Len(w) : w[i].rec \notin {"TaskReg", "Refusal"}
  <2>1. CASE w = <<r>>
    <3>1. w \in Seq(Records) /\ Len(w) = 1 /\ w[1] = r
      BY <1>8, <2>1
    <3> QED BY <1>9, <3>1
  <2>2. CASE w = <<r, s>>
    <3>1. w \in Seq(Records) /\ Len(w) = 2 /\ w[1] = r /\ w[2] = s
      BY <1>8, <2>2
    <3>2. \A i \in 1..Len(w) : i = 1 \/ i = 2
      BY <3>1
    <3> QED BY <1>9, <3>1, <3>2
  <2> QED BY <2>1, <2>2, <1>9
<1>10. CASE Undisturbed /\ RunTimer
  <2>1. PICK id \in live, v \in Values :
          /\ kinds[id] \in Timers
          /\ live' = IF kinds[id] \in Repeats THEN live ELSE live \ {id}
          /\ Begins(id, "task", IF kinds[id] = "frame" THEN v ELSE None,
                    <<Task(id, kinds[id])>> \o Framed(id, v), 0)
    BY <1>10 DEF RunTimer
  <2> DEFINE r == Task(id, kinds[id])
             s == Clock("frame", v)
             w == IF kinds[id] = "frame" THEN <<r, s>> ELSE <<r>>
             given == IF kinds[id] = "frame" THEN v ELSE None
  <2>2. r \in Records /\ r.rec = "Task" /\ s \in Records /\ s.rec = "Clock"
    <3>1. id \in DOMAIN kinds /\ kinds[id] \in Queries /\ "frame" \in Queries
      BY <1>2, <1>6 DEF Kinds, Timers
    <3> QED BY <1>6, <3>1, RecordsTell
  <2>3. <<r>> \o Framed(id, v) = w
    <3>1. <<r>> \in Seq(Records) /\ <<s>> \in Seq(Records)
      BY <2>2
    <3>2. <<r>> \o <<>> = <<r>>
      BY <3>1, ConcatEmptySeq
    <3>3. <<r>> \o <<s>> = <<r, s>>
      BY <2>2, TwoWritten
    <3> QED BY <3>2, <3>3 DEF Framed
  <2>4. Begins(id, "task", given, w, 0)
    BY <2>1, <2>3
  <2>5. UNCHANGED <<page, kinds, settled, userContent, replayer>>
    BY <1>10 DEF RunTimer
  <2>6. kinds[id] # "import" /\ (w = <<r>> \/ w = <<r, s>>)
    BY <2>1 DEF Timers
  <2> HIDE DEF r, s, w, given
  <2> QED BY <1>7, <1>9, <1>10, <2>1, <2>2, <2>4, <2>5, <2>6
<1>11. CASE Undisturbed /\ RunObserver
  <2>1. PICK id \in live, v \in Values :
          /\ kinds[id] = "observer"
          /\ Begins(id, "task", v, <<Task(id, "observer"), patchObservers(id, v)>>, 0)
    BY <1>11 DEF RunObserver
  <2> DEFINE r == Task(id, "observer")
             s == patchObservers(id, v)
             w == <<r, s>>
  <2>2. r \in Records /\ r.rec = "Task" /\ s \in Records /\ s.rec = "PlatformValue"
    <3>1. id \in DOMAIN kinds /\ "observer" \in Queries /\ "callback" \in Queries
      BY <1>2, <1>6, <2>1 DEF Kinds
    <3> QED BY <1>6, <3>1, RecordsTell DEF patchObservers
  <2>3. UNCHANGED <<page, kinds, live, settled, userContent, replayer>>
    BY <1>11 DEF RunObserver, recorder
  <2>4. kinds[id] # "import" /\ kinds[id] \in Repeats /\ Begins(id, "task", v, w, 0)
    BY <2>1 DEF Repeats
  <2>5. w = <<r, s>>
    OBVIOUS
  <2> HIDE DEF r, s, w
  <2> QED BY <1>7, <1>9, <1>11, <2>2, <2>3, <2>4, <2>5
<1>12. ASSUME NEW id \in live, NEW given, kinds[id] \in Plain \cup {"import"}, live' = live \ {id},
              Begins(id, "task", given, settledTask(id), 0),
              UNCHANGED <<page, kinds, settled, userContent, replayer>>,
              Undisturbed \/ ModuleOf(id, LastTurn), kinds[id] = "import" => ModuleOf(id, LastTurn)
       PROVE  SessionTold' /\ RecorderTold'
  <2> DEFINE r == Task(id, "platform")
             w == <<r>>
  <2>1. r \in Records /\ r.rec = "Task"
    <3>1. id \in DOMAIN kinds /\ "platform" \in Queries
      BY <1>2, <1>6
    <3> QED BY <1>6, <3>1, RecordsTell
  <2>2. Begins(id, "task", given, w, 0) /\ w = <<r>> /\ kinds[id] \notin Repeats
    BY <1>12 DEF settledTask, Plain, Repeats
  <2> HIDE DEF r, w
  <2> QED BY <1>7, <1>9, <1>12, <2>1, <2>2
<1>13. CASE Undisturbed /\ SettlePlain
  <2>1. PICK id \in live :
          /\ kinds[id] \in Plain /\ live' = live \ {id}
          /\ Begins(id, "task", IF kinds[id] = "file" THEN "theirs" ELSE None, settledTask(id), 0)
    BY <1>13 DEF SettlePlain
  <2>2. UNCHANGED <<page, kinds, settled, userContent, replayer>> /\ kinds[id] # "import"
    BY <1>13, <2>1 DEF SettlePlain, Plain
  <2> QED BY <1>12, <1>13, <2>1, <2>2
<1>14. CASE SettleImport
  <2>1. PICK id \in live : /\ kinds[id] = "import" /\ Evaluated(id) /\ live' = live \ {id}
                           /\ Begins(id, "task", None, settledTask(id), 0)
    BY <1>14 DEF SettleImport
  <2>2. UNCHANGED <<page, kinds, settled, userContent, replayer>> /\ ModuleOf(id, LastTurn)
    BY <1>3, <1>14, <2>1 DEF SettleImport
  <2> QED BY <1>12, <2>1, <2>2
<1>15. CASE Undisturbed /\ PlatformEvent
  <2> DEFINE w == refuseOnce
  <2>1. w \in Seq(Records) /\ \A i \in 1..Len(w) : w[i] = Refusal
    BY <1>1, RefusalWritten DEF ReplayInv
  <2>2. /\ Begins(0, "event", None, w, 0) /\ "refused" \in page
        /\ UNCHANGED <<page, kinds, live, settled, userContent, replayer>>
    BY <1>15 DEF PlatformEvent
  <2> HIDE DEF w
  <2>3. \A i \in 1..Len(w) : w[i].rec # "TaskReg"
    BY <2>1, RecordsTell
  <2>4. Pending' = Pending /\ UNCHANGED <<page, kinds, userContent, started>>
    BY <2>2 DEF Pending, replayer
  <2>5. /\ \A i \in DOMAIN settled' : settled'[i] \notin live'
        /\ \A i, j \in DOMAIN settled' : settled'[i] = settled'[j] => i = j
        /\ live' \subseteq live
    BY <1>3, <2>2
  <2>6. LastTurn.part # "module"
    BY <1>4, <1>15
  <2> QED BY <1>1, <2>1, <2>2, <2>3, <2>4, <2>5, <2>6, TurnTells
<1>16. CASE Undisturbed /\ Evaluate
  <2>1. PICK id \in live : /\ kinds[id] = "import" /\ ~Evaluated(id)
                           /\ Begins(id, "module", None, <<>>, 0)
    BY <1>16 DEF Evaluate
  <2>2. UNCHANGED <<page, kinds, live, settled, userContent, replayer>>
    BY <1>16 DEF Evaluate, recorder
  <2>3. <<>> \in Seq(Records) /\ \A i \in 1..Len(<<>>) : FALSE
    OBVIOUS
  <2>4. Pending' = Pending /\ UNCHANGED <<page, kinds, userContent, started>>
    BY <2>2 DEF Pending, replayer
  <2>5. /\ \A i \in DOMAIN settled' : settled'[i] \notin live'
        /\ \A i, j \in DOMAIN settled' : settled'[i] = settled'[j] => i = j
        /\ live' = live
    BY <1>3, <2>2
  <2>6. LastTurn.part # "module"
    BY <1>4, <1>16
  <2> QED BY <1>1, <2>1, <2>3, <2>4, <2>5, <2>6, TurnTells
<1>17. CASE Undisturbed /\ TellOutcome
  <2>1. settled # <<>> /\ settled' = Tail(settled)
        /\ UNCHANGED <<page, kinds, live, userContent, replayer>>
    BY <1>17 DEF TellOutcome
  <2> DEFINE id == settled[1]
  <2>2. /\ id \in DOMAIN kinds /\ kinds[id] \in Outcomes \cup {"bitmap"} /\ id \in Pending
        /\ Head(settled) = id
        /\ DOMAIN settled = 1..Len(settled) /\ Len(settled) \in Nat \ {0}
        /\ 1 \in DOMAIN settled
    <3>1. /\ DOMAIN settled = 1..Len(settled) /\ Len(settled) \in Nat \ {0}
          /\ Head(settled) = id
      BY <1>2, <2>1
    <3>2. 1 \in DOMAIN settled
      BY <3>1
    <3> QED BY <1>2, <3>1, <3>2 DEF Pending
  <2>3. PICK v \in Values :
          LET bitmap == kinds[Head(settled)] = "bitmap"
              value == IF bitmap THEN "shape" ELSE v
          IN Begins(Head(settled), "task", IF bitmap THEN None ELSE value,
                    ownTask(settled, value), 0)
    BY <1>17 DEF TellOutcome
  <2> DEFINE value == IF kinds[id] = "bitmap" THEN "shape" ELSE v
             given == IF kinds[id] = "bitmap" THEN None ELSE value
             r == Task(id, "platform")
             s == PlatformValue(id, kinds[id], value)
             w == <<r, s>>
  <2>4. r \in Records /\ r.rec = "Task" /\ s \in Records /\ s.rec = "PlatformValue"
    <3>1. kinds[id] \in Queries /\ "platform" \in Queries /\ value \in Values \cup {"shape"}
      BY <1>2, <1>6, <2>2
    <3> HIDE DEF value
    <3> QED BY <1>6, <2>2, <3>1, RecordsTell
  <2>5. Begins(id, "task", given, w, 0) /\ w = <<r, s>>
    BY <2>2, <2>3 DEF ownTask
  <2> HIDE DEF r, s, w, given, value
  <2>6. /\ DOMAIN settled' = 1..Len(settled) - 1
        /\ \A i \in 1..Len(settled) - 1 :
             /\ settled'[i] = settled[i + 1] /\ i + 1 \in DOMAIN settled /\ i \in Nat
             /\ i + 1 # 1
    BY <1>2, <2>1, <2>2
  <2>7. /\ \A i \in DOMAIN settled' : settled'[i] \notin live' /\ settled'[i] # id
        /\ \A i, j \in DOMAIN settled' : settled'[i] = settled'[j] => i = j
    <3>1. \A i \in DOMAIN settled' : settled'[i] \notin live'
      BY <1>3, <2>1, <2>6
    <3>2. \A i \in DOMAIN settled' : settled'[i] # id
      BY <1>3, <2>2, <2>6
    <3>3. ASSUME NEW i \in DOMAIN settled', NEW j \in DOMAIN settled', settled'[i] = settled'[j]
          PROVE  i = j
      <4>1. i + 1 = j + 1
        BY <1>3, <2>6, <3>3
      <4> QED BY <2>6, <4>1
    <3> QED BY <3>1, <3>2, <3>3
  <2>8. /\ live' = live /\ Pending' \subseteq Pending /\ id \notin Pending'
        /\ UNCHANGED <<page, kinds, userContent, started>>
    <3>1. \A i \in DOMAIN settled' : settled'[i] \in {settled[j] : j \in DOMAIN settled}
      BY <2>6
    <3>2. id \notin live
      BY <1>3, <2>2
    <3> QED BY <2>1, <2>7, <3>1, <3>2 DEF Pending, replayer
  <2>9. kinds[id] # "import" /\ LastTurn.part # "module"
    BY <1>4, <1>17, <2>2 DEF Outcomes
  <2>10. w \in Seq(Records) /\ \A i \in 1..Len(w) : w[i].rec \notin {"TaskReg", "Refusal"}
    BY <1>9, <2>4, <2>5
  <2> HIDE DEF id
  <2> QED BY <1>1, <2>2, <2>5, <2>7, <2>8, <2>9, <2>10, TurnTells
<1>18. CASE Undisturbed /\ SettleOutcomes
  <2>1. PICK S \in SUBSET {id \in live : kinds[id] \in Outcomes \cup {"bitmap"}} :
          /\ live' = live \ S
          /\ \E order \in [1..Cardinality(S) -> S] :
               /\ \A i, j \in DOMAIN order : i < j => order[i] < order[j]
               /\ settled' = settled \o order
    BY <1>18 DEF SettleOutcomes
  <2>2. PICK order \in [1..Cardinality(S) -> S] :
          /\ \A i, j \in DOMAIN order : i < j => order[i] < order[j]
          /\ settled' = settled \o order
    BY <2>1
  <2>3. UNCHANGED <<session, page, kinds, userContent, replayer>>
    BY <1>18 DEF SettleOutcomes
  <2>31. /\ phase' = phase /\ script' = script /\ log' = log /\ kinds' = kinds /\ page' = page
         /\ userContent' = userContent /\ started' = started
    BY <2>3 DEF session, replayer
  <2>4. S \subseteq DOMAIN kinds /\ S \subseteq live /\ S \subseteq Nat /\ Cardinality(S) \in Nat
    <3>1. IsFiniteSet(DOMAIN kinds)
      BY <1>2, FS_Interval, LenProperties
    <3>2. S \subseteq DOMAIN kinds
      BY <1>2
    <3> QED BY <1>2, <3>1, <3>2, FS_Subset, FS_CardinalityType
  <2>5. order \in Seq(Nat) /\ DOMAIN order = 1..Cardinality(S) /\ \A i \in DOMAIN order : order[i] \in S
    <3>1. \A i \in 1..Cardinality(S) : order[i] \in S
      OBVIOUS
    <3>2. order \in [1..Cardinality(S) -> Nat]
      BY <2>4
    <3> QED BY <2>4, <3>1, <3>2
  <2>6. \A i, j \in DOMAIN order : order[i] = order[j] => i = j
    <3>1. ASSUME NEW i \in DOMAIN order, NEW j \in DOMAIN order, order[i] = order[j]
          PROVE  i = j
      <4>1. i \in Nat /\ j \in Nat /\ order[i] \in Nat /\ order[j] \in Nat
        BY <2>4, <2>5
      <4>2. ~(i < j) /\ ~(j < i)
        BY <2>2, <3>1, <4>1
      <4> QED BY <4>1, <4>2
    <3> QED BY <3>1
  <2>7. \A i \in DOMAIN settled' :
          /\ i \in Nat
          /\ \/ i \in DOMAIN settled /\ settled'[i] = settled[i]
             \/ i - Len(settled) \in DOMAIN order /\ settled'[i] = order[i - Len(settled)]
    <3>1. settled' \in Seq(Nat) /\ Len(settled') = Len(settled) + Len(order)
      BY <1>2, <2>2, <2>5, ConcatProperties
    <3>2. Len(settled) \in Nat /\ Len(order) \in Nat /\ DOMAIN order = 1..Len(order)
          /\ DOMAIN settled = 1..Len(settled) /\ DOMAIN settled' = 1..Len(settled')
      BY <1>2, <2>5, <3>1, LenProperties
    <3>3. \A i \in 1..Len(settled) + Len(order) :
            settled'[i] = IF i <= Len(settled) THEN settled[i] ELSE order[i - Len(settled)]
      BY <1>2, <2>2, <2>5, ConcatProperties
    <3> QED BY <3>1, <3>2, <3>3
  <2>8. \A i \in DOMAIN settled' : settled'[i] \notin live'
    BY <1>3, <2>1, <2>5, <2>7
  <2>9. ASSUME NEW i \in DOMAIN settled', NEW j \in DOMAIN settled', settled'[i] = settled'[j]
        PROVE  i = j
    <3>1. ASSUME i \in DOMAIN settled, j \in DOMAIN settled, settled'[i] = settled[i],
                 settled'[j] = settled[j]
          PROVE  i = j
      BY <1>3, <2>9, <3>1
    <3>2. ASSUME i - Len(settled) \in DOMAIN order, j - Len(settled) \in DOMAIN order,
                 settled'[i] = order[i - Len(settled)], settled'[j] = order[j - Len(settled)]
          PROVE  i = j
      <4>1. i - Len(settled) = j - Len(settled)
        BY <2>6, <2>9, <3>2
      <4>2. i \in Nat /\ j \in Nat /\ Len(settled) \in Nat
        BY <1>2, <2>7, LenProperties
      <4> QED BY <4>1, <4>2
    <3>3. \A x \in DOMAIN settled, y \in DOMAIN order : settled[x] # order[y]
      BY <1>3, <2>4, <2>5
    <3> QED BY <2>7, <2>9, <3>1, <3>2, <3>3
  <2>10. Pending' \subseteq Pending /\ live' \subseteq live
    <3>1. \A i \in DOMAIN settled' : settled'[i] \in Pending
      BY <2>4, <2>5, <2>7 DEF Pending
    <3> QED BY <2>1, <3>1 DEF Pending
  <2>11. LastTurn' = LastTurn /\ LastTurn.part # "module" /\ \A id : Evaluated(id)' <=> Evaluated(id)
    BY <1>4, <1>18, <2>31 DEF LastTurn, Evaluated
  <2>12. RecorderTold'
    <3>1. /\ \A id \in Pending' : Unspent(id, Len(script'), script', kinds')
          /\ \A id \in live' : Evaluated(id)' => ModuleOf(id, LastTurn')
      BY <1>3, <2>10, <2>11, <2>31
    <3>2. /\ \A i \in DOMAIN userContent' : userContent'[i] /\ "file" \in page'
          /\ started' = {}
      BY <1>2, <2>31 DEF ReplayInv, RecorderTold
    <3> QED BY <2>8, <2>9, <2>11, <3>1, <3>2 DEF RecorderTold
  <2>13. SessionTold'
    BY <2>11, <2>31 DEF ReplayInv, SessionTold, Turned, Withheld, PageTold, LastTurn
  <2> QED BY <2>12, <2>13
<1> QED BY <1>10, <1>11, <1>13, <1>14, <1>15, <1>16, <1>17, <1>18 DEF Platform

(* The rest of a session, that its page does not see.                      *)
LEMMA TellsOn ==
  ASSUME ReplayInv, UNCHANGED <<phase, log, script, page, kinds, live, settled, userContent>>,
         phase' = "record" => started' = started
  PROVE  SessionTold' /\ RecorderTold'
<1>1. LastTurn' = LastTurn /\ Pending' = Pending /\ \A id : Evaluated(id)' <=> Evaluated(id)
  BY DEF LastTurn, Pending, Evaluated
<1>2. SessionTold'
  BY <1>1 DEF ReplayInv, SessionTold, Turned, Withheld, PageTold
<1>3. RecorderTold'
  BY <1>1 DEF ReplayInv, RecorderTold
<1> QED BY <1>2, <1>3

(* The recorder stops, and the replay is at the session's beginning.       *)
LEMMA StopTold ==
  ASSUME Replayable, ReplayInv, StopRecording
  PROVE  SessionTold' /\ RecorderTold' /\ ReplayTold' /\ Verdict'
<1>1. Recording /\ Undisturbed
  BY DEF StopRecording, Stop
<1>2. /\ script \in Seq(Turns) /\ Len(script) \in Nat \ {0}
      /\ \A t \in 1..Len(script) : script[t].part = "module" => kinds[script[t].id] = "import"
      /\ log \in Seq(Records) /\ Len(log) \in Nat /\ phase = "record" /\ verdict = "running"
  BY <1>1, Recorded
<1>3. /\ phase' = "replay" /\ log' = Append(log, End) /\ nextTask' = 1
      /\ UNCHANGED <<script, page, kinds, turnNo, opNo, at, verdict, started, awaited>>
  BY DEF StopRecording, Stop, recorder, replayer
<1>4. /\ Turned(script, kinds) /\ Withheld /\ PageTold /\ started = {} /\ at = 1 /\ turnNo = 1
      /\ awaited = 0
      /\ LastTurn.part = "module" => LastTurn.id \in live
  BY <1>2 DEF ReplayInv, IInv, Unreplayed, SessionTold, RecorderTold
<1>5. LastTurn.part # "module"
  <2>1. Settling = {}
    BY <1>1 DEF Undisturbed, Replayable
  <2>2. LastTurn = script[Len(script)] /\ Len(script) \in 1..Len(script)
    BY <1>2 DEF LastTurn
  <2>3. LastTurn.part = "module" => LastTurn.id \in Settling
    BY <1>2, <1>4, <2>2 DEF Settling
  <2> QED BY <2>1, <2>3
<1>6. /\ Len(log') = Len(log) + 1 /\ log'[Len(log) + 1] = End
      /\ \A i \in 1..Len(log) : log'[i] = log[i]
      /\ \A i \in 1..Len(log') : i \in 1..Len(log) \/ i = Len(log) + 1
  <2>1. End \in Records
    BY DEF End, Rec, None, Records, Labels, Queries, Answers
  <2>2. /\ Len(log') = Len(log) + 1 /\ log'[Len(log) + 1] = End
        /\ \A i \in 1..Len(log) : log'[i] = log[i]
    BY <1>2, <1>3, <2>1
  <2> QED BY <1>2, <2>2
<1>7. Withheld'
  <2>1. ASSUME NEW i \in 1..Len(log'), log'[i].rec = "TaskReg", kinds'[log'[i].id] = "file"
        PROVE  \E j \in 1..i - 1 : log'[j] = Refusal
    <3>1. i \in 1..Len(log) /\ log'[i] = log[i] /\ kinds' = kinds
      BY <1>3, <1>6, <2>1, RecordsTell
    <3>2. PICK j \in 1..i - 1 : log[j] = Refusal
      BY <1>4, <2>1, <3>1 DEF Withheld
    <3>3. j \in 1..Len(log)
      BY <1>2, <3>1
    <3> QED BY <1>6, <3>2, <3>3
  <2> QED BY <2>1 DEF Withheld
<1>8. PageTold'
  <2>1. \A i \in 1..Len(log') : log'[i].rec = "Refusal" => "refused" \in page \/ "file" \in page
    BY <1>4, <1>6, RecordsTell DEF PageTold
  <2>2. LastTurn' = LastTurn
    BY <1>3 DEF LastTurn
  <2> QED BY <1>3, <1>4, <1>5, <2>1, <2>2 DEF PageTold
<1>9. SessionTold' /\ RecorderTold'
  BY <1>3, <1>4, <1>7, <1>8 DEF SessionTold, RecorderTold, Turned
<1>10. ReplayTold'
  <2>1. /\ at' = 1 /\ nextTask' = 1 /\ turnNo' = 1 /\ awaited' = 0 /\ started' = {}
        /\ script'[1].part = "script"
    BY <1>3, <1>4 DEF Turned
  <2>2. /\ \A x \in 1..1 - 1 : FALSE
        /\ \A t \in 1..1 : t = 1
        /\ \A j \in 1..1 - 2 : FALSE
        /\ ~(1 > 1)
    OBVIOUS
  <2>3. RegisteredTold(1, 1)'
    BY <2>2 DEF RegisteredTold, Registered
  <2>4. HandlersTold(1, 0, 1, handlers, starters)'
    BY <2>2 DEF HandlersTold
  <2>5. StartedTold(1, {})'
    BY <2>1, <2>2 DEF StartedTold, ModuleOf
  <2>6. HandedAgain(1, rHanded)' /\ AwaitedTold(1, 0)'
    BY <2>2 DEF HandedAgain, AwaitedTold
  <2> QED BY <2>1, <2>3, <2>4, <2>5, <2>6
          DEF ReplayTold, RegisteredTold, HandlersTold, StartedTold, HandedAgain, AwaitedTold
<1>11. Verdict'
  BY <1>2, <1>3 DEF Verdict
<1> QED BY <1>9, <1>10, <1>11

-----------------------------------------------------------------------------
LEMMA InitTold == Init => ReplayInv
<1> SUFFICES ASSUME Init PROVE ReplayInv
  OBVIOUS
<1>1. /\ phase = "record" /\ log = <<>> /\ script = <<Turn(0, "script", None)>>
      /\ turnNo = 1 /\ opNo = 0 /\ verdict = "running" /\ kinds = <<>> /\ live = {}
      /\ settled = <<>> /\ userContent = <<>> /\ started = {} /\ page \in Uses
  BY DEF Init, SessionInit, SeamInit
<1>2. Len(script) = 1 /\ script[1] = Turn(0, "script", None) /\ script[1].part = "script"
  BY <1>1 DEF Turn
<1>3. /\ DOMAIN kinds = {} /\ DOMAIN settled = {} /\ DOMAIN userContent = {}
      /\ \A i \in 1..Len(log) : FALSE
      /\ \A t \in 2..1 : FALSE
  BY <1>1
<1>4. Turned(script, kinds)
  BY <1>2, <1>3 DEF Turned
<1>5. Withheld /\ PageTold
  BY <1>1, <1>3 DEF Withheld, PageTold
<1>6. Pending = {} /\ LastTurn.part # "module"
  BY <1>1, <1>2, <1>3 DEF Pending, LastTurn
<1>7. RecorderTold
  BY <1>1, <1>3, <1>6 DEF RecorderTold
<1>8. ReplayTold /\ Verdict
  BY <1>1 DEF ReplayTold, Verdict
<1> QED BY <1>4, <1>5, <1>7, <1>8, InitInv DEF ReplayInv, SessionTold

(* What is recorded tells nothing of the replay yet.                       *)
LEMMA Unbegun ==
  ASSUME IInv', phase' = "record"
  PROVE  ReplayTold' /\ Verdict'
  BY DEF IInv, Unreplayed, ReplayTold, Verdict

LEMMA NextTold ==
  ASSUME Replayable, ReplayInv, [Next]_vars
  PROVE  ReplayInv'
<1>1. IInv /\ SessionTold /\ RecorderTold /\ ReplayTold /\ Verdict
  BY DEF ReplayInv
<1>2. IInv'
  BY <1>1, NextInv
<1> SUFFICES SessionTold' /\ RecorderTold' /\ ReplayTold' /\ Verdict'
  BY <1>2 DEF ReplayInv
<1>3. CASE PageRecords
  <2>1. phase' = "record"
    BY <1>3 DEF PageRecords, Read, ReadOwn, SetTimer, Observe, CallPlatform, ClearTimer,
           ReadReady, GetFile, MakeOfFile, ReadFile, UseRefused, PageRuns, Recording, Registers,
           Does
  <2>2. SessionTold' /\ RecorderTold'
    BY <1>2, <1>3, PageRecordsTold, Zenon
  <2>3. ReplayTold' /\ Verdict'
    BY <1>2, <2>1, Unbegun, Zenon
  <2> QED BY <2>2, <2>3
<1>4. CASE Platform
  <2>1. phase' = "record"
    BY <1>4 DEF Platform, RunTimer, RunObserver, PlatformEvent, SettlePlain, SettleOutcomes,
           TellOutcome, Evaluate, SettleImport, PlatformActs, Recording, Begins, session
  <2>2. SessionTold' /\ RecorderTold'
    BY <1>2, <1>4, PlatformTold, Zenon
  <2>3. ReplayTold' /\ Verdict'
    BY <1>2, <2>1, Unbegun, Zenon
  <2> QED BY <2>2, <2>3
<1>5. CASE EndTurn \/ ReplaceFonts
  <2>1. /\ UNCHANGED <<phase, log, script, page, kinds, live, settled, userContent, started>>
        /\ phase = "record"
    BY <1>5 DEF EndTurn, TurnOver, Recording, ReplaceFonts, session, recorder, replayer
  <2> QED BY <1>2, <2>1, TellsOn, Unbegun
<1>6. CASE StopRecording
  BY <1>6, StopTold
<1>7. CASE PageReplayed \/ Scheduled
  <2>1. phase = "replay" /\ UNCHANGED <<phase, log, script, recorder>>
    <3>1. CASE PageReplayed
      BY <3>1 DEF PageReplayed, ReadAgain, ReadOwnAgain, RegisterAgain, MakeAgain, ClearAgain,
             ReadReadyAgain, UseRefusedAgain, EndTurnAgain, TurnOverAgain, PageReplays, Replaying,
             Asks, Replays, Diverges, Ends
    <3>2. CASE Scheduled
      BY <3>2 DEF Scheduled, AtEnd, RunTask, StartTask, MissingRead, Arrive, EvaluateAwaited,
             Scheduling, PageIdle, Replaying, Lets, BeginsAgain, Ends, session
    <3> QED BY <1>7, <3>1, <3>2
  <2>2. UNCHANGED <<phase, log, script, page, kinds, live, settled, userContent>>
    BY <2>1 DEF recorder
  <2>3. SessionTold' /\ RecorderTold'
    BY <2>1, <2>2, TellsOn
  <2> QED BY <1>1, <1>7, <2>3, PageReplayedTold, ScheduledTold
<1>8. CASE UNCHANGED vars
  <2>1. /\ UNCHANGED <<phase, log, nextTask, script, turn, at, turnNo, opNo, verdict>>
        /\ UNCHANGED <<page, kinds, live, settled, userContent>>
        /\ UNCHANGED <<handlers, starters, started, awaited, rHanded>>
    BY <1>8 DEF vars, session, recorder, replayer
  <2>2. SessionTold' /\ RecorderTold'
    BY <2>1, TellsOn
  <2>3. ReplayTold'
    BY <1>1, <2>1 DEF ReplayTold, RegisteredTold, HandlersTold, StartedTold, HandedAgain,
           AwaitedTold, WaitsFor
  <2>4. Verdict'
    BY <1>1, <2>1 DEF Verdict, HasOp, ThisTurn
  <2> QED BY <2>2, <2>3, <2>4
<1>9. Next => \/ PageRecords \/ Platform \/ EndTurn \/ ReplaceFonts \/ StopRecording
              \/ PageReplayed \/ Scheduled \/ UNCHANGED vars
  BY DEF Next, Record, Replay, Finished, PageRecords, PageReplayed, Scheduled
<1> QED BY <1>3, <1>4, <1>5, <1>6, <1>7, <1>8, <1>9

(* What a seam wrote is what its replay asks for, where it asks: an        *)
(* unedited page is given and sees in every turn what it was and saw, and  *)
(* no divergence is reported of it, whatever the page uses and the         *)
(* platform answers and in whatever order tasks run (the seams of          *)
(* packages/boundary-shim and the scheduler of boundary-replay's           *)
(* runtime.ts), but for what Replayable leaves out.                        *)
THEOREM UneditedPageReplays ==
  ASSUME Replayable
  PROVE  Spec => []ReplaysAsRecorded
<1>1. Init => ReplayInv
  BY InitTold
<1>2. ReplayInv /\ [Next]_vars => ReplayInv'
  BY NextTold
<1>3. ReplayInv => ReplaysAsRecorded
  BY DEF ReplayInv, Verdict, ReplaysAsRecorded
<1> QED BY <1>1, <1>2, <1>3, PTL DEF Spec

(* A replay that ends with the log (runtime.ts, the End a read or the      *)
(* scheduler comes to) has run every turn and every step of the page that  *)
(* was recorded.                                                           *)
THEOREM ReplayEndsWithPage ==
  ASSUME Replayable
  PROVE  Spec => []FollowsWhole
<1>1. Init => ReplayInv
  BY InitTold
<1>2. ReplayInv /\ [Next]_vars => ReplayInv'
  BY NextTold
<1>3. ReplayInv => FollowsWhole
  <2> SUFFICES ASSUME ReplayInv, verdict = "done" PROVE ~HasOp /\ \A i \in (turnNo + 1)..Len(script) : FALSE
    BY DEF FollowsWhole
  <2>1. ~HasOp /\ turnNo = Len(script)
    BY DEF ReplayInv, Verdict
  <2>2. Len(script) \in Nat
    BY LenProperties DEF ReplayInv, IInv, Typed, SessionTyped
  <2> QED BY <2>1, <2>2
<1> QED BY <1>1, <1>2, <1>3, PTL DEF Spec
=============================================================================
