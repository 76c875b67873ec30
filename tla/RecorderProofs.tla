---------------------------- MODULE RecorderProofs ----------------------------
(***************************************************************************)
(* Proofs about Recorder, for every set of scripts, every bound and every  *)
(* choice of what the outside calls back.                                  *)
(*                                                                         *)
(* The recorder's state is mostly its stack of calls under way, so the     *)
(* argument has two halves.  First, every action is one of twenty moves    *)
(* that say what takes the place of the first item and which variables     *)
(* change (Move; lemmas up to NextMoves).  Then each conjunct of the       *)
(* invariant is kept by every move: a lemma ...Tops says what a move that  *)
(* puts m items in the place of the first must satisfy to keep it, and     *)
(* ...Kept goes through the moves.  The shape of the stack (which item may *)
(* lie on which: Follows) is what the other conjuncts lean on.             *)
(*                                                                         *)
(* The end derives FaultsContained, DocumentTold and the refinement of     *)
(* BoundaryLog from the invariant.                                         *)
(***************************************************************************)
EXTENDS Recorder, FiniteSetTheorems, SequenceTheorems, TLAPS

(* The types of what is on the stack and in the log.                       *)
Kinds == {"none", "Header", "Env", "Loading", "DocTask", "Read", "Task", "Checkpoint"}
Records == {"emit", "encode", "sanitize", "append"}
Callable == {"sanitize", "append", "hash", "digest", "sanitizeEnd"}
Dos == Outside \cup Records \cup {"macrotask", "due", "final", "checkpointed", "encodeEnd",
                                  "rethrow", "guard", "haltSink", "mark"}
Names == Scripts \cup {"none"}
Items == [do : Dos, kind : Kinds, n : Nat, script : Names]
Frames == [kind : Kinds \cup {"End", "Fault"}, seq : Nat, n : Nat, script : Names, where : 1..4]

(* A record that is not in the log yet; a part of end; a task.             *)
Unwritten(x) == x.do \in {"emit", "encode", "sanitize"}
IsEnd(x) == x.do \in {"encodeEnd", "sanitizeEnd"}
Begins(x) == x.kind \in {"Task", "DocTask"}

(* What may follow an item.                                                *)
Follows(x, y) ==
  /\ x.do = "guard" => y.do \in Callable \cup {"mark"}
  /\ x.do \in {"haltSink", "halting"} => y.do \in Callable \cup {"rethrow", "mark"}
  /\ x.do \in {"describe", "refuse"} => y.do = "haltSink"
  /\ x.do \in {"rethrow", "encodeEnd", "sanitizeEnd", "sinkEnd"} => y.do = "guard"
  /\ x.do # "mark"
  /\ x.do = "macrotask" => y.do = "due"
  /\ x.do = "due" => y.do = "emit" /\ y.kind = "Task"
  /\ x.do = "final" => y.do = "encodeEnd"
  /\ x.do \in {"hash", "digest", "checkpointed"} => y.do = "encodeEnd" \/ (y.do = "emit" /\ y.kind = "Task")
  /\ x.kind = "Header" => y = Emit("Env")
  /\ x.kind \in {"Env", "Task"} => y.do = "guard"
  /\ x.kind = "Checkpoint" => y.do = "checkpointed"
  /\ x.kind = "Loading" => y.do = "due" \/ (y.do = "emit" /\ y.kind = "DocTask")
  /\ x.kind = "DocTask" => y.do = "guard" \/ (y.do = "encode" /\ y.kind \in {"Read", "Task", "Checkpoint"})
  /\ x.kind = "Read" => y.do = "guard" \/ (y.do \in Callable /\ x.script = "none")

(* What may be the last item: nothing thrown gets past it.                 *)
Last(x) == x.do \in {"guard", "mark", "haltSink", "halting"}

Shape(s) ==
  /\ \A i \in 1..Len(s) : (s[i].kind = "none") <=> (s[i].do \notin Records)
  /\ \A i \in 1..Len(s) - 1 : Follows(s[i], s[i + 1])
  /\ s # <<>> => Last(s[Len(s)])

(* A task, and a script's own record, are right above the call's guard.    *)
Bottom ==
  /\ \A i \in DOMAIN stack : stack[i].kind = "Task" => i = Len(stack) - 1 /\ running = "none"
  /\ \A i \in DOMAIN stack : stack[i].kind = "Read" /\ stack[i].script # "none" =>
        /\ i = Len(stack) - 1 /\ stack[i].script = running
        /\ stack[i].do = "emit" => i = 1 /\ ~thrown

(* The types.                                                              *)
TypeInv ==
  /\ TypeOK /\ stack \in Seq(Items) /\ log \in Seq(Frames)
  /\ \A i \in DOMAIN stack : stack[i].do = "mark" => loading \in {2, 3}

(* A sink that appends is not called back with the end.                    *)
Appending == \A i \in DOMAIN stack : stack[i].do = "append" =>
  \A j \in 1..i - 1 : /\ stack[j].do \in Records \cup {"describe", "refuse", "haltSink", "halting"}
                      /\ stack[j].kind \in {"none", "Read", "Loading", "DocTask"}

(* Something thrown is on its way through a call that can throw.           *)
Throwing == thrown => stack # <<>> /\ stack[1].do \in Callable \cup Records
     \cup {"macrotask", "due", "final", "checkpointed", "encodeEnd", "rethrow", "guard"}

(* A fault is described and its sink halted once, by the session that      *)
(* faulted.                                                                *)
Faulting ==
  /\ \A i \in DOMAIN stack : stack[i].do \in {"describe", "refuse"} => i = 1 /\ state = "faulted"
  /\ \A i \in DOMAIN stack : stack[i].do \in {"haltSink"} =>
        /\ ~thrown /\ state = "faulted" /\ halts = 0
        /\ i = 1 \/ (i = 2 /\ stack[1].do \in {"describe", "refuse"})
  /\ \A i \in DOMAIN stack : stack[i].do = "sinkEnd" => i = 1 /\ ~thrown /\ state = "ended"
  /\ \A i \in DOMAIN stack : stack[i].do \in {"halting", "rethrow"} => state = "faulted"
  /\ inFault => state = "faulted"
  /\ halts \in {0, 1}
  /\ halts = 1 => state = "faulted"
  /\ state = "faulted" /\ halts = 0 => \E i \in DOMAIN stack : stack[i].do = "haltSink"

(* What is thrown is certain to reach a guard, which ends the session; is  *)
(* certain to leave the first i items; the session ends, or is about to.   *)
Doomed == thrown /\ \E g \in DOMAIN stack :
   stack[g].do = "guard" /\ \A k \in 1..g : stack[k].do \notin Outside
Lost(i) == thrown /\ \A k \in 1..i : stack[k].do \notin Outside
Closing == ~Recording \/ Doomed \/ \E i \in DOMAIN stack : IsEnd(stack[i])

(* The last task of the log, or one that is to begin, has the position of  *)
(* the document before it.                                                 *)
Located(l, w) == \E j \in DOMAIN l : l[j].kind = "Loading" /\ l[j].where = w
                                   /\ \A k \in j..Len(l) : ~Begins(l[k])
Locating(i) ==
  \/ loading = 4 \/ Located(log, loading) \/ Lost(i)
  \/ i > 1 /\ stack[i - 1].kind = "Loading" /\ Unwritten(stack[i - 1])
  \/ i > 2 /\ stack[i - 1].do = "due"
     /\ (stack[i - 2].do = "macrotask" \/ (stack[i - 2].kind = "Loading" /\ Unwritten(stack[i - 2])))
Pending(i) == Recording /\ i \in DOMAIN stack /\ Unwritten(stack[i]) /\ Begins(stack[i])
PendingLocated == \A i \in DOMAIN stack : Pending(i) => Locating(i) /\ running \in announced \cup {"none"}
OnePending == \A i, j \in DOMAIN stack : Pending(i) /\ Pending(j) => i = j

(* The DocTask of a script is written; is still on the stack.              *)
ToldIn(l, s) == \E i \in DOMAIN l : l[i].kind = "DocTask" /\ l[i].script = s
Told(s) == ToldIn(log, s)
Teller(x) == Unwritten(x) /\ x.kind = "DocTask"
Telling(s) == \E i \in DOMAIN stack : Teller(stack[i]) /\ stack[i].script = s
Known == running \in announced \cup {"none"}
Alone == \/ stack = <<>>
         \/ Len(stack) = 2 /\ stack[1].do = "emit" /\ stack[1].kind = "Read" /\ stack[1].script = running
            /\ stack[2].do = "guard"
Reading(x) == x.kind = "Read" /\ x.script # "none" /\ x.do \in {"encode", "sanitize"}

(* A script is announced where its DocTask is written or is to be.         *)
ToldAnnounced == \A s \in Scripts : Told(s) \/ Telling(s) => s \in announced
ToldOnce == \A s \in Scripts : ~(Told(s) /\ Telling(s))
LoggedOnce == \A i, j \in DOMAIN log :
  log[i].kind = "DocTask" /\ log[j].kind = "DocTask" /\ log[i].script = log[j].script
  /\ log[i].script # "none" => i = j
AnnouncedTold == Closing \/ \A s \in announced : Told(s) \/ Telling(s)
SettledAnnounced == Closing \/ settled \subseteq announced
RunningKnown == Closing \/ Known \/ Alone
FirstGuarded == Closing \/ \A i \in DOMAIN stack :
  Teller(stack[i]) /\ i + 1 \in DOMAIN stack /\ stack[i + 1].kind = "Read" => stack[i + 2].do = "guard"
ReadsTold == \A i \in DOMAIN stack : Reading(stack[i]) =>
  \/ ~Recording \/ Lost(i) \/ Told(stack[i].script)
  \/ i > 1 /\ Teller(stack[i - 1]) /\ stack[i - 1].script = stack[i].script
LogTold == \A i \in DOMAIN log : log[i].kind = "Read" /\ log[i].script # "none" =>
  \E j \in DOMAIN log : j < i /\ log[j].kind = "DocTask" /\ log[j].script = log[i].script

(* No checkpoint is under way while the document is parsed.                *)
Parsing ==
  /\ \A i \in DOMAIN stack : stack[i].do \in {"hash", "digest"} \/ stack[i].kind = "Checkpoint" => loading # 1
  /\ CheckpointsOfParsed

(* A checkpoint is in the log and not counted yet.                         *)
Written == \/ \E i \in DOMAIN stack : stack[i].do = "append" /\ stack[i].kind = "Checkpoint"
           \/ stack # <<>> /\ stack[1].do = "checkpointed"
Sequenced ==
  Recording \/ (\E i \in DOMAIN stack : stack[i].do = "describe") => nextSeq = Log!LastSeq(log) + 1
Counted ==
  Recording /\ ~Doomed => Cardinality(Log!Checkpoints(log)) = ordinal + IF Written THEN 1 ELSE 0
ToCheck(x) == Unwritten(x) /\ x.kind = "Checkpoint"
Ordered == \A i \in DOMAIN stack : ToCheck(stack[i]) /\ Recording =>
  stack[i].n = ordinal \/ Doomed \/ \E j \in 1..i - 1 : IsEnd(stack[j])
(* The two records a log begins with are made first, and undisturbed.      *)
HeaderTop == Len(stack) = 3 /\ stack[1].kind = "Header" /\ stack[2] = Emit("Env") /\ stack[3] = Step("guard")
EnvTop == Len(stack) = 2 /\ stack[1].kind = "Env" /\ Unwritten(stack[1]) /\ stack[2] = Step("guard")
Opened == \A i \in DOMAIN stack : stack[i].kind \in {"Header", "Env"} => stack[i].do = "append"
Opening ==
  Recording /\ ~Doomed =>
    \/ Len(log) = 0 /\ HeaderTop /\ Unwritten(stack[1])
    \/ Len(log) = 1 /\ ((HeaderTop /\ stack[1].do = "append") \/ EnvTop)
    \/ Len(log) >= 2 /\ Opened
ShapeInv == Shape(stack)

-----------------------------------------------------------------------------
(* What a step does to the stack: m items take the place of the first.     *)
Tops(m) ==
  /\ stack # <<>> /\ stack' \in Seq(Items) /\ Len(stack') = Len(stack) + m - 1
  /\ \A i \in m + 1..Len(stack') : stack'[i] = stack[i - m + 1]

(* A record on its way: the same item with another step ahead of it.       *)
Into(x, do) == [x EXCEPT !.do = do]
Taken(x, seq) == [x EXCEPT !.do = "append", !.n = seq]

Idle == UNCHANGED <<recorder, document, log, halts>>
Calm == ~thrown /\ ~thrown'

(* An item is done with, or given up because the session does not record.  *)
Drops ==
  /\ Tops(0) /\ Calm
  /\ stack[1].do \in {"emit", "encode", "sanitize", "append", "macrotask", "due", "final", "hash",
                      "encodeEnd", "sanitizeEnd", "sinkEnd", "describe", "refuse", "halting", "guard"}
  /\ stack[1].do \in {"emit", "encode", "sanitize", "hash", "encodeEnd", "sanitizeEnd"} => ~Recording
  /\ stack[1].do = "macrotask" => ~Recording \/ loading = 4
  /\ UNCHANGED <<state, inFault, ordinal, document, log, halts>>
  /\ nextSeq' \in {nextSeq, nextSeq + 1} /\ (stack[1].do # "refuse" => nextSeq' = nextSeq)
  /\ since' \in {since, 0, since + 1} /\ ripe' \in {ripe, TRUE}
Counts ==
  /\ Tops(0) /\ Calm /\ stack[1].do = "checkpointed"
  /\ ordinal' = (IF Recording THEN ordinal + 1 ELSE ordinal) /\ ripe' = (ripe /\ ~Recording)
  /\ UNCHANGED <<state, inFault, nextSeq, since, document, log, halts>>
Falls ==
  /\ Tops(0) /\ thrown' /\ Idle
  /\ stack[1].do \notin {"guard", "describe", "refuse", "sinkEnd", "halting"}
  /\ ~thrown => stack[1].do \in {"sanitize", "append", "hash", "digest", "sanitizeEnd", "rethrow"}
Catches ==
  /\ stack # <<>> /\ stack' = stack /\ thrown /\ ~thrown' /\ stack[1].do \in Outside /\ Idle
Guards ==
  /\ Tops(0) /\ thrown /\ ~thrown' /\ stack[1].do = "guard" /\ (inFault \/ ~Recording) /\ Idle
GuardFaults ==
  /\ Tops(2) /\ thrown /\ ~thrown' /\ stack[1].do = "guard" /\ Recording /\ ~inFault
  /\ stack'[1] = Step("describe") /\ stack'[2] = Step("haltSink")
  /\ state' = "faulted" /\ inFault'
  /\ UNCHANGED <<nextSeq, ordinal, since, ripe, document, log, halts>>
Own(x) == x.kind \in {"Read", "Task", "Checkpoint"}
FirstOf ==
  /\ Calm /\ Recording /\ stack # <<>> /\ stack[1].do = "emit" /\ Own(stack[1])
  /\ running # "none" /\ running \notin announced /\ announced' = announced \cup {running}
  /\ \/ loading = 4 /\ Tops(2) /\ stack'[1] = Item("emit", "DocTask", 0, running)
                    /\ stack'[2] = Into(stack[1], "encode")
     \/ loading < 4 /\ Tops(3) /\ stack'[1] = Emit("Loading")
                    /\ stack'[2] = Item("emit", "DocTask", 0, running)
                    /\ stack'[3] = Into(stack[1], "encode")
  /\ UNCHANGED <<recorder, loading, running, settled, log, halts>>
Turns ==
  /\ Tops(1) /\ Calm /\ Recording /\ Idle
  /\ \/ /\ stack[1].do = "emit" /\ stack'[1] = Into(stack[1], "encode")
        /\ Own(stack[1]) => running \in announced \cup {"none"}
     \/ stack[1].do = "encode" /\ stack'[1] = Into(stack[1], "sanitize")
     \/ stack[1].do = "macrotask" /\ loading < 4 /\ stack'[1] = Emit("Loading")
     \/ stack[1].do \in {"due", "final"} /\ loading # 1 /\ stack'[1] = Step("hash")
     \/ stack[1].do = "hash" /\ stack'[1] = Step("digest")
     \/ stack[1].do = "encodeEnd" /\ stack'[1] = Step("sanitizeEnd")
Numbers(x) == x.kind \notin Unnumbered
Writes ==
  /\ Tops(1) /\ Calm /\ Recording /\ stack[1].do = "sanitize"
  /\ LET seq == IF Numbers(stack[1]) THEN nextSeq ELSE 0
     IN /\ stack'[1] = Taken(stack[1], seq)
        /\ log' = Append(log, Frame(stack[1].kind, seq, stack[1].n, stack[1].script))
  /\ nextSeq' = IF Numbers(stack[1]) THEN nextSeq + 1 ELSE nextSeq
  /\ UNCHANGED <<state, inFault, ordinal, since, ripe, document, halts>>
Digests ==
  /\ Tops(2) /\ Calm /\ stack[1].do = "digest" /\ Idle
  /\ stack'[1] = Item("emit", "Checkpoint", ordinal, "none") /\ stack'[2] = Step("checkpointed")
Closes ==
  /\ Tops(1) /\ Calm /\ Recording /\ stack[1].do = "sanitizeEnd"
  /\ stack'[1] = Step("sinkEnd") /\ state' = "ended"
  /\ log' \in {log, Append(log, Frame("End", 0, nextSeq - 1, "none"))}
  /\ UNCHANGED <<inFault, nextSeq, ordinal, since, ripe, document, halts>>
EndFaults ==
  /\ Tops(2) /\ Calm /\ stack[1].do = "sinkEnd" /\ state' = "faulted"
  /\ stack'[1] = Step("haltSink") /\ stack'[2] = Step("rethrow")
  /\ UNCHANGED <<inFault, nextSeq, ordinal, since, ripe, document, log, halts>>
Refuses ==
  /\ Tops(1) /\ Calm /\ stack[1].do = "describe" /\ stack'[1] = Step("refuse")
  /\ log' = Append(log, Frame("Fault", nextSeq, 0, "none"))
  /\ UNCHANGED <<recorder, document, halts>>
Halts ==
  /\ Tops(1) /\ Calm /\ stack[1].do = "haltSink" /\ stack'[1] = Step("halting")
  /\ ~inFault' /\ halts' = halts + 1
  /\ UNCHANGED <<state, nextSeq, ordinal, since, ripe, document, log>>
Called == Calm /\ Recording /\ stack # <<>> /\ stack[1].do \in Outside
Rereads ==
  /\ Tops(2) /\ Called /\ Idle /\ Len(log) >= 2
  /\ stack'[1] = Emit("Read") /\ stack'[2] = stack[1]
Reends ==
  /\ Tops(4) /\ Called /\ Idle /\ Len(log) >= 2 /\ \A i \in DOMAIN stack : stack[i].do # "append"
  /\ stack'[1] = Step("final") /\ stack'[2] = Step("encodeEnd") /\ stack'[3] = Step("guard")
  /\ stack'[4] = stack[1]
Refaults ==
  /\ Tops(3) /\ Called /\ state' = "faulted" /\ inFault'
  /\ stack'[1] = Step("describe") /\ stack'[2] = Step("haltSink") /\ stack'[3] = stack[1]
  /\ UNCHANGED <<nextSeq, ordinal, since, ripe, document, log, halts>>
Rehalts ==
  /\ Called /\ state' = "ended" /\ stack' = stack
  /\ UNCHANGED <<inFault, nextSeq, ordinal, since, ripe, document, log, halts>>
Marks ==
  /\ Tops(0) /\ Calm /\ stack[1].do = "mark" /\ loading' = loading + 1
  /\ UNCHANGED <<recorder, running, announced, settled, log, halts>>

Move ==
  \/ Drops \/ Counts \/ Falls \/ Catches \/ Guards \/ GuardFaults \/ FirstOf \/ Turns
  \/ Writes \/ Digests \/ Closes \/ EndFaults \/ Refuses \/ Halts \/ Rereads \/ Reends
  \/ Refaults \/ Rehalts \/ Marks \/ Page

(* What Then, with items in place of the first, does to the stack.         *)
LEMMA Tailed == ASSUME TypeInv, stack # <<>>, stack' = <<>> \o Tail(stack) \/ stack' = Tail(stack)
  PROVE Tops(0)
<1>1. stack' = Tail(stack)
  BY SMT DEF TypeInv
<1>. QED BY <1>1, SMT DEF TypeInv, Tops

LEMMA Topped == ASSUME TypeInv, stack # <<>>, NEW new \in Seq(Items), stack' = new \o Tail(stack)
  PROVE Tops(Len(new)) /\ \A i \in 1..Len(new) : stack'[i] = new[i]
BY SMT DEF TypeInv, Tops

LEMMA Pushed == ASSUME TypeInv, stack # <<>>, NEW new \in Seq(Items), stack' = new \o stack
  PROVE /\ Tops(Len(new) + 1) /\ stack'[Len(new) + 1] = stack[1]
        /\ \A i \in 1..Len(new) : stack'[i] = new[i]
BY SMT DEF TypeInv, Tops

LEMMA Topped1 == ASSUME TypeInv, stack # <<>>, NEW new \in Seq(Items), Len(new) = 1,
    stack' = new \o Tail(stack)
  PROVE Tops(1) /\ stack'[1] = new[1]
<1>1. Tops(Len(new)) /\ \A i \in 1..Len(new) : stack'[i] = new[i]
  BY Topped
<1>. QED BY <1>1 DEF Tops

LEMMA Topped2 == ASSUME TypeInv, stack # <<>>, NEW new \in Seq(Items), Len(new) = 2,
    stack' = new \o Tail(stack)
  PROVE Tops(2) /\ stack'[1] = new[1] /\ stack'[2] = new[2]
<1>1. Tops(Len(new)) /\ \A i \in 1..Len(new) : stack'[i] = new[i]
  BY Topped
<1>. QED BY <1>1 DEF Tops

LEMMA Topped3 == ASSUME TypeInv, stack # <<>>, NEW new \in Seq(Items), Len(new) = 3,
    stack' = new \o Tail(stack)
  PROVE Tops(3) /\ stack'[1] = new[1] /\ stack'[2] = new[2] /\ stack'[3] = new[3]
<1>1. Tops(Len(new)) /\ \A i \in 1..Len(new) : stack'[i] = new[i]
  BY Topped
<1>. QED BY <1>1 DEF Tops

LEMMA Pushed1 == ASSUME TypeInv, stack # <<>>, NEW new \in Seq(Items), Len(new) = 1,
    stack' = new \o stack
  PROVE Tops(2) /\ stack'[1] = new[1] /\ stack'[2] = stack[1]
<1>1. Tops(Len(new) + 1) /\ \A i \in 1..Len(new) : stack'[i] = new[i]
  BY Pushed
<1>2. stack'[Len(new) + 1] = stack[1]
  BY Pushed
<1>. QED BY <1>1, <1>2 DEF Tops

LEMMA Pushed2 == ASSUME TypeInv, stack # <<>>, NEW new \in Seq(Items), Len(new) = 2,
    stack' = new \o stack
  PROVE Tops(3) /\ stack'[1] = new[1] /\ stack'[2] = new[2] /\ stack'[3] = stack[1]
<1>1. Tops(Len(new) + 1) /\ \A i \in 1..Len(new) : stack'[i] = new[i]
  BY Pushed
<1>2. stack'[Len(new) + 1] = stack[1]
  BY Pushed
<1>. QED BY <1>1, <1>2 DEF Tops

LEMMA Pushed3 == ASSUME TypeInv, stack # <<>>, NEW new \in Seq(Items), Len(new) = 3,
    stack' = new \o stack
  PROVE Tops(4) /\ stack'[1] = new[1] /\ stack'[2] = new[2] /\ stack'[3] = new[3] /\ stack'[4] = stack[1]
<1>1. Tops(Len(new) + 1) /\ \A i \in 1..Len(new) : stack'[i] = new[i]
  BY Pushed
<1>2. stack'[Len(new) + 1] = stack[1]
  BY Pushed
<1>. QED BY <1>1, <1>2 DEF Tops

LEMMA OneOrMore == \A n \in Nat : n >= 1 => n = 1 \/ n > 1
OBVIOUS

(* A move that puts m items in the place of the first keeps the shape,     *)
(* where they follow each other and what is below.                         *)
LEMMA ShapeTops == ASSUME TypeInv, TypeInv', ShapeInv, NEW m \in 0..4, Tops(m),
    \A i \in 1..m : (stack'[i].kind = "none") <=> (stack'[i].do \notin Records),
    \A i \in 1..m - 1 : Follows(stack'[i], stack'[i + 1]),
    m > 0 => IF Len(stack) = 1 THEN Last(stack'[m]) ELSE Follows(stack'[m], stack[2])
  PROVE ShapeInv'
<1>1. /\ Len(stack) \in Nat /\ Len(stack) >= 1 /\ Len(stack') \in Nat /\ DOMAIN stack' = 1..Len(stack')
      /\ Len(stack') = Len(stack) + m - 1
      /\ \A i \in m + 1..Len(stack') : stack'[i] = stack[i - m + 1]
  BY DEF TypeInv, Tops
<1>2. ASSUME NEW i \in 1..Len(stack')
      PROVE (stack'[i].kind = "none") <=> (stack'[i].do \notin Records)
  <2>1. CASE i <= m
    BY <1>1, <2>1
  <2>2. CASE i > m
    <3>1. i - m + 1 \in 1..Len(stack) /\ stack'[i] = stack[i - m + 1]
      BY <1>1, <2>2
    <3>. QED BY <3>1 DEF ShapeInv, Shape
  <2>. QED BY <1>1, <2>1, <2>2
<1>3. ASSUME NEW i \in 1..Len(stack') - 1 PROVE Follows(stack'[i], stack'[i + 1])
  <2>1. CASE i < m
    BY <1>1, <2>1
  <2>2. CASE i = m
    BY <1>1, <2>2
  <2>3. CASE i > m
    BY <1>1, <2>3 DEF ShapeInv, Shape
  <2>. QED BY <1>1, <2>1, <2>2, <2>3
<1>4. stack' # <<>> => Last(stack'[Len(stack')])
  <2>1. CASE Len(stack) = 1 /\ m > 0
    BY <1>1, <2>1
  <2>2. CASE Len(stack) = 1 /\ m = 0
    BY <1>1, <2>2 DEF TypeInv
  <2>3. CASE Len(stack) # 1
    <3>1. Len(stack) > 1
      BY <1>1, <2>3, OneOrMore
    <3>. QED BY <1>1, <3>1 DEF ShapeInv, Shape
  <2>. QED BY <2>1, <2>2, <2>3
<1>. QED BY <1>2, <1>3, <1>4 DEF ShapeInv, Shape

(* The items that a step puts on the stack are items.                      *)
LEMMA ItemsMade ==
  /\ \A do \in Dos, kind \in Kinds, n \in Nat, script \in Names : Item(do, kind, n, script) \in Items
  /\ \A do \in Dos : Step(do) \in Items
  /\ \A kind \in Kinds : Emit(kind) \in Items
<1>1. \A do \in Dos, kind \in Kinds, n \in Nat, script \in Names : Item(do, kind, n, script) \in Items
  BY DEF Items, Item
<1>2. "none" \in Kinds /\ "none" \in Names /\ "emit" \in Dos
  BY DEF Kinds, Names, Dos, Records
<1>. QED BY <1>1, <1>2 DEF Step, Emit

(* Items are made, and put on the stack.                                   *)
LEMMA ItemsChanged == ASSUME NEW x \in Items
  PROVE /\ \A do \in Dos : Into(x, do) \in Items
        /\ \A n \in Nat : Taken(x, n) \in Items
BY DEF Items, Into, Taken, Dos, Records

(* Short sequences, by their items.                                        *)
LEMMA OneItem == ASSUME NEW a \in Items, NEW new, new = <<a>> \/ new = <<>> \o <<a>>
  PROVE new \in Seq(Items) /\ Len(new) = 1 /\ new[1] = a
<1>1. CASE new = <<a>>
  BY <1>1
<1>2. CASE new = <<>> \o <<a>>
  BY <1>2
<1>. QED BY <1>1, <1>2

LEMMA TwoItems == ASSUME NEW a \in Items, NEW b \in Items, NEW new,
    new = <<a, b>> \/ new = Append(<<a>>, b) \/ new = Append(<<>>, a) \o <<b>> \/ new = <<a>> \o <<b>>
  PROVE new \in Seq(Items) /\ Len(new) = 2 /\ new[1] = a /\ new[2] = b
<1>1. CASE new = <<a, b>>
  BY <1>1
<1>2. CASE new = Append(<<a>>, b)
  BY <1>2
<1>3. CASE new = Append(<<>>, a) \o <<b>>
  BY <1>3
<1>4. CASE new = <<a>> \o <<b>>
  BY <1>4
<1>. QED BY <1>1, <1>2, <1>3, <1>4

LEMMA ThreeItems == ASSUME NEW a \in Items, NEW b \in Items, NEW c \in Items, NEW new,
    \/ new = Append(<<a, b>>, c) \/ new = Append(<<a>>, b) \o <<c>>
    \/ new = Append(Append(<<a>>, b), c)
  PROVE new \in Seq(Items) /\ Len(new) = 3 /\ new[1] = a /\ new[2] = b /\ new[3] = c
<1>1. CASE new = Append(<<a, b>>, c)
  BY <1>1
<1>2. CASE new = Append(<<a>>, b) \o <<c>>
  BY <1>2
<1>3. CASE new = Append(Append(<<a>>, b), c)
  BY <1>3
<1>. QED BY <1>1, <1>2, <1>3

LEMMA FourItems == ASSUME NEW a \in Items, NEW b \in Items, NEW c \in Items, NEW d \in Items, NEW new,
    new = Append(<<a, b, c>>, d) \/ new = Append(Append(<<a>>, b), c) \o <<d>>
  PROVE new \in Seq(Items) /\ Len(new) = 4 /\ new[1] = a /\ new[2] = b /\ new[3] = c /\ new[4] = d
<1>1. CASE new = Append(<<a, b, c>>, d)
  BY <1>1
<1>2. CASE new = Append(Append(<<a>>, b), c) \o <<d>>
  BY <1>2
<1>. QED BY <1>1, <1>2

(* Each action of the recorder is one of the moves.                        *)
LEMMA EmitMoves == ASSUME TypeInv, ShapeInv, EmitBegins PROVE Drops \/ FirstOf \/ Turns
<1> DEFINE enc == Into(stack[1], "encode")
           tell == Item("emit", "DocTask", 0, running)
           first == Own(stack[1]) /\ running # "none" /\ running \notin announced
<1>1. stack # <<>> /\ Calm /\ stack[1].do = "emit" /\ stack[1] \in Items /\ running \in Names
  BY DEF EmitBegins, Doing, Now, Then, Calm, TypeInv, TypeOK, Names
<1>2. CASE ~Recording
  <2>1. stack' = <<>> \o Tail(stack) /\ announced' = announced
    BY <1>2 DEF EmitBegins, Then
  <2>2. Tops(0)
    BY <2>1, <1>1, Tailed
  <2>. QED BY <1>1, <1>2, <2>1, <2>2 DEF EmitBegins, Drops, recorder, document
<1>3. enc \in Items /\ tell \in Items /\ Emit("Loading") \in Items
  BY <1>1, ItemsMade, ItemsChanged DEF Dos, Records, Kinds
<1>4. first <=> ((stack[1].kind \notin Unnumbered \cup {"Loading", "DocTask"})
                 /\ running # "none" /\ running \notin announced)
  BY <1>1 DEF Own, Unnumbered, ShapeInv, Shape, Records, TypeInv, Items, Kinds
<1>5. CASE Recording /\ ~first
  <2> DEFINE new == <<>> \o <<enc>>
  <2>1. stack' = new \o Tail(stack) /\ announced' = announced
    BY <1>4, <1>5 DEF Into, EmitBegins, Then, Now
  <2>2. new \in Seq(Items) /\ Len(new) = 1 /\ new[1] = enc
    BY <1>3, OneItem
  <2> HIDE DEF new
  <2>3. Tops(1) /\ stack'[1] = enc
    BY <1>1, <2>1, <2>2, Topped1
  <2>. QED BY <1>1, <1>5, <2>1, <2>3 DEF EmitBegins, Turns, Idle, recorder, document
<1>6. CASE Recording /\ first
  <2> DEFINE new == Announce(running) \o <<enc>>
  <2>1. stack' = new \o Tail(stack) /\ announced' = announced \cup {running}
    BY <1>4, <1>6 DEF Into, EmitBegins, Then, Now
  <2>2. CASE loading < 4
    <3>1. new \in Seq(Items) /\ Len(new) = 3 /\ new[1] = Emit("Loading") /\ new[2] = tell /\ new[3] = enc
      BY <1>3, <2>2, ThreeItems DEF Announce, Loading
    <3> HIDE DEF new
    <3>2. Tops(3) /\ stack'[1] = Emit("Loading") /\ stack'[2] = tell /\ stack'[3] = enc
      BY <1>1, <2>1, <3>1, Topped3
    <3>. QED BY <1>1, <1>6, <2>1, <2>2, <3>2 DEF EmitBegins, FirstOf, Turns, recorder, document
  <2>3. CASE loading = 4
    <3>1. new \in Seq(Items) /\ Len(new) = 2 /\ new[1] = tell /\ new[2] = enc
      BY <1>3, <2>3, TwoItems DEF Announce, Loading
    <3> HIDE DEF new
    <3>2. Tops(2) /\ stack'[1] = tell /\ stack'[2] = enc
      BY <1>1, <2>1, <3>1, Topped2
    <3>. QED BY <1>1, <1>6, <2>1, <2>3, <3>2 DEF EmitBegins, FirstOf, Turns, recorder, document
  <2>. QED BY <2>2, <2>3 DEF TypeInv, TypeOK
<1>. QED BY <1>2, <1>5, <1>6

(* A returned call or a step of the recorder's own puts at most one item   *)
(* in the place of the first, or two.                                      *)
LEMMA OneMore == ASSUME TypeInv, stack # <<>>, NEW y \in Items, Then(<<y>>)
  PROVE Tops(1) /\ stack'[1] = y /\ thrown' = thrown
BY OneItem, Topped1 DEF Then

LEMMA TwoMore == ASSUME TypeInv, stack # <<>>, NEW x \in Items, NEW y \in Items, Then(<<x, y>>)
  PROVE Tops(2) /\ stack'[1] = x /\ stack'[2] = y /\ thrown' = thrown
<1> DEFINE new == <<x, y>>
<1>1. new \in Seq(Items) /\ Len(new) = 2 /\ new[1] = x /\ new[2] = y
  BY TwoItems
<1>2. stack' = new \o Tail(stack) /\ thrown' = thrown
  BY DEF Then
<1> HIDE DEF new
<1>. QED BY <1>1, <1>2, Topped2

LEMMA NoMore == ASSUME TypeInv, stack # <<>>
  PROVE (Then(<<>>) => Tops(0) /\ thrown' = thrown) /\ (Throws => Tops(0) /\ thrown')
BY Tailed DEF Then, Throws

LEMMA RecordMoves == ASSUME TypeInv, ShapeInv
  PROVE /\ Encode => Drops \/ Turns
        /\ Sanitized => Drops \/ Writes \/ Falls
        /\ Appended => Drops
<1> DEFINE san == Into(stack[1], "sanitize")
           app == Taken(stack[1], IF Numbers(stack[1]) THEN nextSeq ELSE 0)
<1>1. stack # <<>> => san \in Items /\ app \in Items
  <2>1. stack # <<>> => stack[1] \in Items
    BY DEF TypeInv
  <2>2. "sanitize" \in Dos /\ "append" \in Dos /\ 0 \in Nat /\ nextSeq \in Nat
    BY DEF Dos, Records, TypeInv, TypeOK
  <2>. QED BY <2>1, <2>2, ItemsChanged
<1>2. ASSUME Encode PROVE Drops \/ Turns
  <2>1. stack # <<>> /\ ~thrown /\ stack[1].do = "encode" /\ (Then(<<>>) \/ Then(<<san>>))
    BY <1>2 DEF Into, Encode, Doing, Now
  <2>2. CASE ~Recording
    BY <1>2, <2>1, <2>2, NoMore DEF Encode, Drops, Calm, recorder, document
  <2>3. CASE Recording
    <3>1. Then(<<san>>)
      BY <1>2, <2>3 DEF Into, Encode, Now
    <3>2. Tops(1) /\ stack'[1] = san /\ thrown' = thrown
      BY <3>1, <1>1, <2>1, OneMore
    <3>. QED BY <1>2, <2>1, <2>3, <3>2 DEF Encode, Turns, Calm, Idle
  <2>. QED BY <2>2, <2>3
<1>3. ASSUME Sanitized PROVE Drops \/ Writes \/ Falls
  <2>1. stack # <<>> /\ ~thrown /\ stack[1].do = "sanitize"
    BY <1>3 DEF Sanitized, Doing, Now
  <2>2. CASE ~Recording /\ Then(<<>>) /\ UNCHANGED <<log, nextSeq>>
    BY <1>3, <2>1, <2>2, NoMore DEF Sanitized, Drops, Calm, document
  <2>3. CASE Throws /\ UNCHANGED <<log, nextSeq>>
    BY <1>3, <2>1, <2>3, NoMore DEF Sanitized, Falls, Idle, document, recorder
  <2>4. CASE /\ Recording /\ Then(<<app>>)
             /\ nextSeq' = IF Numbers(stack[1]) THEN nextSeq + 1 ELSE nextSeq
             /\ log' = Append(log, Frame(stack[1].kind, IF Numbers(stack[1]) THEN nextSeq ELSE 0,
                                         stack[1].n, stack[1].script))
    <3>1. Tops(1) /\ stack'[1] = app /\ thrown' = thrown
      BY <2>4, <1>1, <2>1, OneMore
    <3>. QED BY <1>3, <2>1, <2>4, <3>1 DEF Sanitized, Writes, Calm, document
  <2>. QED BY <1>3, <2>2, <2>3, <2>4 DEF Taken, Sanitized, Now, Numbers
<1>4. ASSUME Appended PROVE Drops
  <2>1. stack # <<>> /\ ~thrown /\ stack[1].do = "append" /\ Then(<<>>)
    BY <1>4 DEF Appended, Doing, Now
  <2>2. since' \in {since, 0, since + 1} /\ ripe' \in {ripe, TRUE}
    BY <1>4 DEF Appended
  <2>3. Tops(0) /\ thrown' = thrown
    BY <2>1, NoMore
  <2>. QED BY <1>4, <2>1, <2>2, <2>3 DEF Appended, Drops, Calm, document
<1>. QED BY <1>2, <1>3, <1>4

LEMMA StepsMade == \A do \in Dos : Step(do) \in Items /\ Step(do).do = do
BY ItemsMade DEF Step, Item

LEMMA TaskMoves == ASSUME TypeInv, ShapeInv
  PROVE /\ Macrotask => Drops \/ Turns
        /\ CheckpointBegins => Drops \/ Turns
        /\ Hashed => Drops \/ Turns
        /\ Digested => Digests
        /\ Checkpointed => Counts
<1>1. ASSUME Macrotask PROVE Drops \/ Turns
  <2>1. stack # <<>> /\ ~thrown /\ stack[1].do = "macrotask"
    BY <1>1 DEF Macrotask, Doing, Now
  <2>2. CASE ~Recording \/ loading = 4
    <3>1. Then(<<>>)
      BY <1>1, <2>2 DEF Macrotask, Loading
    <3>. QED BY <1>1, <2>1, <2>2, <3>1, NoMore DEF Macrotask, Drops, Calm, recorder, document
  <2>3. CASE Recording /\ loading # 4
    <3>1. loading < 4 /\ Then(<<Emit("Loading")>>)
      BY <1>1, <2>3 DEF Macrotask, Loading, TypeInv, TypeOK
    <3>2. Emit("Loading") \in Items
      BY ItemsMade DEF Kinds
    <3>3. Tops(1) /\ stack'[1] = Emit("Loading") /\ thrown' = thrown
      BY <2>1, <3>1, <3>2, OneMore
    <3>. QED BY <1>1, <2>1, <2>3, <3>1, <3>3 DEF Macrotask, Turns, Calm, Idle
  <2>. QED BY <2>2, <2>3
<1>2. ASSUME CheckpointBegins PROVE Drops \/ Turns
  <2>1. stack # <<>> /\ ~thrown /\ stack[1].do \in {"due", "final"}
    BY <1>2 DEF CheckpointBegins, Doing, Now
  <2>2. CASE Then(<<>>)
    BY <1>2, <2>1, <2>2, NoMore DEF CheckpointBegins, Drops, Calm, recorder, document
  <2>3. CASE Then(<<Step("hash")>>) /\ Recording /\ Allowed
    <3>1. Step("hash") \in Items
      BY StepsMade DEF Dos, Outside
    <3>2. Tops(1) /\ stack'[1] = Step("hash") /\ thrown' = thrown
      BY <2>1, <2>3, <3>1, OneMore
    <3>. QED BY <1>2, <2>1, <2>3, <3>2 DEF CheckpointBegins, Turns, Calm, Idle, Allowed
  <2>. QED BY <1>2, <2>2, <2>3 DEF CheckpointBegins
<1>3. ASSUME Hashed PROVE Drops \/ Turns
  <2>1. stack # <<>> /\ ~thrown /\ stack[1].do = "hash"
    BY <1>3 DEF Hashed, Doing, Now
  <2>2. CASE ~Recording
    <3>1. Then(<<>>)
      BY <1>3, <2>2 DEF Hashed
    <3>. QED BY <1>3, <2>1, <2>2, <3>1, NoMore DEF Hashed, Drops, Calm, recorder, document
  <2>3. CASE Recording
    <3>1. Step("digest") \in Items /\ Then(<<Step("digest")>>)
      BY <1>3, <2>3, StepsMade DEF Hashed, Dos, Outside
    <3>2. Tops(1) /\ stack'[1] = Step("digest") /\ thrown' = thrown
      BY <2>1, <3>1, OneMore
    <3>. QED BY <1>3, <2>1, <2>3, <3>2 DEF Hashed, Turns, Calm, Idle
  <2>. QED BY <2>2, <2>3
<1>4. ASSUME Digested PROVE Digests
  <2>1. stack # <<>> /\ ~thrown /\ stack[1].do = "digest" /\ ordinal \in Nat
    BY <1>4 DEF Digested, Doing, Now, TypeInv, TypeOK
  <2> DEFINE cp == Item("emit", "Checkpoint", ordinal, "none")
  <2>2. cp \in Items /\ Step("checkpointed") \in Items
    BY <2>1, ItemsMade DEF Dos, Records, Kinds, Names
  <2>3. Tops(2) /\ stack'[1] = cp /\ stack'[2] = Step("checkpointed") /\ thrown' = thrown
    BY <1>4, <2>1, <2>2, TwoMore DEF Digested
  <2>. QED BY <1>4, <2>1, <2>3 DEF Digested, Digests, Calm, Idle
<1>5. ASSUME Checkpointed PROVE Counts
  <2>1. stack # <<>> /\ ~thrown /\ stack[1].do = "checkpointed" /\ Then(<<>>)
    BY <1>5 DEF Checkpointed, Doing, Now
  <2>. QED BY <1>5, <2>1, NoMore DEF Checkpointed, Counts, Calm
<1>. QED BY <1>1, <1>2, <1>3, <1>4, <1>5

LEMMA EndMoves == ASSUME TypeInv, ShapeInv
  PROVE /\ EndBegins => Drops \/ Turns
        /\ EndSanitized => Drops \/ Closes \/ Falls
        /\ EndDelivered => Drops \/ EndFaults
        /\ Rethrow => Falls
<1>1. ASSUME EndBegins PROVE Drops \/ Turns
  <2>1. stack # <<>> /\ ~thrown /\ stack[1].do = "encodeEnd"
    BY <1>1 DEF EndBegins, Doing, Now
  <2>2. CASE ~Recording
    <3>1. Then(<<>>)
      BY <1>1, <2>2 DEF EndBegins
    <3>. QED BY <1>1, <2>1, <2>2, <3>1, NoMore DEF EndBegins, Drops, Calm, recorder, document
  <2>3. CASE Recording
    <3>1. Step("sanitizeEnd") \in Items /\ Then(<<Step("sanitizeEnd")>>)
      BY <1>1, <2>3, StepsMade DEF EndBegins, Dos, Outside
    <3>2. Tops(1) /\ stack'[1] = Step("sanitizeEnd") /\ thrown' = thrown
      BY <2>1, <3>1, OneMore
    <3>. QED BY <1>1, <2>1, <2>3, <3>2 DEF EndBegins, Turns, Calm, Idle
  <2>. QED BY <2>2, <2>3
<1>2. ASSUME EndSanitized PROVE Drops \/ Closes \/ Falls
  <2>1. stack # <<>> /\ ~thrown /\ stack[1].do = "sanitizeEnd"
    BY <1>2 DEF EndSanitized, Doing, Now
  <2>2. CASE ~Recording /\ Then(<<>>) /\ UNCHANGED <<state, log>>
    BY <1>2, <2>1, <2>2, NoMore DEF EndSanitized, Drops, Calm, document
  <2>3. CASE Throws /\ UNCHANGED <<state, log>>
    BY <1>2, <2>1, <2>3, NoMore DEF EndSanitized, Falls, Idle, document, recorder
  <2>4. CASE /\ Recording /\ state' = "ended" /\ Then(<<Step("sinkEnd")>>)
             /\ log' \in {log, Append(log, Frame("End", 0, nextSeq - 1, "none"))}
    <3>1. Step("sinkEnd") \in Items
      BY StepsMade DEF Dos, Outside
    <3>2. Tops(1) /\ stack'[1] = Step("sinkEnd") /\ thrown' = thrown
      BY <2>1, <2>4, <3>1, OneMore
    <3>. QED BY <1>2, <2>1, <2>4, <3>2 DEF EndSanitized, Closes, Calm, document
  <2>. QED BY <1>2, <2>2, <2>3, <2>4 DEF EndSanitized
<1>3. ASSUME EndDelivered PROVE Drops \/ EndFaults
  <2>1. stack # <<>> /\ ~thrown /\ stack[1].do = "sinkEnd"
    BY <1>3 DEF EndDelivered, Doing, Now
  <2>2. CASE Then(<<>>) /\ UNCHANGED state
    BY <1>3, <2>1, <2>2, NoMore DEF EndDelivered, Drops, Calm, document
  <2>3. CASE state' = "faulted" /\ Then(<<Step("haltSink"), Step("rethrow")>>)
    <3>1. Step("haltSink") \in Items /\ Step("rethrow") \in Items
      BY StepsMade DEF Dos
    <3>2. Tops(2) /\ stack'[1] = Step("haltSink") /\ stack'[2] = Step("rethrow") /\ thrown' = thrown
      BY <2>1, <2>3, <3>1, TwoMore
    <3>. QED BY <1>3, <2>1, <2>3, <3>2 DEF EndDelivered, EndFaults, Calm
  <2>. QED BY <1>3, <2>2, <2>3 DEF EndDelivered
<1>4. ASSUME Rethrow PROVE Falls
  <2>1. stack # <<>> /\ ~thrown /\ stack[1].do = "rethrow" /\ Throws
    BY <1>4 DEF Rethrow, Doing, Now
  <2>. QED BY <1>4, <2>1, NoMore DEF Rethrow, Falls, Idle
<1>. QED BY <1>1, <1>2, <1>3, <1>4

LEMMA FaultMoves == ASSUME TypeInv, ShapeInv
  PROVE /\ Guard => Drops \/ Guards \/ GuardFaults
        /\ Unwind => Falls
        /\ Described => Drops \/ Refuses
        /\ RefusalTaken => Drops
        /\ HaltSink => Halts
        /\ SinkHalted => Drops
<1>1. ASSUME Guard PROVE Drops \/ Guards \/ GuardFaults
  <2>1. stack # <<>> /\ stack[1].do = "guard" /\ ~thrown'
    BY <1>1 DEF Guard, Now
  <2>2. CASE thrown /\ ~inFault /\ Recording
    <3> DEFINE new == Faults
    <3>1. new \in Seq(Items) /\ Len(new) = 2 /\ new[1] = Step("describe") /\ new[2] = Step("haltSink")
      <4>1. Step("describe") \in Items /\ Step("haltSink") \in Items
        BY StepsMade DEF Dos, Outside
      <4>. QED BY <4>1, TwoItems DEF Faults
    <3>2. stack' = new \o Tail(stack)
      BY <1>1, <2>2 DEF Guard
    <3> HIDE DEF new
    <3>3. Tops(2) /\ stack'[1] = Step("describe") /\ stack'[2] = Step("haltSink")
      BY <2>1, <3>1, <3>2, Topped2
    <3>. QED BY <1>1, <2>1, <2>2, <3>3 DEF Guard, GuardFaults
  <2>3. CASE ~(thrown /\ ~inFault /\ Recording)
    <3>1. stack' = <<>> \o Tail(stack) /\ state' = state
      BY <1>1, <2>3 DEF Guard
    <3>2. inFault' = inFault
      BY <1>1, <2>3, Zenon DEF Guard, TypeInv, TypeOK
    <3>3. Tops(0)
      BY <2>1, <3>1, Tailed
    <3>. QED BY <1>1, <2>1, <2>3, <3>1, <3>2, <3>3 DEF Guard, Guards, Drops, Calm, Idle, recorder
  <2>. QED BY <2>2, <2>3
<1>2. ASSUME Unwind PROVE Falls
  <2>1. stack # <<>> /\ thrown /\ stack[1].do \notin Outside \cup {"guard"} /\ Throws
    BY <1>2 DEF Unwind, Now
  <2>. QED BY <1>2, <2>1, NoMore DEF Unwind, Falls, Idle, Outside
<1>3. ASSUME Described PROVE Drops \/ Refuses
  <2>1. stack # <<>> /\ ~thrown /\ stack[1].do = "describe"
    BY <1>3 DEF Described, Doing, Now
  <2>2. CASE log' = log /\ Then(<<>>)
    BY <1>3, <2>1, <2>2, NoMore DEF Described, Drops, Calm, recorder, document
  <2>3. CASE log' = Append(log, Frame("Fault", nextSeq, 0, "none")) /\ Then(<<Step("refuse")>>)
    <3>1. Step("refuse") \in Items
      BY StepsMade DEF Dos, Outside
    <3>2. Tops(1) /\ stack'[1] = Step("refuse") /\ thrown' = thrown
      BY <2>1, <2>3, <3>1, OneMore
    <3>. QED BY <1>3, <2>1, <2>3, <3>2 DEF Described, Refuses, Calm
  <2>. QED BY <1>3, <2>2, <2>3 DEF Described
<1>4. ASSUME RefusalTaken PROVE Drops
  <2>1. stack # <<>> /\ ~thrown /\ stack[1].do = "refuse" /\ Then(<<>>)
    BY <1>4 DEF RefusalTaken, Doing, Now
  <2>. QED BY <1>4, <2>1, NoMore DEF RefusalTaken, Drops, Calm, document
<1>5. ASSUME HaltSink PROVE Halts
  <2>1. stack # <<>> /\ ~thrown /\ stack[1].do = "haltSink" /\ Then(<<Step("halting")>>)
    BY <1>5 DEF HaltSink, Doing, Now
  <2>2. Step("halting") \in Items
    BY StepsMade DEF Dos, Outside
  <2>3. Tops(1) /\ stack'[1] = Step("halting") /\ thrown' = thrown
    BY <2>1, <2>2, OneMore
  <2>. QED BY <1>5, <2>1, <2>3 DEF HaltSink, Halts, Calm
<1>6. ASSUME SinkHalted PROVE Drops
  <2>1. stack # <<>> /\ ~thrown /\ stack[1].do = "halting" /\ Then(<<>>)
    BY <1>6 DEF SinkHalted, Doing, Now
  <2>. QED BY <1>6, <2>1, NoMore DEF SinkHalted, Drops, Calm, recorder, document
<1>. QED BY <1>1, <1>2, <1>3, <1>4, <1>5, <1>6

LEMMA OutsideMoves == ASSUME TypeInv, ShapeInv
  PROVE /\ CallBack => Rereads \/ Reends \/ Refaults \/ Rehalts
        /\ CallbackThrows => Falls
        /\ CallbackCatches => Catches
        /\ Mark => Marks
<1>1. ASSUME CallBack PROVE Rereads \/ Reends \/ Refaults \/ Rehalts
  <2>1. stack # <<>> /\ stack[1].do \in Outside /\ ~thrown /\ Recording /\ thrown' = thrown
        /\ UNCHANGED <<nextSeq, ordinal, since, ripe, document, log, halts>>
    BY <1>1 DEF CallBack, OutsideNow, Now
  <2>2. CASE Started /\ stack' = <<Emit("Read")>> \o stack /\ UNCHANGED <<state, inFault>>
    <3> DEFINE new == <<Emit("Read")>>
    <3>1. new \in Seq(Items) /\ Len(new) = 1 /\ new[1] = Emit("Read")
      BY ItemsMade, OneItem DEF Kinds
    <3>2. stack' = new \o stack
      BY <2>2
    <3> HIDE DEF new
    <3>3. Tops(2) /\ stack'[1] = Emit("Read") /\ stack'[2] = stack[1]
      BY <2>1, <3>1, <3>2, Pushed1
    <3>. QED BY <2>1, <2>2, <3>3 DEF Rereads, Called, Calm, Idle, recorder, Started
  <2>3. CASE /\ Started /\ \A i \in DOMAIN stack : stack[i].do # "append"
             /\ stack' = EndCall \o stack /\ UNCHANGED <<state, inFault>>
    <3> DEFINE new == EndCall
    <3>1. new \in Seq(Items) /\ Len(new) = 3 /\ new[1] = Step("final") /\ new[2] = Step("encodeEnd")
          /\ new[3] = Step("guard")
      <4>1. Step("final") \in Items /\ Step("encodeEnd") \in Items /\ Step("guard") \in Items
        BY StepsMade DEF Dos
      <4>. QED BY <4>1, ThreeItems DEF EndCall, Guarded
    <3>2. stack' = new \o stack
      BY <2>3
    <3> HIDE DEF new
    <3>3. Tops(4) /\ stack'[1] = Step("final") /\ stack'[2] = Step("encodeEnd")
          /\ stack'[3] = Step("guard") /\ stack'[4] = stack[1]
      BY <2>1, <3>1, <3>2, Pushed3
    <3>. QED BY <2>1, <2>3, <3>3 DEF Reends, Called, Calm, Idle, recorder, Started
  <2>4. CASE state' = "faulted" /\ inFault' = TRUE /\ stack' = Faults \o stack
    <3> DEFINE new == Faults
    <3>1. new \in Seq(Items) /\ Len(new) = 2 /\ new[1] = Step("describe") /\ new[2] = Step("haltSink")
      <4>1. Step("describe") \in Items /\ Step("haltSink") \in Items
        BY StepsMade DEF Dos, Outside
      <4>. QED BY <4>1, TwoItems DEF Faults
    <3>2. stack' = new \o stack
      BY <2>4
    <3> HIDE DEF new
    <3>3. Tops(3) /\ stack'[1] = Step("describe") /\ stack'[2] = Step("haltSink") /\ stack'[3] = stack[1]
      BY <2>1, <3>1, <3>2, Pushed2
    <3>. QED BY <2>1, <2>4, <3>3 DEF Refaults, Called, Calm
  <2>5. CASE state' = "ended" /\ UNCHANGED <<inFault, stack>>
    BY <2>1, <2>5 DEF Rehalts, Called, Calm
  <2>. QED BY <1>1, <2>2, <2>3, <2>4, <2>5 DEF CallBack
<1>2. ASSUME CallbackThrows PROVE Falls
  <2>1. /\ stack # <<>> /\ Throws
        /\ stack[1].do \in {"sanitize", "append", "hash", "digest", "sanitizeEnd"}
    BY <1>2 DEF CallbackThrows, OutsideNow, Now
  <2>. QED BY <1>2, <2>1, NoMore DEF CallbackThrows, Falls, Idle
<1>3. ASSUME CallbackCatches PROVE Catches
  BY <1>3 DEF CallbackCatches, Catches, OutsideNow, Now, Idle
<1>4. ASSUME Mark PROVE Marks
  <2>1. stack # <<>> /\ ~thrown /\ stack[1].do = "mark" /\ Then(<<>>)
    BY <1>4 DEF Mark, Doing, Now
  <2>. QED BY <1>4, <2>1, NoMore DEF Mark, Marks, Calm
<1>. QED BY <1>1, <1>2, <1>3, <1>4

LEMMA NextMoves == ASSUME TypeInv, ShapeInv, Next PROVE Move
BY EmitMoves, RecordMoves, TaskMoves, EndMoves, FaultMoves, OutsideMoves
   DEF Next, Returns, Runs, Outsiders, Move

(* The two flags stay Boolean: said apart, for no move restates it.        *)
LEMMA BooleansKept == ASSUME TypeInv, Next PROVE thrown' \in BOOLEAN /\ inFault' \in BOOLEAN
<1>1. thrown \in BOOLEAN /\ inFault \in BOOLEAN
  BY DEF TypeInv, TypeOK
<1>2. CASE Returns
  BY <1>1, <1>2 DEF Returns, Sanitized, Appended, Hashed, Digested, EndSanitized, EndDelivered,
     Described, RefusalTaken, SinkHalted, Then, Throws, recorder
<1>3. CASE Runs
  BY <1>1, <1>3 DEF Runs, EmitBegins, Encode, Macrotask, CheckpointBegins, Checkpointed, EndBegins,
     Rethrow, Guard, Unwind, HaltSink, Mark, Then, Throws, recorder
<1>4. CASE Outsiders
  BY <1>1, <1>4 DEF Outsiders, CallBack, CallbackThrows, CallbackCatches, Throws, recorder
<1>5. CASE Page
  BY <1>1, <1>5 DEF Page, PageReads, TaskBegins, ScriptRuns, ScriptSettles, Parsed, Dispatches, PageEnds,
     Halt, SeamThrows, Calling, recorder, calls
<1>. QED BY <1>2, <1>3, <1>4, <1>5 DEF Next

(* What the page's own calls begin with.                                   *)
LEMMA PageCalls == ASSUME TypeInv
  PROVE /\ Page => stack = <<>> /\ stack' \in Seq(Items)
        /\ PageReads => /\ Len(stack') = 2 /\ stack'[1] = Item("emit", "Read", 0, running)
                        /\ stack'[2] = Step("guard")
        /\ TaskBegins => /\ Len(stack') = 4 /\ stack'[1] = Step("macrotask")
                         /\ stack'[2] = Step("due") /\ stack'[3] = Emit("Task")
                         /\ stack'[4] = Step("guard")
        /\ ScriptSettles =>
             \/ stack' = <<>>
             \/ /\ Len(stack') = 2 /\ stack'[1] = Item("emit", "DocTask", 0, running)
                /\ stack'[2] = Step("guard") /\ loading = 4
             \/ /\ Len(stack') = 3 /\ stack'[1] = Emit("Loading")
                /\ stack'[2] = Item("emit", "DocTask", 0, running) /\ stack'[3] = Step("guard")
        /\ Dispatches =>
             \/ Len(stack') = 1 /\ stack'[1] = Step("mark") /\ ~Recording
             \/ /\ Len(stack') = 4 /\ stack'[1] = Emit("Loading")
                /\ stack'[2] = Item("emit", "DocTask", 0, "none") /\ stack'[3] = Step("guard")
                /\ stack'[4] = Step("mark")
        /\ PageEnds => /\ Len(stack') = 3 /\ stack'[1] = Step("final")
                       /\ stack'[2] = Step("encodeEnd") /\ stack'[3] = Step("guard")
        /\ SeamThrows => Len(stack') = 1 /\ stack'[1] = Step("guard")
<1>1. (Page => stack = <<>>) /\ running \in Names /\ loading \in 1..4
  BY DEF Page, PageReads, TaskBegins, ScriptRuns, ScriptSettles, Parsed, Dispatches, PageEnds,
         Halt, SeamThrows, Quiet, TypeInv, TypeOK, Names
<1>2. /\ Step("guard") \in Items /\ Step("mark") \in Items /\ Step("macrotask") \in Items
      /\ Step("due") \in Items /\ Step("final") \in Items /\ Step("encodeEnd") \in Items
  BY StepsMade DEF Dos
<1>3. /\ Item("emit", "Read", 0, running) \in Items /\ Emit("Task") \in Items /\ Emit("Loading") \in Items
      /\ Item("emit", "DocTask", 0, running) \in Items /\ Item("emit", "DocTask", 0, "none") \in Items
  BY <1>1, ItemsMade DEF Dos, Records, Kinds, Names
<1>4. ASSUME PageReads
      PROVE /\ stack' \in Seq(Items) /\ Len(stack') = 2
            /\ stack'[1] = Item("emit", "Read", 0, running) /\ stack'[2] = Step("guard")
  BY <1>2, <1>3, <1>4, TwoItems DEF PageReads, Calling, Guarded
<1>5. ASSUME TaskBegins
      PROVE /\ stack' \in Seq(Items) /\ Len(stack') = 4 /\ stack'[1] = Step("macrotask")
            /\ stack'[2] = Step("due") /\ stack'[3] = Emit("Task") /\ stack'[4] = Step("guard")
  BY <1>2, <1>3, <1>5, FourItems DEF TaskBegins, Calling, TaskCall, Guarded
<1>6. ASSUME ScriptSettles
      PROVE /\ stack' \in Seq(Items)
            /\ \/ stack' = <<>>
               \/ /\ Len(stack') = 2 /\ stack'[1] = Item("emit", "DocTask", 0, running)
                  /\ stack'[2] = Step("guard") /\ loading = 4
               \/ /\ Len(stack') = 3 /\ stack'[1] = Emit("Loading")
                  /\ stack'[2] = Item("emit", "DocTask", 0, running) /\ stack'[3] = Step("guard")
  <2>1. stack' = <<>> \/ stack' = Guarded(Announce(running))
    BY <1>6 DEF ScriptSettles, Calling
  <2>2. CASE stack' = <<>>
    BY <2>2
  <2>3. CASE stack' = Guarded(Announce(running)) /\ loading = 4
    <3>1. stack' = Append(Append(<<>>, Item("emit", "DocTask", 0, running)), Step("guard"))
      BY <2>3 DEF Guarded, Announce, Loading
    <3>2. Append(<<>>, Item("emit", "DocTask", 0, running)) = <<Item("emit", "DocTask", 0, running)>>
      OBVIOUS
    <3>. QED BY <1>2, <1>3, <2>3, <3>1, <3>2, TwoItems
  <2>4. CASE stack' = Guarded(Announce(running)) /\ loading < 4
    <3>1. stack' = Append(Append(<<Emit("Loading")>>, Item("emit", "DocTask", 0, running)), Step("guard"))
      BY <2>4 DEF Guarded, Announce, Loading
    <3>. QED BY <1>2, <1>3, <3>1, ThreeItems
  <2>. QED BY <1>1, <2>1, <2>2, <2>3, <2>4
<1>7. ASSUME Dispatches
      PROVE /\ stack' \in Seq(Items)
            /\ \/ Len(stack') = 1 /\ stack'[1] = Step("mark") /\ ~Recording
               \/ /\ Len(stack') = 4 /\ stack'[1] = Emit("Loading")
                  /\ stack'[2] = Item("emit", "DocTask", 0, "none") /\ stack'[3] = Step("guard")
                  /\ stack'[4] = Step("mark")
  <2>1. CASE Recording
    <3>1. stack' = Append(Append(<<Emit("Loading")>>, Item("emit", "DocTask", 0, "none")), Step("guard"))
                   \o <<Step("mark")>>
      BY <1>1, <1>7, <2>1 DEF Dispatches, Calling, Guarded, Announce, Loading
    <3>. QED BY <1>2, <1>3, <3>1, FourItems
  <2>2. CASE ~Recording
    <3>1. stack' = <<>> \o <<Step("mark")>>
      BY <1>7, <2>2 DEF Dispatches, Calling
    <3>. QED BY <1>2, <2>2, <3>1, OneItem
  <2>. QED BY <2>1, <2>2
<1>8. ASSUME PageEnds
      PROVE /\ stack' \in Seq(Items) /\ Len(stack') = 3 /\ stack'[1] = Step("final")
            /\ stack'[2] = Step("encodeEnd") /\ stack'[3] = Step("guard")
  BY <1>2, <1>8, ThreeItems DEF PageEnds, Calling, EndCall, Guarded
<1>9. ASSUME SeamThrows PROVE stack' \in Seq(Items) /\ Len(stack') = 1 /\ stack'[1] = Step("guard")
  BY <1>2, <1>9, OneItem DEF SeamThrows
<1>10. (\E s \in Scripts : ScriptRuns(s)) \/ Parsed \/ Halt => stack' \in Seq(Items)
  BY DEF ScriptRuns, Parsed, Halt, calls, TypeInv
<1>11. Page => stack' \in Seq(Items)
  BY <1>4, <1>5, <1>6, <1>7, <1>8, <1>9, <1>10 DEF Page
<1>. QED BY <1>1, <1>4, <1>5, <1>6, <1>7, <1>8, <1>9, <1>11

-----------------------------------------------------------------------------
(* Types.                                                                  *)
LEMMA Below == ASSUME TypeInv, NEW m \in 0..4, Tops(m), NEW i \in DOMAIN stack', i > m
  PROVE i - m + 1 \in DOMAIN stack /\ i - m + 1 > 1 /\ stack'[i] = stack[i - m + 1]
BY SMTT(60) DEF TypeInv, Tops

LEMMA Above == ASSUME TypeInv, NEW m \in 0..4, Tops(m), NEW j \in DOMAIN stack, j > 1
  PROVE j + m - 1 \in DOMAIN stack' /\ j + m - 1 > m /\ stack'[j + m - 1] = stack[j]
<1>1. Len(stack) \in Nat /\ j \in Nat /\ j <= Len(stack)
  BY DEF TypeInv
<1>2. Len(stack') = Len(stack) + m - 1 /\ DOMAIN stack' = 1..Len(stack')
  BY DEF Tops
<1>3. j + m - 1 \in m + 1..Len(stack') /\ (j + m - 1) - m + 1 = j
  BY <1>1, <1>2, SMTT(60)
<1>. QED BY <1>2, <1>3, SMTT(60) DEF Tops

(* The item the recorder is about to do, and the one below.                *)
LEMMA FirstItem == ASSUME TypeInv, ShapeInv, stack # <<>>
  PROVE /\ Len(stack) \in Nat /\ Len(stack) >= 1 /\ DOMAIN stack = 1..Len(stack) /\ 1 \in DOMAIN stack
        /\ stack[1] \in Items /\ (stack[1].kind = "none" <=> stack[1].do \notin Records)
        /\ IF Len(stack) = 1 THEN Last(stack[1]) ELSE Len(stack) >= 2 /\ Follows(stack[1], stack[2])
<1>1. Len(stack) \in Nat /\ Len(stack) >= 1 /\ DOMAIN stack = 1..Len(stack) /\ stack[1] \in Items
  BY DEF TypeInv
<1>2. CASE Len(stack) = 1
  BY <1>1, <1>2 DEF ShapeInv, Shape
<1>3. CASE Len(stack) > 1
  BY <1>1, <1>3 DEF ShapeInv, Shape
<1>. QED BY <1>1, <1>2, <1>3, OneOrMore

LEMMA FramesMade == ASSUME TypeInv, NEW kind \in Kinds \cup {"End", "Fault"}, NEW seq \in Nat,
    NEW n \in Nat, NEW script \in Names
  PROVE Frame(kind, seq, n, script) \in Frames
BY DEF TypeInv, TypeOK, Frame, Frames

(* The fields of what the recorder pushes.                                 *)
LEMMA Fields ==
  /\ \A do : Step(do).do = do /\ Step(do).kind = "none" /\ Step(do).n = 0 /\ Step(do).script = "none"
  /\ \A kind : /\ Emit(kind).do = "emit" /\ Emit(kind).kind = kind /\ Emit(kind).n = 0
                /\ Emit(kind).script = "none"
  /\ \A do, kind, n, script : LET x == Item(do, kind, n, script)
       IN x.do = do /\ x.kind = kind /\ x.n = n /\ x.script = script
BY DEF Step, Emit, Item

LEMMA FirstInto == ASSUME NEW x \in Items
  PROVE /\ Into(x, "encode").do = "encode" /\ Into(x, "encode").kind = x.kind
        /\ Into(x, "encode").n = x.n /\ Into(x, "encode").script = x.script
        /\ Into(x, "sanitize").do = "sanitize" /\ Into(x, "sanitize").kind = x.kind
        /\ Into(x, "sanitize").n = x.n /\ Into(x, "sanitize").script = x.script
        /\ \A q : /\ Taken(x, q).do = "append" /\ Taken(x, q).kind = x.kind
                  /\ Taken(x, q).n = q /\ Taken(x, q).script = x.script
BY DEF Items, Into, Taken

(* Every move keeps the types.                                             *)
LEMMA StackKept == ASSUME TypeInv, Move PROVE stack' \in Seq(Items)
BY PageCalls DEF TypeInv, Move, Drops, Counts, Falls, Catches, Guards, GuardFaults, FirstOf, Turns,
   Writes, Digests, Closes, EndFaults, Refuses, Halts, Rereads, Reends, Refaults, Rehalts, Marks, Tops

(* No move but the page's own puts a mark on the stack.                    *)
LEMMA Marked == ASSUME TypeInv, Move, ~Page, NEW i \in DOMAIN stack', stack'[i].do = "mark"
  PROVE \E j \in DOMAIN stack : stack[j].do = "mark"
<1>1. ASSUME NEW m \in 0..4, Tops(m), i > m PROVE \E j \in DOMAIN stack : stack[j].do = "mark"
  BY <1>1, Below
<1>2. i \in Nat /\ i >= 1
  BY StackKept
<1>a. stack # <<>> => stack[1] \in Items
  BY DEF TypeInv
<1>3. CASE stack' = stack
  BY <1>3
<1>5. CASE Drops \/ Counts \/ Falls \/ Guards \/ Marks
  <2>1. Tops(0)
    BY <1>5 DEF Drops, Counts, Falls, Guards, Marks
  <2>. QED BY <2>1, <1>1, <1>2
<1>6. CASE Turns \/ Writes \/ Closes \/ Refuses \/ Halts
  <2>1. Tops(1) /\ stack'[1].do # "mark"
    <3>1. CASE Turns
      <4>1. /\ Into(stack[1], "encode").do = "encode"
            /\ Into(stack[1], "sanitize").do = "sanitize"
        BY <3>1, <1>a, FirstInto DEF Turns, Tops
      <4>. QED BY <3>1, <4>1, Fields DEF Turns
    <3>2. CASE Writes
      <4>1. stack'[1] = Taken(stack[1], IF Numbers(stack[1]) THEN nextSeq ELSE 0) /\ stack # <<>>
        BY <3>2 DEF Writes, Tops
      <4>. QED BY <3>2, <4>1, <1>a, FirstInto DEF Writes
    <3>3. CASE Closes \/ Refuses \/ Halts
      BY <3>3 DEF Closes, Refuses, Halts, Step, Item
    <3>. QED BY <1>6, <3>1, <3>2, <3>3
  <2>. QED BY <2>1, <1>1, <1>2
<1>7. CASE GuardFaults \/ Digests \/ EndFaults \/ Rereads
  <2>1. Tops(2) /\ stack'[1].do # "mark" /\ stack'[2].do # "mark"
    BY <1>7 DEF GuardFaults, Digests, EndFaults, Rereads, Called, Outside, Step, Emit, Item
  <2>. QED BY <2>1, <1>1, <1>2
<1>8. CASE Refaults
  <2>1. Tops(3) /\ stack'[1].do # "mark" /\ stack'[2].do # "mark" /\ stack'[3].do # "mark"
    BY <1>8 DEF Refaults, Called, Outside, Step, Emit, Item
  <2>. QED BY <2>1, <1>1, <1>2
<1>9. CASE Reends
  <2>1. Tops(4) /\ stack'[1].do # "mark" /\ stack'[2].do # "mark" /\ stack'[3].do # "mark"
        /\ stack'[4].do # "mark"
    BY <1>9 DEF Reends, Called, Outside, Step, Emit, Item
  <2>. QED BY <2>1, <1>1, <1>2
<1>10. CASE FirstOf
  <2>2. Into(stack[1], "encode").do # "mark" /\ Emit("Loading").do # "mark"
        /\ Item("emit", "DocTask", 0, running).do # "mark"
    BY <1>10, <1>a, FirstInto DEF FirstOf, Emit, Item
  <2>3. CASE Tops(2) /\ stack'[1].do # "mark" /\ stack'[2].do # "mark"
    BY <2>3, <1>1, <1>2
  <2>4. CASE Tops(3) /\ stack'[1].do # "mark" /\ stack'[2].do # "mark" /\ stack'[3].do # "mark"
    BY <2>4, <1>1, <1>2
  <2>. QED BY <1>10, <2>2, <2>3, <2>4 DEF FirstOf
<1>. QED BY <1>3, <1>5, <1>6, <1>7, <1>8, <1>9, <1>10 DEF Move, Catches, Rehalts

LEMMA MarkLast == ASSUME TypeInv, ShapeInv, Marks PROVE Len(stack) = 1 /\ DOMAIN stack' = {}
<1>1. Len(stack) \in Nat /\ Len(stack) >= 1
  BY DEF Marks, Tops, TypeInv
<1>2. CASE Len(stack) > 1
  BY <1>1, <1>2 DEF Marks, ShapeInv, Shape, Follows
<1>3. Len(stack) = 1
  BY <1>1, <1>2, OneOrMore
<1>. QED BY <1>3 DEF Marks, Tops

LEMMA TypeKept == ASSUME TypeInv, ShapeInv, Move, thrown' \in BOOLEAN, inFault' \in BOOLEAN
  PROVE TypeInv'
<1>1. stack' \in Seq(Items)
  BY StackKept
<1>2. log' \in Seq(Frames)
  <2>1. CASE Writes
    <3>1. stack[1] \in Items /\ nextSeq \in Nat
      BY <2>1 DEF Writes, Tops, TypeInv, TypeOK
    <3>2. \A q \in Nat : Frame(stack[1].kind, q, stack[1].n, stack[1].script) \in Frames
      BY <3>1, FramesMade DEF Items
    <3>. QED BY <2>1, <3>1, <3>2 DEF Writes, TypeInv
  <2>2. CASE Closes
    <3>1. Frame("End", 0, nextSeq - 1, "none") \in Frames
      <4>1. nextSeq - 1 \in Nat
        BY DEF TypeInv, TypeOK
      <4>. QED BY <4>1, FramesMade DEF Names
    <3>2. log \in Seq(Frames) /\ (log' = log \/ log' = Append(log, Frame("End", 0, nextSeq - 1, "none")))
      BY <2>2 DEF Closes, TypeInv
    <3>. QED BY <3>1, <3>2
  <2>3. CASE Refuses
    <3>1. Frame("Fault", nextSeq, 0, "none") \in Frames
      BY FramesMade DEF Names, TypeInv, TypeOK
    <3>. QED BY <2>3, <3>1 DEF Refuses, TypeInv
  <2>4. CASE log' = log
    BY <2>4 DEF TypeInv
  <2>5. Writes \/ Closes \/ Refuses \/ log' = log
    BY DEF Move, Drops, Counts, Falls, Catches, Guards, GuardFaults, FirstOf, Turns,
       Digests, EndFaults, Halts, Rereads, Reends, Refaults, Rehalts, Marks, Idle,
       Page, PageReads, TaskBegins, ScriptRuns, ScriptSettles, Parsed, Dispatches, PageEnds, Halt, SeamThrows
  <2>. QED BY <2>1, <2>2, <2>3, <2>4, <2>5
<1>3. CASE Page
  <2>1. TypeOK'
    <3>1. CASE PageReads \/ TaskBegins \/ Dispatches \/ PageEnds \/ SeamThrows
      BY <3>1 DEF PageReads, TaskBegins, Dispatches, PageEnds, SeamThrows, TypeInv, TypeOK, Calling,
                  recorder, document
    <3>2. CASE (\E s \in Scripts : ScriptRuns(s)) \/ Parsed \/ Halt
      BY <3>2 DEF ScriptRuns, Parsed, Halt, TypeInv, TypeOK, recorder, document, calls
    <3>3. CASE ScriptSettles
      BY <3>3 DEF ScriptSettles, TypeInv, TypeOK, Calling, recorder
    <3>. QED BY <1>3, <3>1, <3>2, <3>3 DEF Page
  <2>2. ASSUME NEW i \in DOMAIN stack', stack'[i].do = "mark" PROVE loading' \in {2, 3}
    <3>1. Dispatches
      <4>1. stack = <<>> /\ i \in 1..Len(stack')
        BY <1>1, <1>3, PageCalls
      <4>2. CASE ScriptSettles
        BY <4>1, <4>2, PageCalls, <2>2, Fields
      <4>3. CASE PageReads \/ SeamThrows
        BY <4>1, <4>3, PageCalls, <2>2, Fields
      <4>6. CASE PageEnds
        BY <4>1, <4>6, PageCalls, <2>2, Fields
      <4>5. CASE TaskBegins
        BY <4>1, <4>5, PageCalls, <2>2, Fields
      <4>4. CASE (\E s \in Scripts : ScriptRuns(s)) \/ Parsed \/ Halt
        BY <4>1, <4>4, <2>2 DEF ScriptRuns, Parsed, Halt, calls
      <4>. QED BY <1>3, <4>2, <4>3, <4>4, <4>5, <4>6 DEF Page
    <3>. QED BY <3>1 DEF Dispatches, document
  <2>. QED BY <1>1, <1>2, <2>1, <2>2 DEF TypeInv
<1>4. CASE Marks
  <2>1. Len(stack) = 1 /\ DOMAIN stack' = {}
    BY <1>4, MarkLast
  <2>3. loading \in {2, 3}
    BY <2>1, <1>4 DEF Marks, TypeInv
  <2>4. TypeOK'
    BY <1>4, <2>3 DEF Marks, TypeInv, TypeOK, recorder, Calm
  <2>. QED BY <1>1, <1>2, <2>1, <2>4 DEF TypeInv
<1>5. CASE ~Page /\ ~Marks
  <2> SUFFICES TypeOK' /\ loading' = loading
    BY <1>1, <1>2, <1>5, Marked DEF TypeInv
  <2>1. CASE Counts \/ Falls \/ Catches \/ Guards
    BY <2>1, SMTT(60) DEF Counts, Falls, Catches, Guards, TypeInv, TypeOK, Calm, Idle, recorder, document
  <2>6. CASE Drops
    <3>1. ripe' \in BOOLEAN
      BY <2>6, Zenon DEF Drops, TypeInv, TypeOK
    <3>2. since' \in Nat /\ nextSeq' \in Nat \ {0}
      BY <2>6 DEF Drops, TypeInv, TypeOK
    <3>3. UNCHANGED <<state, inFault, ordinal, document, log, halts>>
      BY <2>6 DEF Drops
    <3>. QED BY <3>1, <3>2, <3>3 DEF TypeInv, TypeOK, document
  <2>2. CASE GuardFaults \/ FirstOf
    BY <2>2 DEF GuardFaults, FirstOf, TypeInv, TypeOK, Calm, recorder, document
  <2>3. CASE Turns \/ Writes \/ Digests
    <3>1. CASE Turns
      BY <3>1 DEF Turns, TypeInv, TypeOK, Calm, Idle, recorder, document
    <3>2. CASE Writes
      BY <3>2 DEF Writes, TypeInv, TypeOK, Calm, Idle, recorder, document
    <3>3. CASE Digests
      BY <3>3 DEF Digests, TypeInv, TypeOK, Calm, Idle, recorder, document
    <3>. QED BY <2>3, <3>1, <3>2, <3>3
  <2>4. CASE Closes \/ EndFaults \/ Refuses \/ Halts
    BY <2>4 DEF Closes, EndFaults, Refuses, Halts, TypeInv, TypeOK, Calm, recorder, document
  <2>5. CASE Rereads \/ Reends \/ Refaults \/ Rehalts
    BY <2>5 DEF Rereads, Reends, Refaults, Rehalts, Called, TypeInv, TypeOK, Calm, Idle, recorder, document
  <2>. QED BY <1>5, <2>1, <2>2, <2>3, <2>4, <2>5, <2>6 DEF Move
<1>. QED BY <1>3, <1>4, <1>5

-----------------------------------------------------------------------------
(* The inductive invariant.                                                *)
Announces == /\ ToldAnnounced /\ ToldOnce /\ LoggedOnce /\ AnnouncedTold /\ SettledAnnounced
             /\ RunningKnown /\ FirstGuarded /\ ReadsTold /\ LogTold
Locates == PendingLocated /\ OnePending /\ TasksLocated
Numbering == Sequenced /\ Counted /\ Ordered
Inv == /\ TypeInv /\ ShapeInv /\ Bottom /\ Appending /\ Throwing /\ Faulting /\ Locates /\ Announces
       /\ Parsing /\ Numbering /\ Opening

(* Only a callback that still records is called back.                      *)
LEMMA CalledBack == ASSUME TypeInv, ShapeInv, Faulting, Called PROVE stack[1].do \in Callable
<1>1. 1 \in DOMAIN stack
  BY FirstItem DEF Called
<1>. QED BY <1>1 DEF Called, Faulting, Recording, Outside, Callable

(* Each item is followed by what its call leaves to do.                    *)
LEMMA ShapeKept == ASSUME TypeInv, TypeInv', ShapeInv, Faulting, Move PROVE ShapeInv'
<1>1. CASE Drops \/ Counts \/ Falls \/ Guards \/ Marks
  <2>1. Tops(0)
    BY <1>1 DEF Drops, Counts, Falls, Guards, Marks
  <2>. QED BY <2>1, ShapeTops
<1>2. CASE Turns
  <2>1. Tops(1) /\ stack # <<>>
    BY <1>2 DEF Turns, Tops
  <2>2. (stack'[1].kind = "none") <=> (stack'[1].do \notin Records)
    <3>1. CASE stack[1].do \in {"emit", "encode"}
      BY <1>2, <2>1, <3>1, FirstItem, FirstInto DEF Turns, Records
    <3>2. CASE stack[1].do \in {"macrotask", "due", "final", "hash", "encodeEnd"}
      BY <1>2, <2>1, <3>2, FirstItem, Fields DEF Turns, Records
    <3>. QED BY <1>2, <3>1, <3>2 DEF Turns
  <2>3. IF Len(stack) = 1 THEN Last(stack'[1]) ELSE Follows(stack'[1], stack[2])
    <3>1. CASE stack[1].do \in {"emit", "encode"}
      <4>1. /\ stack'[1].kind = stack[1].kind /\ stack'[1].script = stack[1].script
            /\ stack'[1].do \in {"encode", "sanitize"} /\ stack[1].kind # "none"
        BY <1>2, <2>1, <3>1, FirstItem, FirstInto DEF Turns, Records
      <4>. QED BY <2>1, <3>1, <4>1, FirstItem DEF Follows, Last
    <3>2. CASE stack[1].do \in {"macrotask", "due", "final", "hash", "encodeEnd"}
      BY <1>2, <2>1, <3>2, FirstItem, Fields DEF Turns, Follows, Last
    <3>. QED BY <1>2, <3>1, <3>2 DEF Turns
  <2>. QED BY <2>1, <2>2, <2>3, ShapeTops
<1>3. CASE Writes
  <2>1. Tops(1) /\ stack # <<>>
    BY <1>3 DEF Writes, Tops
  <2>2. (stack'[1].kind = "none") <=> (stack'[1].do \notin Records)
    BY <1>3, <2>1, FirstItem, FirstInto DEF Writes, Records
  <2>3. IF Len(stack) = 1 THEN Last(stack'[1]) ELSE Follows(stack'[1], stack[2])
    <3>1. /\ stack'[1].kind = stack[1].kind /\ stack'[1].script = stack[1].script
          /\ stack'[1].do = "append" /\ stack[1].do = "sanitize"
      BY <1>3, <2>1, FirstItem, FirstInto DEF Writes
    <3>. QED BY <2>1, <3>1, FirstItem DEF Follows, Last
  <2>. QED BY <2>1, <2>2, <2>3, ShapeTops
<1>4. CASE Closes \/ Refuses \/ Halts
  <2>1. Tops(1) /\ stack # <<>>
    BY <1>4 DEF Closes, Refuses, Halts, Tops
  <2>2. (stack'[1].kind = "none") <=> (stack'[1].do \notin Records)
    BY <1>4, Fields DEF Closes, Refuses, Halts, Records
  <2>3. IF Len(stack) = 1 THEN Last(stack'[1]) ELSE Follows(stack'[1], stack[2])
    BY <1>4, <2>1, FirstItem, Fields DEF Closes, Refuses, Halts, Follows, Last
  <2>. QED BY <2>1, <2>2, <2>3, ShapeTops
<1>5. CASE GuardFaults \/ Digests \/ EndFaults \/ Rereads
  <2>1. Tops(2) /\ stack # <<>>
    BY <1>5 DEF GuardFaults, Digests, EndFaults, Rereads, Tops
  <2>2. \A i \in 1..2 : (stack'[i].kind = "none") <=> (stack'[i].do \notin Records)
    BY <1>5, <2>1, FirstItem, Fields DEF GuardFaults, Digests, EndFaults, Rereads, Records
  <2>3. Follows(stack'[1], stack'[2])
    <3>1. CASE GuardFaults \/ Digests \/ EndFaults
      BY <3>1, Fields DEF GuardFaults, Digests, EndFaults, Follows
    <3>2. CASE Rereads
      BY <3>2, CalledBack, Fields DEF Rereads, Follows, Callable
    <3>. QED BY <1>5, <3>1, <3>2
  <2>4. IF Len(stack) = 1 THEN Last(stack'[2]) ELSE Follows(stack'[2], stack[2])
    <3>1. CASE GuardFaults \/ Digests \/ EndFaults
      BY <2>1, <3>1, FirstItem, Fields DEF GuardFaults, Digests, EndFaults, Follows, Last, Callable
    <3>2. CASE Rereads
      BY <2>1, <3>2, FirstItem DEF Rereads
    <3>. QED BY <1>5, <3>1, <3>2
  <2>. QED BY <2>1, <2>2, <2>3, <2>4, ShapeTops
<1>6. CASE Refaults
  <2>1. Tops(3) /\ stack # <<>>
    BY <1>6 DEF Refaults, Tops
  <2>2. \A i \in 1..3 : (stack'[i].kind = "none") <=> (stack'[i].do \notin Records)
    BY <1>6, <2>1, FirstItem, Fields DEF Refaults, Records
  <2>3. Follows(stack'[1], stack'[2]) /\ Follows(stack'[2], stack'[3])
    BY <1>6, CalledBack, Fields DEF Refaults, Follows
  <2>4. IF Len(stack) = 1 THEN Last(stack'[3]) ELSE Follows(stack'[3], stack[2])
    BY <2>1, <1>6, FirstItem DEF Refaults
  <2>. QED BY <2>1, <2>2, <2>3, <2>4, ShapeTops
<1>7. CASE Reends
  <2>1. Tops(4) /\ stack # <<>>
    BY <1>7 DEF Reends, Tops
  <2>2. \A i \in 1..4 : (stack'[i].kind = "none") <=> (stack'[i].do \notin Records)
    BY <1>7, <2>1, FirstItem, Fields DEF Reends, Records
  <2>3. Follows(stack'[1], stack'[2]) /\ Follows(stack'[2], stack'[3]) /\ Follows(stack'[3], stack'[4])
    BY <1>7, CalledBack, Fields DEF Reends, Follows
  <2>4. IF Len(stack) = 1 THEN Last(stack'[4]) ELSE Follows(stack'[4], stack[2])
    BY <2>1, <1>7, FirstItem DEF Reends
  <2>. QED BY <2>1, <2>2, <2>3, <2>4, ShapeTops
<1>8. CASE FirstOf
  <2>1. stack # <<>>
    BY <1>8 DEF FirstOf
  <2> DEFINE tell == Item("emit", "DocTask", 0, running)
             enc == Into(stack[1], "encode")
  <2>2. /\ tell.kind = "DocTask" /\ tell.do = "emit"
        /\ enc.do = "encode" /\ enc.kind = stack[1].kind /\ enc.script = stack[1].script
        /\ Emit("Loading").kind = "Loading" /\ Emit("Loading").do = "emit"
    BY <2>1, FirstItem, Fields, FirstInto
  <2> HIDE DEF tell, enc
  <2>3. Follows(tell, enc) /\ Follows(Emit("Loading"), tell)
    BY <1>8, <2>2 DEF FirstOf, Own, Follows
  <2>4. IF Len(stack) = 1 THEN Last(enc) ELSE Follows(enc, stack[2])
    BY <1>8, <2>1, <2>2, FirstItem DEF FirstOf, Own, Follows, Last
  <2>5. CASE Tops(2) /\ stack'[1] = tell /\ stack'[2] = enc
    <3>1. \A i \in 1..2 : (stack'[i].kind = "none") <=> (stack'[i].do \notin Records)
      BY <1>8, <2>5, <2>2 DEF FirstOf, Own, Records
    <3>. QED BY <2>3, <2>4, <2>5, <3>1, ShapeTops
  <2>6. CASE Tops(3) /\ stack'[1] = Emit("Loading") /\ stack'[2] = tell /\ stack'[3] = enc
    <3>1. \A i \in 1..3 : (stack'[i].kind = "none") <=> (stack'[i].do \notin Records)
      BY <1>8, <2>6, <2>2 DEF FirstOf, Own, Records
    <3>. QED BY <2>3, <2>4, <2>6, <3>1, ShapeTops
  <2>. QED BY <1>8, <2>5, <2>6 DEF FirstOf, tell, enc
<1>9. CASE Catches \/ Rehalts
  BY <1>9 DEF Catches, Rehalts, ShapeInv
<1>10. CASE Page
  <2>1. stack' \in Seq(Items) /\ DOMAIN stack' = 1..Len(stack') /\ stack = <<>>
    BY <1>10, PageCalls DEF TypeInv
  <2>2. CASE PageReads
    <3>1. Len(stack') = 2 /\ stack'[1] = Item("emit", "Read", 0, running) /\ stack'[2] = Step("guard")
      BY <2>2, PageCalls
    <3>. QED BY <2>1, <3>1, Fields DEF ShapeInv, Shape, Follows, Last, Records
  <2>3. CASE TaskBegins
    <3>1. /\ Len(stack') = 4 /\ stack'[1] = Step("macrotask") /\ stack'[2] = Step("due")
          /\ stack'[3] = Emit("Task") /\ stack'[4] = Step("guard")
      BY <2>3, PageCalls
    <3>. QED BY <2>1, <3>1, Fields DEF ShapeInv, Shape, Follows, Last, Records
  <2>4. CASE ScriptSettles
    <3>1. CASE stack' = <<>>
      BY <3>1 DEF ShapeInv, Shape
    <3>2. CASE Len(stack') = 2 /\ stack'[1] = Item("emit", "DocTask", 0, running) /\ stack'[2] = Step("guard")
      BY <2>1, <3>2, Fields DEF ShapeInv, Shape, Follows, Last, Records
    <3>3. CASE /\ Len(stack') = 3 /\ stack'[1] = Emit("Loading")
               /\ stack'[2] = Item("emit", "DocTask", 0, running) /\ stack'[3] = Step("guard")
      BY <2>1, <3>3, Fields DEF ShapeInv, Shape, Follows, Last, Records
    <3>. QED BY <2>4, <3>1, <3>2, <3>3, PageCalls
  <2>5. CASE Dispatches
    <3>1. CASE Len(stack') = 1 /\ stack'[1] = Step("mark")
      BY <2>1, <3>1, Fields DEF ShapeInv, Shape, Follows, Last, Records
    <3>2. CASE /\ Len(stack') = 4 /\ stack'[1] = Emit("Loading")
               /\ stack'[2] = Item("emit", "DocTask", 0, "none") /\ stack'[3] = Step("guard")
               /\ stack'[4] = Step("mark")
      BY <2>1, <3>2, Fields DEF ShapeInv, Shape, Follows, Last, Records
    <3>. QED BY <2>5, <3>1, <3>2, PageCalls
  <2>6. CASE PageEnds
    <3>1. /\ Len(stack') = 3 /\ stack'[1] = Step("final") /\ stack'[2] = Step("encodeEnd")
          /\ stack'[3] = Step("guard")
      BY <2>6, PageCalls
    <3>. QED BY <2>1, <3>1, Fields DEF ShapeInv, Shape, Follows, Last, Records
  <2>7. CASE SeamThrows
    BY <2>1, <2>7, PageCalls, Fields DEF ShapeInv, Shape, Follows, Last, Records
  <2>8. CASE (\E s \in Scripts : ScriptRuns(s)) \/ Parsed \/ Halt
    BY <2>8 DEF ScriptRuns, Parsed, Halt, calls, ShapeInv
  <2>. QED BY <1>10, <2>2, <2>3, <2>4, <2>5, <2>6, <2>7, <2>8 DEF Page
<1>. QED BY <1>1, <1>2, <1>3, <1>4, <1>5, <1>6, <1>7, <1>8, <1>9, <1>10 DEF Move

(* A task of the page and a read of a script's are the outermost calls.    *)
Same(m, i) == i = m /\ stack[1].kind = stack'[i].kind /\ stack[1].script = stack'[i].script
              /\ stack'[i].do # "emit"
(* A task, and a script's own record, stay right above the last item.      *)
LEMMA BottomTops == ASSUME TypeInv, TypeInv', Bottom, NEW m \in 0..4, Tops(m), running' = running,
    \A i \in 1..m : stack'[i].kind = "Task" \/ (stack'[i].kind = "Read" /\ stack'[i].script # "none")
                    => Same(m, i)
  PROVE Bottom'
<1>1. Len(stack) \in Nat /\ Len(stack) >= 1 /\ DOMAIN stack = 1..Len(stack) /\ DOMAIN stack' = 1..Len(stack')
      /\ Len(stack') = Len(stack) + m - 1
  BY DEF TypeInv, Tops
<1>2. ASSUME NEW i \in DOMAIN stack',
             stack'[i].kind = "Task" \/ (stack'[i].kind = "Read" /\ stack'[i].script # "none")
      PROVE /\ i = Len(stack') - 1
            /\ stack'[i].kind = "Task" => running' = "none"
            /\ stack'[i].kind = "Read" => stack'[i].script = running' /\ stack'[i].do # "emit"
  <2>1. CASE i > m
    <3>1. i - m + 1 \in DOMAIN stack /\ i - m + 1 > 1 /\ stack'[i] = stack[i - m + 1]
      BY <2>1, Below
    <3>. QED BY <3>1, <1>1, <1>2 DEF Bottom
  <2>2. CASE i <= m
    BY <2>2, <1>1, <1>2, SMTT(60) DEF Bottom, Same
  <2>. QED BY <2>1, <2>2, <1>1
<1>. QED BY <1>2 DEF Bottom

LEMMA BottomKept == ASSUME TypeInv, TypeInv', ShapeInv, Bottom, Throwing, Move PROVE Bottom'
<1>1. CASE Drops \/ Counts \/ Falls \/ Guards \/ Marks
  <2>1. Tops(0) /\ running' = running
    BY <1>1 DEF Drops, Counts, Falls, Guards, Marks, Idle, document
  <2>. QED BY <2>1, BottomTops
<1>2. CASE Turns \/ Writes \/ Closes \/ Refuses \/ Halts
  <2>1. Tops(1) /\ stack # <<>> /\ stack[1] \in Items /\ running' = running
    BY <1>2, FirstItem DEF Turns, Writes, Closes, Refuses, Halts, Tops, Idle, document
  <2>2. stack'[1].kind \in {"none", "Loading"} \/ Same(1, 1)
    <3>1. CASE Turns
      BY <2>1, <3>1, FirstInto, Fields DEF Turns, Same
    <3>2. CASE Writes
      BY <2>1, <3>2, FirstInto DEF Writes, Same
    <3>3. CASE Closes \/ Refuses \/ Halts
      BY <3>3, Fields DEF Closes, Refuses, Halts
    <3>. QED BY <1>2, <3>1, <3>2, <3>3
  <2>. QED BY <2>1, <2>2, BottomTops
<1>3. CASE GuardFaults \/ Digests \/ EndFaults \/ Rereads
  <2>1. Tops(2) /\ running' = running
    BY <1>3 DEF GuardFaults, Digests, EndFaults, Rereads, Idle, document
  <2>2. /\ stack'[1].kind # "Task" /\ stack'[1].script = "none"
        /\ stack'[2].kind = "none" \/ Same(2, 2)
    BY <1>3, Fields DEF GuardFaults, Digests, EndFaults, Rereads, Same, Called, Outside
  <2>. QED BY <2>1, <2>2, BottomTops
<1>4. CASE Refaults
  <2>1. Tops(3) /\ running' = running
    BY <1>4 DEF Refaults, document
  <2>2. stack'[1].kind = "none" /\ stack'[2].kind = "none" /\ Same(3, 3)
    BY <1>4, Fields DEF Refaults, Same, Called, Outside
  <2>. QED BY <2>1, <2>2, BottomTops
<1>5. CASE Reends
  <2>1. Tops(4) /\ running' = running
    BY <1>5 DEF Reends, Idle, document
  <2>2. stack'[1].kind = "none" /\ stack'[2].kind = "none" /\ stack'[3].kind = "none" /\ Same(4, 4)
    BY <1>5, Fields DEF Reends, Same, Called, Outside
  <2>. QED BY <2>1, <2>2, BottomTops
<1>6. CASE FirstOf
  <2>1. stack[1] \in Items
    BY <1>6, FirstItem DEF FirstOf
  <2>2. CASE Tops(2) /\ stack'[1] = Item("emit", "DocTask", 0, running)
             /\ stack'[2] = Into(stack[1], "encode")
    <3>1. stack'[1].kind = "DocTask" /\ Same(2, 2)
      BY <2>1, <2>2, FirstInto, Fields DEF Same
    <3>. QED BY <1>6, <2>2, <3>1, BottomTops DEF FirstOf
  <2>3. CASE Tops(3) /\ stack'[1] = Emit("Loading") /\ stack'[2] = Item("emit", "DocTask", 0, running)
             /\ stack'[3] = Into(stack[1], "encode")
    <3>1. stack'[1].kind = "Loading" /\ stack'[2].kind = "DocTask" /\ Same(3, 3)
      BY <2>1, <2>3, FirstInto, Fields DEF Same
    <3>. QED BY <1>6, <2>3, <3>1, BottomTops DEF FirstOf
  <2>. QED BY <1>6, <2>2, <2>3 DEF FirstOf
<1>7. CASE Catches \/ Rehalts
  BY <1>7 DEF Catches, Rehalts, Idle, document, Bottom, Called, Calm
<1>8. CASE Page
  <2>1. stack = <<>> /\ DOMAIN stack' = 1..Len(stack') /\ stack' \in Seq(Items)
    BY <1>8, PageCalls
  <2>2. CASE PageReads
    <3>1. Len(stack') = 2 /\ stack'[1] = Item("emit", "Read", 0, running) /\ stack'[2] = Step("guard")
      BY <2>2, PageCalls
    <3>2. ~thrown' /\ running' = running
      BY <2>1, <2>2 DEF PageReads, Throwing, Calling, document
    <3>. QED BY <2>1, <3>1, <3>2, Fields DEF Bottom
  <2>3. CASE TaskBegins
    <3>1. /\ Len(stack') = 4 /\ stack'[1] = Step("macrotask") /\ stack'[2] = Step("due")
          /\ stack'[3] = Emit("Task") /\ stack'[4] = Step("guard")
      BY <2>3, PageCalls
    <3>2. running' = "none"
      BY <2>3 DEF TaskBegins, document
    <3>. QED BY <2>1, <3>1, <3>2, Fields DEF Bottom
  <2>4. CASE ScriptSettles \/ Dispatches \/ PageEnds \/ SeamThrows
    <3>1. \A i \in DOMAIN stack' : stack'[i].kind \in {"none", "Loading", "DocTask"}
      <4>1. CASE ScriptSettles
        BY <2>1, <4>1, PageCalls, Fields
      <4>2. CASE Dispatches
        BY <2>1, <4>2, PageCalls, Fields
      <4>3. CASE PageEnds
        <5>1. /\ Len(stack') = 3 /\ stack'[1] = Step("final") /\ stack'[2] = Step("encodeEnd")
              /\ stack'[3] = Step("guard")
          BY <4>3, PageCalls
        <5>. QED BY <2>1, <5>1, Fields
      <4>4. CASE SeamThrows
        <5>1. Len(stack') = 1 /\ stack'[1] = Step("guard")
          BY <4>4, PageCalls
        <5>. QED BY <2>1, <5>1, Fields
      <4>. QED BY <2>4, <4>1, <4>2, <4>3, <4>4
    <3>. QED BY <3>1 DEF Bottom
  <2>5. CASE (\E s \in Scripts : ScriptRuns(s)) \/ Parsed \/ Halt
    <3>1. DOMAIN stack' = {}
      BY <2>1, <2>5 DEF ScriptRuns, Parsed, Halt, calls
    <3>. QED BY <3>1 DEF Bottom
  <2>. QED BY <1>8, <2>2, <2>3, <2>4, <2>5 DEF Page
<1>. QED BY <1>1, <1>2, <1>3, <1>4, <1>5, <1>6, <1>7, <1>8 DEF Move

(* What the page's calls put on the stack is all still to be begun.        *)
LEMMA PageItems == ASSUME TypeInv, Throwing, Page, NEW i \in DOMAIN stack'
  PROVE /\ stack'[i].do \in {"emit", "macrotask", "due", "final", "encodeEnd", "guard", "mark"}
        /\ stack'[i].kind \in {"none", "Loading", "DocTask", "Read", "Task"}
        /\ (stack'[i].kind = "none") <=> (stack'[i].do # "emit")
        /\ thrown' => SeamThrows
<1>1. stack = <<>> /\ i \in 1..Len(stack')
  BY PageCalls
<1>2. CASE PageReads
  <2>1. Len(stack') = 2 /\ stack'[1] = Item("emit", "Read", 0, running) /\ stack'[2] = Step("guard")
    BY <1>2, PageCalls
  <2>2. ~thrown'
    BY <1>1, <1>2 DEF PageReads, Calling, Throwing
  <2>. QED BY <1>1, <2>1, <2>2, Fields
<1>3. CASE TaskBegins
  <2>1. /\ Len(stack') = 4 /\ stack'[1] = Step("macrotask") /\ stack'[2] = Step("due")
        /\ stack'[3] = Emit("Task") /\ stack'[4] = Step("guard")
    BY <1>3, PageCalls
  <2>2. ~thrown'
    BY <1>1, <1>3 DEF TaskBegins, Calling, Throwing
  <2>. QED BY <1>1, <2>1, <2>2, Fields
<1>4. CASE ScriptSettles
  <2>1. ~thrown'
    BY <1>1, <1>4 DEF ScriptSettles, Calling, Throwing
  <2>. QED BY <1>1, <1>4, <2>1, Fields, PageCalls
<1>5. CASE Dispatches
  <2>1. ~thrown'
    BY <1>1, <1>5 DEF Dispatches, Calling, Throwing
  <2>. QED BY <1>1, <1>5, <2>1, Fields, PageCalls
<1>6. CASE PageEnds
  <2>1. /\ Len(stack') = 3 /\ stack'[1] = Step("final") /\ stack'[2] = Step("encodeEnd")
        /\ stack'[3] = Step("guard")
    BY <1>6, PageCalls
  <2>2. ~thrown'
    BY <1>1, <1>6 DEF PageEnds, Calling, Throwing
  <2>. QED BY <1>1, <2>1, <2>2, Fields
<1>7. CASE SeamThrows
  <2>1. Len(stack') = 1 /\ stack'[1] = Step("guard")
    BY <1>7, PageCalls
  <2>. QED BY <1>1, <1>7, <2>1, Fields
<1>8. CASE (\E s \in Scripts : ScriptRuns(s)) \/ Parsed \/ Halt
  <2>1. stack' = stack
    BY <1>8 DEF ScriptRuns, Parsed, Halt, calls
  <2>. QED BY <1>1, <2>1
<1>. QED BY <1>2, <1>3, <1>4, <1>5, <1>6, <1>7, <1>8 DEF Page

Under(x) == /\ x.do \in Records \cup {"describe", "refuse", "haltSink", "halting"}
            /\ x.kind \in {"none", "Read", "Loading", "DocTask"}
(* What is above an append is never the end of the session.                *)
LEMMA AppendingTops == ASSUME TypeInv, TypeInv', Appending, NEW m \in 0..4, Tops(m),
    Under(stack[1]) /\ (\E i \in DOMAIN stack : stack[i].do = "append") => \A k \in 1..m : Under(stack'[k]),
    \A i \in 1..m : stack'[i].do = "append" => \A k \in 1..i - 1 : Under(stack'[k])
  PROVE Appending'
<1>1. Len(stack) \in Nat /\ Len(stack) >= 1 /\ DOMAIN stack = 1..Len(stack) /\ DOMAIN stack' = 1..Len(stack')
      /\ Len(stack') = Len(stack) + m - 1
  BY DEF TypeInv, Tops
<1>2. ASSUME NEW i \in DOMAIN stack', stack'[i].do = "append", NEW j \in 1..i - 1
      PROVE Under(stack'[j])
  <2>1. CASE i <= m
    <3>1. i \in 1..m
      BY <1>1, <2>1
    <3>. QED BY <1>2, <3>1
  <2>2. CASE i > m
    <3>1. i - m + 1 \in DOMAIN stack /\ i - m + 1 > 1 /\ stack[i - m + 1].do = "append"
      BY <1>2, <2>2, Below
    <3>2. \A k \in 1..i - m : Under(stack[k])
      BY <3>1, <1>1 DEF Appending, Under
    <3>3. CASE j <= m
      <4>0. 1 \in 1..i - m /\ j \in 1..m
        BY <1>1, <3>1, <3>3
      <4>1. Under(stack[1]) /\ j \in 1..m
        BY <3>2, <4>0
      <4>. QED BY <3>1, <4>1
    <3>4. CASE j > m
      <4>1. j \in DOMAIN stack'
        BY <1>1
      <4>2. stack'[j] = stack[j - m + 1]
        BY <3>4, <4>1, Below
      <4>3. j - m + 1 \in 1..i - m
        BY <1>1, <3>4
      <4>. QED BY <3>2, <4>2, <4>3
    <3>. QED BY <1>1, <3>3, <3>4
  <2>. QED BY <1>1, <2>1, <2>2
<1>. QED BY <1>2 DEF Appending, Under

LEMMA AppendingKept == ASSUME TypeInv, TypeInv', ShapeInv, Appending, Throwing, Faulting, Move
  PROVE Appending'
<1>1. CASE Drops \/ Counts \/ Falls \/ Guards \/ Marks
  <2>1. Tops(0)
    BY <1>1 DEF Drops, Counts, Falls, Guards, Marks
  <2>. QED BY <2>1, AppendingTops
<1>2. CASE Turns \/ Writes \/ Closes \/ Refuses \/ Halts
  <2>1. Tops(1) /\ stack # <<>> /\ stack[1] \in Items
    BY <1>2, FirstItem DEF Turns, Writes, Closes, Refuses, Halts, Tops
  <2>2. Under(stack[1]) => Under(stack'[1])
    <3>1. CASE Turns
      <4>1. CASE stack[1].do \in {"emit", "encode"}
        BY <2>1, <3>1, <4>1, FirstInto DEF Turns, Under, Records
      <4>2. CASE stack[1].do \notin {"emit", "encode"}
        BY <3>1, <4>2 DEF Turns, Under, Records
      <4>. QED BY <4>1, <4>2
    <3>2. CASE Writes
      BY <2>1, <3>2, FirstInto DEF Writes, Under, Records
    <3>3. CASE Closes \/ Refuses \/ Halts
      BY <3>3, Fields DEF Closes, Refuses, Halts, Under, Records
    <3>. QED BY <1>2, <3>1, <3>2, <3>3
  <2>. QED BY <2>1, <2>2, AppendingTops
<1>3. CASE GuardFaults \/ Digests \/ EndFaults
  <2>1. Tops(2) /\ stack[1].do \in {"guard", "digest", "sinkEnd"}
    BY <1>3 DEF GuardFaults, Digests, EndFaults
  <2>2. stack'[1].do # "append" /\ stack'[2].do # "append"
    BY <1>3, Fields DEF GuardFaults, Digests, EndFaults
  <2>. QED BY <2>1, <2>2, AppendingTops DEF Under, Records
<1>4. CASE Rereads
  <2>1. Tops(2) /\ stack'[2] = stack[1] /\ Under(stack'[1])
    BY <1>4, Fields DEF Rereads, Under, Records
  <2>2. stack'[1].do # "append"
    BY <1>4, Fields DEF Rereads
  <2>. QED BY <2>1, <2>2, AppendingTops
<1>5. CASE Refaults
  <2>1. Tops(3) /\ stack'[3] = stack[1] /\ Under(stack'[1]) /\ Under(stack'[2])
    BY <1>5, Fields DEF Refaults, Under
  <2>2. stack'[1].do # "append" /\ stack'[2].do # "append"
    BY <1>5, Fields DEF Refaults
  <2>. QED BY <2>1, <2>2, AppendingTops
<1>6. CASE Reends
  <2>1. Tops(4) /\ stack'[4] = stack[1] /\ \A i \in DOMAIN stack : stack[i].do # "append"
    BY <1>6 DEF Reends
  <2>2. \A k \in 1..3 : stack'[k].do # "append"
    BY <1>6, Fields DEF Reends
  <2>3. stack[1].do # "append"
    BY <1>6, <2>1, FirstItem DEF Reends, Called
  <2>. QED BY <2>1, <2>2, <2>3, AppendingTops
<1>7. CASE FirstOf
  <2>1. stack[1] \in Items /\ stack[1].do = "emit"
    BY <1>7, FirstItem DEF FirstOf
  <2> DEFINE tell == Item("emit", "DocTask", 0, running)
             enc == Into(stack[1], "encode")
  <2>2. /\ Under(tell) /\ Under(Emit("Loading")) /\ (Under(stack[1]) => Under(enc))
        /\ tell.do # "append" /\ Emit("Loading").do # "append" /\ enc.do # "append"
    BY <2>1, FirstInto, Fields DEF Under, Records
  <2> HIDE DEF tell, enc
  <2>3. CASE Tops(2) /\ stack'[1] = tell /\ stack'[2] = enc
    BY <2>2, <2>3, AppendingTops
  <2>4. CASE Tops(3) /\ stack'[1] = Emit("Loading") /\ stack'[2] = tell /\ stack'[3] = enc
    BY <2>2, <2>4, AppendingTops
  <2>. QED BY <1>7, <2>3, <2>4 DEF FirstOf, tell, enc
<1>8. CASE Catches \/ Rehalts
  BY <1>8 DEF Catches, Rehalts, Appending
<1>9. CASE Page
  BY <1>9, PageItems DEF Appending
<1>. QED BY <1>1, <1>2, <1>3, <1>4, <1>5, <1>6, <1>7, <1>8, <1>9 DEF Move

(* What is thrown goes through calls that do not catch it.                 *)
LEMMA ThrowingKept == ASSUME TypeInv, TypeInv', ShapeInv, Throwing, Move PROVE Throwing'
<1>1. CASE Falls
  <2>1. stack # <<>> /\ Tops(0)
    BY <1>1 DEF Falls, Tops
  <2>2. ~Last(stack[1])
    BY <1>1, <2>1 DEF Falls, Throwing, Last, Callable, Records
  <2>3. Len(stack) >= 2 /\ Follows(stack[1], stack[2]) /\ stack[1] \in Items
        /\ (stack[1].kind = "none" <=> stack[1].do \notin Records)
    BY <2>1, <2>2, FirstItem
  <2>4. stack' # <<>> /\ stack'[1] = stack[2] /\ 2 \in DOMAIN stack
    BY <2>1, <2>3 DEF Tops, TypeInv
  <2>5. stack[1].do \in Callable \cup Records \cup {"macrotask", "due", "final", "checkpointed",
                                                  "encodeEnd", "rethrow"}
    BY <1>1, <2>1 DEF Falls, Throwing, Callable, Records
  <2>6. stack[2].do \in Callable \cup Records
     \cup {"macrotask", "due", "final", "checkpointed", "encodeEnd", "rethrow", "guard"}
    <3>1. CASE stack[1].do \in Records
      <4>1. stack[1].kind \in {"Header", "Env", "Loading", "DocTask", "Read", "Task", "Checkpoint"}
        BY <2>3, <3>1 DEF Items, Kinds
      <4>2. CASE stack[1].kind = "Header"
        BY <2>3, <4>2, Fields DEF Follows, Records
      <4>3. CASE stack[1].kind # "Header"
        BY <2>3, <4>1, <4>3 DEF Follows, Records
      <4>. QED BY <4>2, <4>3
    <3>2. CASE stack[1].do \in {"hash", "digest", "sanitizeEnd", "encodeEnd", "rethrow", "macrotask",
                                "due", "final", "checkpointed"}
      BY <2>3, <3>2 DEF Follows, Records
    <3>. QED BY <2>5, <3>1, <3>2 DEF Callable, Records
  <2>. QED BY <2>4, <2>6 DEF Throwing
<1>2. CASE Page
  <2>1. CASE SeamThrows
    <3>1. Len(stack') = 1 /\ stack'[1] = Step("guard")
      BY <2>1, PageCalls
    <3>2. stack' # <<>>
      BY <3>1
    <3>. QED BY <3>1, <3>2, Fields DEF Throwing
  <2>2. CASE ~SeamThrows
    <3>1. ~thrown'
      BY <1>2, <2>2, PageCalls DEF Page, PageReads, TaskBegins, ScriptRuns, ScriptSettles, Parsed, Dispatches,
         PageEnds, Halt, Calling, calls, Throwing
    <3>. QED BY <3>1 DEF Throwing
  <2>. QED BY <2>1, <2>2
<1>3. CASE ~thrown'
  BY <1>3 DEF Throwing
<1>4. Falls \/ Page \/ ~thrown'
  BY DEF Move, Drops, Counts, Catches, Guards, GuardFaults, FirstOf, Turns, Writes, Digests, Closes,
     EndFaults, Refuses, Halts, Rereads, Reends, Refaults, Rehalts, Marks, Calm, Called
<1>. QED BY <1>1, <1>2, <1>3, <1>4

(* The fault's calls are under way only once, and at the top.              *)
FirstOnly == {"describe", "refuse", "haltSink", "sinkEnd"}
(* A fault is under way once, on the top of the stack.                     *)
LEMMA FaultingTops == ASSUME TypeInv, TypeInv', Faulting, NEW m \in 0..4, Tops(m),
    stack[1].do \notin FirstOnly,
    \A i \in 1..m : \/ stack'[i].do \notin FirstOnly \cup {"halting", "rethrow"}
                    \/ stack'[i].do = stack[1].do,
    UNCHANGED <<state, inFault, halts>>
  PROVE Faulting'
<1>1. Len(stack) \in Nat /\ Len(stack) >= 1 /\ DOMAIN stack = 1..Len(stack) /\ DOMAIN stack' = 1..Len(stack')
      /\ Len(stack') = Len(stack) + m - 1 /\ 1 \in DOMAIN stack
  BY DEF TypeInv, Tops
<1>2. \A i \in DOMAIN stack : stack[i].do \notin FirstOnly
  BY <1>1 DEF Faulting, FirstOnly
<1>3. ASSUME NEW i \in DOMAIN stack'
      PROVE /\ stack'[i].do \notin FirstOnly
            /\ stack'[i].do \in {"halting", "rethrow"} => state = "faulted"
  <2>1. CASE i <= m
    <3>1. i \in 1..m
      BY <1>1, <2>1
    <3>. QED BY <1>1, <3>1 DEF Faulting, FirstOnly
  <2>2. CASE i > m
    BY <1>2, <2>2, Below DEF Faulting
  <2>. QED BY <1>1, <2>1, <2>2
<1>4. ~(state = "faulted" /\ halts = 0)
  BY <1>2 DEF Faulting, FirstOnly
<1>. QED BY <1>3, <1>4 DEF Faulting, FirstOnly

LEMMA Quieter == ASSUME TypeInv, Faulting, Recording
  PROVE /\ \A i \in DOMAIN stack : stack[i].do \notin FirstOnly \cup {"halting", "rethrow"}
        /\ ~inFault /\ halts = 0
BY DEF Faulting, FirstOnly, Recording

(* A fault has just been begun: the first two items are its own.           *)
LEMMA FaultingBegins == ASSUME TypeInv, TypeInv', Faulting, Recording, NEW m \in 2..3, Tops(m),
    stack'[1].do = "describe", stack'[2].do = "haltSink",
    m = 3 => stack'[3] = stack[1],
    ~thrown', state' = "faulted", halts' = halts
  PROVE Faulting'
<1>1. Len(stack) \in Nat /\ Len(stack) >= 1 /\ DOMAIN stack' = 1..Len(stack') /\ Len(stack') = Len(stack) + m - 1
      /\ 1 \in DOMAIN stack
  BY DEF TypeInv, Tops
<1>2. ASSUME NEW i \in DOMAIN stack', i > 2
      PROVE stack'[i].do \notin FirstOnly \cup {"halting", "rethrow"}
  <2>1. CASE i <= m
    BY <1>1, <1>2, <2>1, Quieter
  <2>2. CASE i > m
    BY <2>2, Below, Quieter
  <2>. QED BY <1>1, <2>1, <2>2
<1>3. halts = 0 /\ 2 \in DOMAIN stack'
  BY <1>1, Quieter
<1>4. \A i \in DOMAIN stack' : i = 1 \/ i = 2 \/ i > 2
  BY <1>1
<1>. QED BY <1>2, <1>3, <1>4 DEF Faulting, FirstOnly

LEMMA FaultingKept == ASSUME TypeInv, TypeInv', ShapeInv, Throwing, Faulting, Move PROVE Faulting'
<1>0. stack # <<>> => stack[1] \in Items /\ 1 \in DOMAIN stack
  BY FirstItem
<1>1. CASE (Drops /\ stack[1].do \notin FirstOnly) \/ Counts \/ Guards \/ Marks
  <2>1. Tops(0) /\ stack[1].do \notin FirstOnly /\ UNCHANGED <<state, inFault, halts>>
    BY <1>1 DEF Drops, Counts, Guards, Marks, FirstOnly, Idle, recorder
  <2>. QED BY <2>1, FaultingTops
<1>2. CASE Falls
  <2>1. Tops(0) /\ stack[1].do \notin FirstOnly /\ UNCHANGED <<state, inFault, halts>>
    BY <1>2 DEF Falls, Throwing, FirstOnly, Idle, recorder, Tops, Callable, Records
  <2>. QED BY <2>1, FaultingTops
<1>3. CASE Drops /\ stack[1].do \in {"describe", "refuse", "sinkEnd"}
  <2>1. /\ Tops(0) /\ UNCHANGED <<state, inFault, halts>> /\ ~thrown' /\ Len(stack') = Len(stack) - 1
        /\ Len(stack) \in Nat /\ 1 \in DOMAIN stack /\ DOMAIN stack' = 1..Len(stack')
    BY <1>3, <1>0 DEF Drops, Calm, Tops, TypeInv
  <2>2. ASSUME NEW i \in DOMAIN stack'
        PROVE i + 1 \in DOMAIN stack /\ i + 1 > 1 /\ stack'[i] = stack[i + 1] /\ i \in Nat
    <3>1. i > 0 /\ i \in Nat
      BY <2>1
    <3>. QED BY <2>1, <3>1, Below
  <2>3. ASSUME state = "faulted", halts = 0 PROVE \E i \in DOMAIN stack' : stack'[i].do = "haltSink"
    <3>1. PICK j \in DOMAIN stack : stack[j].do = "haltSink"
      BY <2>3 DEF Faulting
    <3>2. j > 1
      BY <1>3, <3>1 DEF TypeInv
    <3>. QED BY <2>1, <3>1, <3>2, Above
  <2>. QED BY <2>1, <2>2, <2>3, SMTT(60) DEF Faulting
<1>4. CASE Turns \/ Writes
  <2>1. Tops(1) /\ UNCHANGED <<state, inFault, halts>> /\ Recording /\ stack # <<>>
    BY <1>4 DEF Turns, Writes, Idle, recorder, Tops
  <2>2. stack[1].do \notin FirstOnly
    BY <2>1, <1>0, Quieter
  <2>3. stack'[1].do \notin FirstOnly \cup {"halting", "rethrow"}
    <3>1. CASE Turns
      BY <1>0, <2>1, <3>1, FirstInto, Fields DEF Turns, FirstOnly
    <3>2. CASE Writes
      BY <1>0, <2>1, <3>2, FirstInto DEF Writes, FirstOnly
    <3>. QED BY <1>4, <3>1, <3>2
  <2>. QED BY <2>1, <2>2, <2>3, FaultingTops
<1>5. CASE Digests
  <2>1. Tops(2) /\ UNCHANGED <<state, inFault, halts>> /\ stack[1].do = "digest"
        /\ stack'[1].do = "emit" /\ stack'[2].do = "checkpointed"
    BY <1>5, Fields DEF Digests, Idle, recorder
  <2>. QED BY <2>1, FaultingTops DEF FirstOnly
<1>6. CASE Rereads \/ Reends \/ FirstOf
  <2>1. stack # <<>> /\ Recording /\ UNCHANGED <<state, inFault, halts>>
    BY <1>6 DEF Rereads, Reends, FirstOf, Called, Idle, recorder
  <2>2. stack[1].do \notin FirstOnly
    BY <2>1, <1>0, Quieter
  <2>3. CASE Rereads
    BY <2>1, <2>2, <2>3, Fields, FaultingTops DEF Rereads, FirstOnly
  <2>4. CASE Reends
    BY <2>1, <2>2, <2>4, Fields, FaultingTops DEF Reends, FirstOnly
  <2>5. CASE FirstOf
    <3>1. Into(stack[1], "encode").do = "encode" /\ Emit("Loading").do = "emit"
          /\ Item("emit", "DocTask", 0, running).do = "emit"
      BY <2>1, <1>0, FirstInto, Fields
    <3>. QED BY <2>1, <2>2, <2>5, <3>1, FaultingTops DEF FirstOf, FirstOnly
  <2>. QED BY <1>6, <2>3, <2>4, <2>5
<1>7. CASE GuardFaults \/ Refaults
  <2>1. CASE GuardFaults
    BY <2>1, Fields, FaultingBegins DEF GuardFaults
  <2>2. CASE Refaults
    BY <2>2, Fields, FaultingBegins DEF Refaults, Called, Calm
  <2>. QED BY <1>7, <2>1, <2>2
<1>8. CASE Closes
  <2>1. Tops(1) /\ Recording /\ stack'[1].do = "sinkEnd" /\ ~thrown' /\ state' = "ended"
        /\ UNCHANGED <<inFault, halts>>
    BY <1>8, Fields DEF Closes, Calm
  <2>2. ASSUME NEW i \in DOMAIN stack', i # 1
        PROVE stack'[i].do \notin FirstOnly \cup {"halting", "rethrow"}
    BY <2>1, <2>2, Below, Quieter DEF TypeInv
  <2>. QED BY <2>1, <2>2, Quieter DEF Faulting, FirstOnly
<1>9. CASE EndFaults
  <2>1. Tops(2) /\ stack[1].do = "sinkEnd" /\ stack'[1].do = "haltSink" /\ stack'[2].do = "rethrow"
        /\ ~thrown' /\ state' = "faulted" /\ UNCHANGED <<inFault, halts>> /\ stack # <<>>
    BY <1>9, Fields DEF EndFaults, Calm, Tops
  <2>2. state = "ended" /\ halts = 0
    BY <2>1, <1>0 DEF Faulting
  <2>3. \A i \in DOMAIN stack : i > 1 => stack[i].do \notin FirstOnly \cup {"halting", "rethrow"}
    BY <2>2 DEF Faulting, FirstOnly, TypeInv
  <2>4. \A i \in DOMAIN stack' : i > 2 => stack'[i].do \notin FirstOnly \cup {"halting", "rethrow"}
    BY <2>1, <2>3, Below
  <2>5. 1 \in DOMAIN stack' /\ \A i \in DOMAIN stack' : i = 1 \/ i = 2 \/ i > 2
    BY <2>1 DEF Tops, TypeInv
  <2>. QED BY <2>1, <2>2, <2>4, <2>5 DEF Faulting, FirstOnly
<1>10. CASE Refuses
  <2>1. /\ Tops(1) /\ UNCHANGED <<state, inFault, halts>> /\ ~thrown' /\ ~thrown
        /\ stack[1].do = "describe" /\ stack'[1].do = "refuse" /\ 1 \in DOMAIN stack
    BY <1>10, <1>0, Fields DEF Refuses, Calm, recorder, Tops
  <2>2. DOMAIN stack' = DOMAIN stack /\ \A i \in DOMAIN stack : i = 1 \/ stack'[i] = stack[i]
    BY <2>1 DEF Tops, TypeInv
  <2>. QED BY <2>1, <2>2 DEF Faulting
<1>11. CASE Halts
  <2>1. /\ Tops(1) /\ state' = state /\ ~inFault' /\ halts' = halts + 1 /\ ~thrown'
        /\ stack[1].do = "haltSink" /\ stack'[1].do = "halting" /\ 1 \in DOMAIN stack
    BY <1>11, <1>0, Fields DEF Halts, Calm, Tops
  <2>2. DOMAIN stack' = DOMAIN stack /\ \A i \in DOMAIN stack : i = 1 \/ stack'[i] = stack[i]
    BY <2>1 DEF Tops, TypeInv
  <2>3. state = "faulted" /\ halts = 0
    BY <2>1 DEF Faulting
  <2>4. \A i \in DOMAIN stack : i # 1 => stack[i].do \notin FirstOnly
    BY <2>1, <2>3 DEF Faulting, FirstOnly
  <2>. QED BY <2>1, <2>2, <2>3, <2>4 DEF Faulting, FirstOnly
<1>12. CASE Catches \/ Rehalts
  <2>1. CASE Catches
    BY <2>1 DEF Catches, Faulting, Idle, recorder
  <2>2. CASE Rehalts
    BY <2>2, Quieter DEF Rehalts, Called, Faulting, FirstOnly
  <2>. QED BY <1>12, <2>1, <2>2
<1>13. CASE Page
  <2>1. \A i \in DOMAIN stack' : stack'[i].do \notin FirstOnly \cup {"halting", "rethrow"}
    BY <1>13, PageItems DEF FirstOnly
  <2>2. stack = <<>> /\ UNCHANGED <<inFault, halts>> /\ (state' = state \/ (Recording /\ state' = "ended"))
    BY <1>13, PageCalls DEF Page, PageReads, TaskBegins, ScriptRuns, ScriptSettles, Parsed, Dispatches,
       PageEnds, Halt, SeamThrows, recorder
  <2>3. ~(state = "faulted" /\ halts = 0)
    BY <2>2 DEF Faulting
  <2>. QED BY <2>1, <2>2, <2>3, Quieter DEF Faulting, FirstOnly
<1>. QED BY <1>1, <1>2, <1>3, <1>4, <1>5, <1>6, <1>7, <1>8, <1>9, <1>10, <1>11, <1>12, <1>13
     DEF Move, Drops, FirstOnly

(* A session that stops recording never records again, and what is lost    *)
(* to a guard stays lost.                                                  *)
LEMMA StateMoves == ASSUME Move, ~Recording PROVE ~Recording'
BY DEF Move, Drops, Counts, Falls, Catches, Guards, GuardFaults, FirstOf, Turns, Writes, Digests, Closes,
   EndFaults, Refuses, Halts, Rereads, Reends, Refaults, Rehalts, Marks, Idle, recorder, Recording, Called,
   Page, PageReads, TaskBegins, ScriptRuns, ScriptSettles, Parsed, Dispatches, PageEnds, Halt, SeamThrows

(* What is thrown goes down to a guard or a callback, and what is certain  *)
(* to reach a guard stays so.                                              *)
LEMMA ThrownMoves == ASSUME TypeInv, Throwing, Faulting, Move, thrown, Recording'
  PROVE (Falls /\ stack[1].do \notin Outside) \/ (stack[1].do \in Outside /\ stack # <<>>)
<1>1. stack # <<>>
  BY DEF Throwing
<1>2. ~Page
  BY <1>1, PageCalls
<1>3. Falls \/ Catches \/ Guards \/ GuardFaults
  BY <1>2 DEF Move, Drops, Counts, FirstOf, Turns, Writes, Digests, Closes, EndFaults, Refuses, Halts,
     Rereads, Reends, Refaults, Rehalts, Marks, Calm, Called
<1>4. ~Guards /\ ~GuardFaults
  BY DEF Guards, GuardFaults, Faulting, Idle, recorder, Recording
<1>. QED BY <1>1, <1>3, <1>4 DEF Catches

LEMMA DoomedKept == ASSUME TypeInv, TypeInv', Throwing, Faulting, Move, Doomed PROVE Doomed' \/ ~Recording'
<1> SUFFICES ASSUME Recording' PROVE Doomed'
  OBVIOUS
<1>1. thrown
  BY DEF Doomed
<1>2. PICK g \in DOMAIN stack : stack[g].do = "guard" /\ \A k \in 1..g : stack[k].do \notin Outside
  BY DEF Doomed
<1>3. g \in Nat /\ g >= 1
  BY DEF TypeInv
<1>4. stack[1].do \notin Outside
  BY <1>2, <1>3
<1>5. Falls
  BY <1>1, <1>4, ThrownMoves
<1>6. Tops(0) /\ thrown' /\ g # 1
  BY <1>2, <1>5 DEF Falls
<1>7. g > 1
  BY <1>3, <1>6
<1>8. g - 1 \in DOMAIN stack' /\ stack'[g - 1] = stack[g]
  <2>1. g + 0 - 1 \in DOMAIN stack' /\ stack'[g + 0 - 1] = stack[g]
    BY <1>6, <1>7, Above
  <2>. QED BY <1>3, <2>1
<1>9. ASSUME NEW k \in 1..g - 1 PROVE stack'[k].do \notin Outside
  <2>1. k \in DOMAIN stack' /\ k > 0
    BY <1>3, <1>8 DEF TypeInv
  <2>2. stack'[k] = stack[k + 1]
    BY <1>6, <2>1, Below
  <2>3. k + 1 \in 1..g
    BY <1>3
  <2>. QED BY <1>2, <2>2, <2>3
<1>. QED BY <1>2, <1>6, <1>8, <1>9 DEF Doomed

LEMMA ClosingKept == ASSUME TypeInv, TypeInv', ShapeInv, Throwing, Faulting, Move, Closing PROVE Closing'
<1> SUFFICES ASSUME Recording' PROVE Doomed' \/ \E i \in DOMAIN stack' : IsEnd(stack'[i])
  BY DEF Closing
<1>1. CASE ~Recording \/ Doomed
  BY <1>1, StateMoves, DoomedKept
<1>2. CASE Recording /\ \E i \in DOMAIN stack : IsEnd(stack[i])
  <2>1. PICK i \in DOMAIN stack : IsEnd(stack[i])
    BY <1>2
  <2>2. i \in Nat /\ i >= 1 /\ stack # <<>> /\ stack[1] \in Items
    BY DEF TypeInv
  <2>3. ~Page
    BY <2>2, PageCalls
  <2>4. CASE i > 1
    <3>1. ASSUME NEW m \in 0..4, Tops(m) PROVE \E j \in DOMAIN stack' : IsEnd(stack'[j])
      BY <2>1, <2>4, <3>1, Above
    <3>2. CASE Catches \/ Rehalts
      BY <2>1, <3>2 DEF Catches, Rehalts
    <3>3. CASE ~Catches /\ ~Rehalts
      <4>1. Tops(0) \/ Tops(1) \/ Tops(2) \/ Tops(3) \/ Tops(4)
        BY <2>3, <3>3 DEF Move, Drops, Counts, Falls, Guards, GuardFaults, FirstOf, Turns, Writes, Digests,
           Closes, EndFaults, Refuses, Halts, Rereads, Reends, Refaults, Marks
      <4>. QED BY <3>1, <4>1
    <3>. QED BY <3>2, <3>3
  <2>5. CASE i = 1
    <3>1. stack[1].do \in {"encodeEnd", "sanitizeEnd"}
      BY <2>1, <2>5 DEF IsEnd
    <3>2. CASE Falls
      <4>1. Len(stack) >= 2 /\ stack[2].do = "guard"
        BY <2>2, <3>1, FirstItem DEF Last, Follows
      <4>2. Tops(0) /\ thrown' /\ 2 \in DOMAIN stack
        BY <3>2, <4>1 DEF Falls, TypeInv
      <4>3. 1 \in DOMAIN stack' /\ stack'[1].do = "guard"
        BY <4>1, <4>2, Above
      <4>. QED BY <4>2, <4>3 DEF Doomed, Outside
    <3>3. CASE Turns
      <4>1. Tops(1) /\ stack'[1] = Step("sanitizeEnd")
        BY <3>1, <3>3 DEF Turns
      <4>2. 1 \in DOMAIN stack' /\ IsEnd(stack'[1])
        BY <2>2, <4>1, Fields DEF Tops, IsEnd, TypeInv
      <4>. QED BY <4>2
    <3>4. CASE Catches \/ Rehalts
      BY <2>1, <3>4 DEF Catches, Rehalts
    <3>5. CASE Rereads \/ Reends \/ Refaults
      <4>1. CASE Rereads
        <5>1. Tops(2) /\ stack'[2] = stack[1]
          BY <4>1 DEF Rereads
        <5>2. 2 \in DOMAIN stack'
          BY <5>1, <2>2 DEF Tops, TypeInv
        <5>. QED BY <2>1, <2>5, <5>1, <5>2
      <4>2. CASE Reends
        <5>1. Tops(4) /\ stack'[4] = stack[1]
          BY <4>2 DEF Reends
        <5>2. 4 \in DOMAIN stack'
          BY <5>1, <2>2 DEF Tops, TypeInv
        <5>. QED BY <2>1, <2>5, <5>1, <5>2
      <4>3. CASE Refaults
        BY <4>3 DEF Refaults, Recording
      <4>. QED BY <3>5, <4>1, <4>2, <4>3
    <3>. QED BY <1>2, <2>3, <3>1, <3>2, <3>3, <3>4, <3>5 DEF Move, Drops, Counts, Guards, GuardFaults,
            FirstOf, Writes, Digests, Closes, EndFaults, Refuses, Halts, Marks, Recording
  <2>. QED BY <2>2, <2>4, <2>5
<1>. QED BY <1>1, <1>2 DEF Closing

(* The position of each task to come is told before it.                    *)
Announcing(x) == x.kind = "Loading" /\ Unwritten(x)
ToBegin(x) == Unwritten(x) /\ Begins(x)

(* A task that is to begin has the document's position, or it is made just *)
(* before.                                                                 *)
LEMMA LocatesTops == ASSUME TypeInv, TypeInv', PendingLocated, OnePending, NEW m \in 0..4, Tops(m),
    Recording, ~thrown, UNCHANGED <<loading, running, announced>>,
    Located(log, loading) => Located(log', loading),
    \A i \in 1..m : ToBegin(stack'[i]) => i = m /\ ToBegin(stack[1]),
    Announcing(stack[1]) => Located(log', loading) \/ (m >= 1 /\ Announcing(stack'[m])),
    stack[1].do = "macrotask"
       => loading = 4 \/ (m >= 1 /\ (stack'[m].do = "macrotask" \/ Announcing(stack'[m])))
  PROVE PendingLocated' /\ OnePending'
<1>1. Len(stack) \in Nat /\ Len(stack) >= 1 /\ DOMAIN stack = 1..Len(stack) /\ DOMAIN stack' = 1..Len(stack')
      /\ Len(stack') = Len(stack) + m - 1
  BY DEF TypeInv, Tops
<1>2. ASSUME NEW i \in DOMAIN stack', ToBegin(stack'[i]), i <= m
      PROVE i = m /\ Pending(1) /\ (loading = 4 \/ Located(log', loading)) /\ running \in announced \cup {"none"}
  <2>1. i = m /\ Pending(1)
    BY <1>1, <1>2 DEF Pending, ToBegin
  <2>2. Locating(1) /\ running \in announced \cup {"none"}
    BY <1>1, <2>1 DEF PendingLocated
  <2>3. loading = 4 \/ Located(log, loading)
    BY <2>2 DEF Locating, Lost
  <2>. QED BY <2>1, <2>2, <2>3
<1>3. ASSUME NEW i \in DOMAIN stack', ToBegin(stack'[i]), i > m
      PROVE i - m + 1 \in DOMAIN stack /\ i - m + 1 > 1 /\ Pending(i - m + 1)
  BY <1>3, Below DEF Pending, ToBegin
<1>4. ASSUME NEW i \in DOMAIN stack', ToBegin(stack'[i]), i > m
      PROVE Locating(i)' /\ running \in announced \cup {"none"}
  <2> DEFINE j == i - m + 1
  <2>1. j \in DOMAIN stack /\ j > 1 /\ Locating(j) /\ running \in announced \cup {"none"}
    BY <1>3, <1>4 DEF PendingLocated
  <2> SUFFICES Locating(i)'
    BY <2>1
  <2>2. CASE loading = 4 \/ Located(log, loading)
    BY <2>1, <2>2 DEF Locating
  <2>3. CASE Announcing(stack[j - 1])
    <3>1. CASE j = 2
      <4>1. i = m + 1
        BY <1>1, <3>1
      <4>2. Announcing(stack[1])
        BY <2>3, <3>1
      <4>3. CASE Located(log', loading)
        BY <4>3 DEF Locating, Located
      <4>4. CASE m >= 1 /\ Announcing(stack'[m])
        <5>1. i > 1 /\ Announcing(stack'[i - 1])
          BY <4>1, <4>4
        <5>. QED BY <5>1 DEF Locating, Announcing, Unwritten
      <4>. QED BY <4>2, <4>3, <4>4
    <3>2. CASE j > 2
      <4>1. i - 1 \in DOMAIN stack' /\ i - 1 > m /\ i - 1 > 0
        BY <1>1, <3>2
      <4>2. stack'[i - 1] = stack[(i - 1) - m + 1]
        BY <4>1, Below
      <4>3. (i - 1) - m + 1 = j - 1
        BY <1>1
      <4>4. Announcing(stack'[i - 1])
        BY <2>3, <4>2, <4>3
      <4>5. i > 1
        BY <1>1, <3>2
      <4>. QED BY <4>4, <4>5 DEF Locating, Announcing, Unwritten
    <3>. QED BY <1>1, <2>1, <3>1, <3>2
  <2>4. CASE j > 2 /\ stack[j - 1].do = "due" /\ (stack[j - 2].do = "macrotask" \/ Announcing(stack[j - 2]))
    <3>1. j > 2
      BY <2>4
    <3>2. i - 1 \in DOMAIN stack' /\ i - 1 > m
      BY <1>1, <3>1
    <3>3. stack'[i - 1] = stack[(i - 1) - m + 1]
      BY <3>2, Below
    <3>4. (i - 1) - m + 1 = j - 1
      BY <1>1
    <3>5. CASE j = 3
      <4>1. i = m + 2
        BY <1>1, <3>5
      <4>2. stack[1].do = "macrotask" \/ Announcing(stack[1])
        BY <2>4, <3>5
      <4>3. m >= 1 => stack'[i - 2] = stack'[m] /\ i > 2
        BY <4>1
      <4>4. stack'[i - 1].do = "due"
        BY <2>4, <3>3, <3>4
      <4>5. CASE loading = 4 \/ Located(log', loading)
        BY <4>5 DEF Locating, Located
      <4>6. CASE m >= 1 /\ (stack'[m].do = "macrotask" \/ Announcing(stack'[m]))
        BY <4>3, <4>4, <4>6 DEF Locating, Announcing, Unwritten
      <4>. QED BY <4>2, <4>5, <4>6
    <3>6. CASE j > 3
      <4>1. i - 2 \in DOMAIN stack' /\ i - 2 > m /\ i > 2
        BY <1>1, <2>1, <3>6, SMTT(60)
      <4>2. stack'[i - 2] = stack[(i - 2) - m + 1]
        BY <4>1, Below
      <4>3. (i - 2) - m + 1 = j - 2
        BY <1>1
      <4>4. /\ stack'[i - 1].do = "due" /\ i > 2
            /\ stack'[i - 2].do = "macrotask" \/ Announcing(stack'[i - 2])
        BY <2>4, <3>3, <3>4, <4>1, <4>2, <4>3
      <4>. QED BY <4>4 DEF Locating, Announcing, Unwritten
    <3>. QED BY <1>1, <3>1, <3>5, <3>6
  <2>. QED BY <2>1, <2>2, <2>3, <2>4 DEF Locating, Announcing, Lost
<1>5. PendingLocated'
  BY <1>1, <1>2, <1>4 DEF PendingLocated, Pending, ToBegin, Locating
<1>6. ASSUME NEW i \in DOMAIN stack', NEW k \in DOMAIN stack', ToBegin(stack'[i]), ToBegin(stack'[k]), i < k
      PROVE FALSE
  <2>1. k > m
    BY <1>1, <1>2, <1>6
  <2>2. k - m + 1 \in DOMAIN stack /\ k - m + 1 > 1 /\ Pending(k - m + 1)
    BY <1>3, <1>6, <2>1
  <2>3. CASE i <= m
    BY <1>1, <1>2, <1>6, <2>2, <2>3, SMTT(60) DEF OnePending
  <2>4. CASE i > m
    BY <1>1, <1>3, <1>6, <2>2, <2>4 DEF OnePending
  <2>. QED BY <1>1, <2>3, <2>4
<1>7. OnePending'
  BY <1>1, <1>6 DEF OnePending, Pending, ToBegin
<1>. QED BY <1>5, <1>7

(* What a move writes.                                                     *)
LEMMA LogMoves == ASSUME TypeInv, ShapeInv, Move
  PROVE \/ log' = log
        \/ Writes
        \/ \E f \in Frames : f.kind \in {"End", "Fault"} /\ log' = Append(log, f)
<1>1. CASE Closes
  <2>1. Frame("End", 0, nextSeq - 1, "none") \in Frames
    <3>1. nextSeq - 1 \in Nat
      BY DEF TypeInv, TypeOK
    <3>. QED BY <3>1, FramesMade DEF Names
  <2>2. Frame("End", 0, nextSeq - 1, "none").kind = "End"
    BY DEF Frame
  <2>. QED BY <1>1, <2>1, <2>2 DEF Closes
<1>2. CASE Refuses
  <2>1. Frame("Fault", nextSeq, 0, "none") \in Frames
    BY FramesMade DEF Names, TypeInv, TypeOK
  <2>2. Frame("Fault", nextSeq, 0, "none").kind = "Fault"
    BY DEF Frame
  <2>. QED BY <1>2, <2>1, <2>2 DEF Refuses
<1>3. Writes \/ Closes \/ Refuses \/ log' = log
  BY DEF Move, Drops, Counts, Falls, Catches, Guards, GuardFaults, FirstOf, Turns,
     Digests, EndFaults, Halts, Rereads, Reends, Refaults, Rehalts, Marks, Idle,
     Page, PageReads, TaskBegins, ScriptRuns, ScriptSettles, Parsed, Dispatches, PageEnds, Halt, SeamThrows
<1>. QED BY <1>1, <1>2, <1>3

(* The frame a step writes, and where.                                     *)
LEMMA Written1 == ASSUME TypeInv, ShapeInv, Writes
  PROVE \E f \in Frames :
          /\ log' = Append(log, f)
          /\ f.kind = stack[1].kind /\ f.kind # "none" /\ f.n = stack[1].n /\ f.script = stack[1].script
          /\ f.where = loading /\ f.seq = (IF Numbers(stack[1]) THEN nextSeq ELSE 0)
          /\ stack[1] \in Items /\ Tops(1) /\ 1 \in DOMAIN stack /\ stack'[1].do = "append"
          /\ stack'[1].kind = stack[1].kind /\ stack'[1].script = stack[1].script
          /\ Recording /\ ~thrown /\ ~thrown' /\ state' = state /\ stack[1].do = "sanitize"
          /\ UNCHANGED <<inFault, ordinal, document, halts>>
          /\ nextSeq' = IF Numbers(stack[1]) THEN nextSeq + 1 ELSE nextSeq
<1> DEFINE seq == IF Numbers(stack[1]) THEN nextSeq ELSE 0
           f == Frame(stack[1].kind, seq, stack[1].n, stack[1].script)
<1>1. stack[1] \in Items /\ 1 \in DOMAIN stack /\ stack[1].kind # "none" /\ stack[1].do = "sanitize"
  BY FirstItem DEF Writes, Tops, Records
<1>2. seq \in Nat
  BY DEF TypeInv, TypeOK
<1>3. f \in Frames
  BY <1>1, <1>2, FramesMade DEF Items
<1>4. /\ f.kind = stack[1].kind /\ f.n = stack[1].n /\ f.script = stack[1].script
      /\ f.where = loading /\ f.seq = seq
  BY DEF Frame
<1>5. stack'[1] = Taken(stack[1], seq) /\ log' = Append(log, f)
  BY DEF Writes
<1>6. stack'[1].do = "append" /\ stack'[1].kind = stack[1].kind /\ stack'[1].script = stack[1].script
  BY <1>1, <1>5, FirstInto
<1> HIDE DEF f
<1>. QED BY <1>1, <1>3, <1>4, <1>5, <1>6 DEF Writes, Calm

(* A position stays the last one until a task begins.                      *)
LEMMA LocatedKept == ASSUME TypeInv, NEW f \in Frames, ~Begins(f), log' = Append(log, f), NEW w
  PROVE Located(log, w) => Located(log', w)
<1> SUFFICES ASSUME Located(log, w) PROVE Located(log', w)
  OBVIOUS
<1>1. log \in Seq(Frames)
  BY DEF TypeInv
<1>2. PICK j \in DOMAIN log : log[j].kind = "Loading" /\ log[j].where = w /\ \A k \in j..Len(log) : ~Begins(log[k])
  BY DEF Located
<1>3. j \in DOMAIN log' /\ log'[j] = log[j]
  BY <1>1
<1>4. ASSUME NEW k \in j..Len(log') PROVE ~Begins(log'[k])
  <2>1. CASE k = Len(log) + 1
    BY <1>1, <2>1
  <2>2. CASE k # Len(log) + 1
    <3>1. k \in j..Len(log) /\ k \in DOMAIN log
      BY <1>1, <2>2
    <3>. QED BY <1>1, <1>2, <3>1
  <2>. QED BY <2>1, <2>2
<1>. QED BY <1>2, <1>3, <1>4 DEF Located

LEMMA LocatedNow == ASSUME TypeInv, NEW f \in Frames, f.kind = "Loading", log' = Append(log, f)
  PROVE Located(log', f.where)
<1>1. log \in Seq(Frames)
  BY DEF TypeInv
<1>2. /\ Len(log) + 1 \in DOMAIN log' /\ log'[Len(log) + 1] = f /\ Len(log') = Len(log) + 1
  BY <1>1
<1>3. \A k \in Len(log) + 1..Len(log') : k = Len(log) + 1
  BY <1>1, <1>2
<1>. QED BY <1>2, <1>3 DEF Located, Begins

LEMMA TasksLocatedKept == ASSUME TypeInv, TypeInv', ShapeInv, PendingLocated, TasksLocated, Move
  PROVE TasksLocated'
<1>0. log \in Seq(Frames)
  BY DEF TypeInv
<1>1. ASSUME NEW f \in Frames, log' = Append(log, f), Begins(f) /\ f.where < 4 => Located(log, f.where)
      PROVE TasksLocated'
  <2>1. ASSUME NEW i \in DOMAIN log', Begins(log'[i]), log'[i].where < 4
        PROVE \E j \in 1..(i - 1) : /\ log'[j].kind = "Loading" /\ log'[j].where = log'[i].where
                                    /\ \A k \in j..(i - 1) : ~Begins(log'[k])
    <3>1. CASE i = Len(log) + 1
      <4>1. log'[i] = f /\ i - 1 = Len(log) /\ \A k \in DOMAIN log : log'[k] = log[k]
        BY <1>0, <1>1, <3>1
      <4>2. PICK j \in DOMAIN log : log[j].kind = "Loading" /\ log[j].where = f.where
                                    /\ \A k \in j..Len(log) : ~Begins(log[k])
        BY <1>1, <2>1, <4>1 DEF Located
      <4>3. \A k \in j..Len(log) : k \in DOMAIN log
        BY <1>0, <4>2
      <4>. QED BY <1>0, <4>1, <4>2, <4>3
    <3>2. CASE i # Len(log) + 1
      <4>1. i \in DOMAIN log /\ \A k \in DOMAIN log : log'[k] = log[k]
        BY <1>0, <1>1, <3>2
      <4>2. PICK j \in 1..(i - 1) : /\ log[j].kind = "Loading" /\ log[j].where = log[i].where
                                    /\ \A k \in j..(i - 1) : ~Begins(log[k])
        BY <2>1, <4>1 DEF TasksLocated, Begins
      <4>3. \A k \in 1..i - 1 : k \in DOMAIN log
        BY <1>0, <4>1
      <4>. QED BY <4>1, <4>2, <4>3
    <3>. QED BY <3>1, <3>2
  <2>. QED BY <2>1 DEF TasksLocated, Begins
<1>2. CASE Writes
  <2>1. PICK f \in Frames : /\ log' = Append(log, f) /\ f.kind = stack[1].kind /\ f.where = loading
                            /\ 1 \in DOMAIN stack /\ Recording /\ ~thrown /\ stack[1].do = "sanitize"
    BY <1>2, Written1
  <2>2. Begins(f) => Locating(1)
    BY <2>1 DEF PendingLocated, Pending, Unwritten, Begins
  <2>3. Begins(f) /\ f.where < 4 => Located(log, f.where)
    BY <2>1, <2>2 DEF Locating, Lost
  <2>. QED BY <1>1, <2>1, <2>3
<1>3. CASE log' = log
  BY <1>3 DEF TasksLocated
<1>4. CASE \E f \in Frames : f.kind \in {"End", "Fault"} /\ log' = Append(log, f)
  BY <1>1, <1>4 DEF Begins
<1>. QED BY <1>2, <1>3, <1>4, LogMoves

(* The moves that bear on the position, one by one.                        *)
LEMMA LocatesFalls == ASSUME TypeInv, TypeInv', ShapeInv, PendingLocated, OnePending, Throwing, Falls, Recording'
  PROVE PendingLocated' /\ OnePending'
<1>1. /\ Tops(0) /\ Recording /\ thrown' /\ Len(stack') = Len(stack) - 1 /\ Len(stack) \in Nat
      /\ DOMAIN stack' = 1..Len(stack') /\ stack # <<>> /\ UNCHANGED <<loading, running, announced, log>>
  BY DEF Falls, Idle, recorder, document, Recording, Tops, TypeInv
<1>2. ASSUME NEW i \in DOMAIN stack'
      PROVE /\ i + 1 \in DOMAIN stack /\ i + 1 > 1 /\ stack'[i] = stack[i + 1] /\ i \in Nat /\ i >= 1
            /\ Pending(i)' => Pending(i + 1)
  <2>1. i > 0 /\ i \in Nat
    BY <1>1
  <2>2. i - 0 + 1 \in DOMAIN stack /\ i - 0 + 1 > 1 /\ stack'[i] = stack[i - 0 + 1]
    BY <1>1, <2>1, Below
  <2>. QED BY <1>1, <2>1, <2>2 DEF Pending, Unwritten, Begins
<1>3. OnePending'
  <2>1. ASSUME NEW i \in DOMAIN stack', NEW j \in DOMAIN stack', Pending(i)', Pending(j)' PROVE i = j
    <3>1. i + 1 = j + 1 /\ i \in Nat /\ j \in Nat
      BY <1>2, <2>1 DEF OnePending
    <3>. QED BY <3>1
  <2>. QED BY <2>1 DEF OnePending
<1>4. ASSUME NEW i \in DOMAIN stack', Pending(i)' PROVE Locating(i)' /\ running' \in announced' \cup {"none"}
  <2>1. Locating(i + 1) /\ running \in announced \cup {"none"}
    BY <1>2, <1>4 DEF PendingLocated
  <2>2. i + 1 - 1 = i /\ i + 1 - 2 = i - 1 /\ i \in Nat /\ i >= 1
    BY <1>2
  <2>3. CASE loading = 4 \/ Located(log, loading)
    BY <1>1, <2>1, <2>3 DEF Locating
  <2>4. CASE Lost(i + 1)
    <3>1. ASSUME NEW k \in 1..i PROVE stack'[k].do \notin Outside
      <4>1. k \in DOMAIN stack' /\ k + 1 \in 1..i + 1
        BY <1>1, <1>2
      <4>. QED BY <1>2, <2>4, <4>1 DEF Lost
    <3>. QED BY <1>1, <2>1, <3>1 DEF Locating, Lost
  <2>5. CASE Announcing(stack[i])
    <3>1. CASE i = 1
      <4>1. stack[2].do \in {"due", "emit"} /\ 2 \in DOMAIN stack
        <5>1. 2 \in DOMAIN stack
          BY <1>2, <3>1
        <5>. QED BY <1>1, <2>5, <3>1, <5>1, FirstItem DEF Announcing, Follows, Last, Unwritten
      <4>2. Lost(1)'
        BY <1>1, <1>2, <3>1, <4>1 DEF Lost, Outside
      <4>. QED BY <2>1, <3>1, <4>2, <1>1 DEF Locating
    <3>2. CASE i > 1
      <4>1. i - 1 \in DOMAIN stack'
        BY <1>1, <2>2, <3>2
      <4>2. stack'[i - 1] = stack[i]
        BY <1>2, <4>1, <2>2
      <4>. QED BY <1>1, <2>1, <2>5, <3>2, <4>2 DEF Locating, Announcing, Unwritten
    <3>. QED BY <2>2, <3>1, <3>2
  <2>6. CASE i > 1 /\ stack[i].do = "due" /\ (stack[i - 1].do = "macrotask" \/ Announcing(stack[i - 1]))
    <3>1. i - 1 \in DOMAIN stack' /\ stack'[i - 1] = stack[i]
      <4>1. i - 1 \in DOMAIN stack'
        BY <1>1, <2>2, <2>6
      <4>. QED BY <1>2, <4>1, <2>2
    <3>2. CASE i = 2
      <4>1. stack'[1].do = "due" /\ stack'[2] = stack[3] /\ 2 \in DOMAIN stack' /\ 3 \in DOMAIN stack
        BY <1>2, <2>6, <3>1, <3>2
      <4>2. stack[3].do = "emit"
        <5>1. stack[2].do = "due" /\ 2 \in 1..Len(stack) - 1
          BY <1>1, <2>6, <3>2, <4>1
        <5>2. Follows(stack[2], stack[2 + 1])
          BY <5>1 DEF ShapeInv, Shape
        <5>. QED BY <5>1, <5>2 DEF Follows
      <4>3. Lost(2)'
        <5>1. \A k \in 1..2 : k = 1 \/ k = 2
          OBVIOUS
        <5>. QED BY <1>1, <4>1, <4>2, <5>1 DEF Lost, Outside
      <4>. QED BY <1>1, <2>1, <3>2, <4>3 DEF Locating
    <3>3. CASE i > 2
      <4>1. i - 2 \in DOMAIN stack'
        BY <1>1, <2>2, <3>3
      <4>2. stack'[i - 2] = stack[i - 1]
        <5>1. i - 2 + 1 = i - 1
          BY <2>2
        <5>. QED BY <1>2, <4>1, <5>1
      <4>. QED BY <1>1, <2>1, <2>6, <3>1, <3>3, <4>2 DEF Locating, Announcing, Unwritten
    <3>. QED BY <2>2, <2>6, <3>2, <3>3
  <2>. QED BY <2>1, <2>2, <2>3, <2>4, <2>5, <2>6 DEF Locating, Announcing
<1>. QED BY <1>3, <1>4 DEF PendingLocated

LEMMA LocatesFirstOf == ASSUME TypeInv, TypeInv', ShapeInv, PendingLocated, OnePending, FirstOf
  PROVE PendingLocated' /\ OnePending'
<1>1. /\ stack[1] \in Items /\ 1 \in DOMAIN stack /\ Recording /\ ~thrown /\ running \notin announced \cup {"none"}
      /\ running \in announced' /\ running' = running /\ loading' = loading
  BY FirstItem DEF FirstOf, Calm
<1>2. \A i \in DOMAIN stack : ~ToBegin(stack[i])
  BY <1>1 DEF PendingLocated, Pending, ToBegin
<1> DEFINE enc == Into(stack[1], "encode")
<1>3. ~ToBegin(enc)
  <2>1. enc.do = "encode" /\ enc.kind = stack[1].kind /\ stack[1].do = "emit"
    BY <1>1, FirstInto DEF FirstOf
  <2>. QED BY <1>1, <1>2, <2>1 DEF ToBegin, Unwritten, Begins
<1> HIDE DEF enc
<1>4. CASE loading = 4 /\ Tops(2) /\ stack'[2] = enc
  <2>1. ASSUME NEW i \in DOMAIN stack', ToBegin(stack'[i]) PROVE i = 1
    <3>1. CASE i > 2
      BY <1>2, <1>4, <2>1, <3>1, Below
    <3>2. i = 1 \/ i = 2 \/ i > 2
      BY DEF TypeInv
    <3>. QED BY <1>3, <1>4, <2>1, <3>1, <3>2
  <2>. QED BY <1>1, <1>4, <2>1 DEF PendingLocated, OnePending, Pending, ToBegin, Locating
<1>5. CASE loading < 4 /\ Tops(3) /\ stack'[1] = Emit("Loading") /\ stack'[3] = enc
  <2>1. ASSUME NEW i \in DOMAIN stack', ToBegin(stack'[i]) PROVE i = 2
    <3>1. CASE i > 3
      BY <1>2, <1>5, <2>1, <3>1, Below
    <3>2. i = 1 \/ i = 2 \/ i = 3 \/ i > 3
      BY SMTT(60) DEF TypeInv
    <3>3. ~ToBegin(stack'[1])
      BY <1>5, Fields DEF ToBegin, Begins
    <3>. QED BY <1>3, <1>5, <2>1, <3>1, <3>2, <3>3
  <2>2. Locating(2)'
    BY <1>5, Fields DEF Locating, Unwritten
  <2>. QED BY <1>1, <2>1, <2>2 DEF PendingLocated, OnePending, Pending, ToBegin
<1>. QED BY <1>4, <1>5 DEF FirstOf, enc

LEMMA LocatesWrites == ASSUME TypeInv, TypeInv', ShapeInv, PendingLocated, OnePending, Writes
  PROVE PendingLocated' /\ OnePending'
<1>1. PICK f \in Frames :
        /\ log' = Append(log, f) /\ f.kind = stack[1].kind /\ f.where = loading
        /\ Tops(1) /\ 1 \in DOMAIN stack /\ Recording /\ ~thrown /\ stack[1].do = "sanitize"
        /\ stack'[1].do = "append" /\ UNCHANGED document
  BY Written1
<1>2. ~ToBegin(stack'[1]) /\ UNCHANGED <<loading, running, announced>>
  BY <1>1 DEF ToBegin, Unwritten, document
<1>3. CASE Begins(f)
  <2>1. Pending(1)
    BY <1>1, <1>3 DEF Pending, Unwritten, Begins
  <2>2. ASSUME NEW i \in DOMAIN stack', ToBegin(stack'[i]) PROVE FALSE
    <3>1. i > 1
      BY <1>2, <2>2 DEF TypeInv
    <3>2. i - 1 + 1 \in DOMAIN stack /\ i - 1 + 1 > 1 /\ stack'[i] = stack[i - 1 + 1]
      BY <1>1, <3>1, Below
    <3>3. Pending(i - 1 + 1)
      BY <1>1, <2>2, <3>2 DEF Pending, ToBegin
    <3>. QED BY <1>1, <2>1, <3>2, <3>3 DEF OnePending
  <2>. QED BY <2>2 DEF PendingLocated, OnePending, Pending, ToBegin
<1>4. CASE ~Begins(f)
  <2>1. Located(log, loading) => Located(log', loading)
    BY <1>1, <1>4, LocatedKept
  <2>2. Announcing(stack[1]) => Located(log', loading)
    BY <1>1, LocatedNow DEF Announcing
  <2>3. stack[1].do # "macrotask"
    BY <1>1
  <2>. QED BY <1>1, <1>2, <2>1, <2>2, <2>3, LocatesTops
<1>. QED BY <1>3, <1>4

LEMMA LocatesPage == ASSUME TypeInv, TypeInv', Throwing, Page PROVE PendingLocated' /\ OnePending'
<1>1. stack = <<>> /\ DOMAIN stack' = 1..Len(stack')
  BY PageCalls
<1>2. CASE \A i \in DOMAIN stack' : ~ToBegin(stack'[i])
  BY <1>2 DEF PendingLocated, OnePending, Pending, ToBegin
<1>3. CASE TaskBegins
  <2>1. /\ Len(stack') = 4 /\ stack'[1] = Step("macrotask") /\ stack'[2] = Step("due")
        /\ stack'[3] = Emit("Task") /\ stack'[4] = Step("guard")
    BY <1>3, PageCalls
  <2>2. \A i \in DOMAIN stack' : ToBegin(stack'[i]) => i = 3
    BY <1>1, <2>1, Fields DEF ToBegin, Unwritten
  <2>3. Locating(3)'
    BY <2>1, Fields DEF Locating
  <2>4. running' = "none"
    BY <1>3 DEF TaskBegins, document
  <2>. QED BY <2>2, <2>3, <2>4 DEF PendingLocated, OnePending, Pending, ToBegin
<1>4. CASE ScriptSettles \/ Dispatches
  <2>1. running' = "none" /\ (stack' # <<>> => loading' = loading)
    BY <1>4 DEF ScriptSettles, Dispatches, document
  <2>2. CASE loading = 4 /\ Len(stack') = 2 /\ stack'[2] = Step("guard")
    <3>1. \A i \in DOMAIN stack' : ToBegin(stack'[i]) => i = 1
      BY <1>1, <2>2, Fields DEF ToBegin, Unwritten
    <3>2. loading' = 4
      BY <2>1, <2>2
    <3>. QED BY <2>1, <3>1, <3>2 DEF PendingLocated, OnePending, Pending, ToBegin, Locating
  <2>3. CASE /\ stack'[1] = Emit("Loading") /\ Len(stack') \in {3, 4}
             /\ stack'[3] = Step("guard") /\ (Len(stack') = 4 => stack'[4] = Step("mark"))
    <3>1. \A i \in DOMAIN stack' : ToBegin(stack'[i]) => i = 2
      BY <1>1, <2>3, Fields DEF ToBegin, Unwritten, Begins
    <3>2. Locating(2)'
      BY <2>3, Fields DEF Locating, Unwritten
    <3>. QED BY <2>1, <3>1, <3>2 DEF PendingLocated, OnePending, Pending, ToBegin
  <2>4. CASE stack' = <<>> \/ (Len(stack') = 1 /\ stack'[1] = Step("mark"))
    <3>1. \A i \in DOMAIN stack' : ~ToBegin(stack'[i])
      BY <1>1, <2>4, Fields DEF ToBegin, Unwritten
    <3>. QED BY <1>2, <3>1
  <2>5. CASE ScriptSettles
    BY <2>5, <2>2, <2>3, <2>4, PageCalls
  <2>6. CASE Dispatches
    BY <2>6, <2>2, <2>3, <2>4, PageCalls
  <2>. QED BY <1>4, <2>5, <2>6
<1>5. CASE ~TaskBegins /\ ~ScriptSettles /\ ~Dispatches
  <2>1. ASSUME NEW i \in DOMAIN stack' PROVE ~ToBegin(stack'[i])
    <3>1. CASE PageReads
      <4>1. Len(stack') = 2 /\ stack'[1] = Item("emit", "Read", 0, running) /\ stack'[2] = Step("guard")
        BY <3>1, PageCalls
      <4>. QED BY <1>1, <4>1, Fields DEF ToBegin, Unwritten, Begins
    <3>2. CASE PageEnds
      <4>1. /\ Len(stack') = 3 /\ stack'[1] = Step("final") /\ stack'[2] = Step("encodeEnd")
            /\ stack'[3] = Step("guard")
        BY <3>2, PageCalls
      <4>. QED BY <1>1, <4>1, Fields DEF ToBegin, Unwritten
    <3>3. CASE SeamThrows
      <4>1. Len(stack') = 1 /\ stack'[1] = Step("guard")
        BY <3>3, PageCalls
      <4>. QED BY <1>1, <4>1, Fields DEF ToBegin, Unwritten
    <3>4. CASE (\E s \in Scripts : ScriptRuns(s)) \/ Parsed \/ Halt
      BY <1>1, <3>4 DEF ScriptRuns, Parsed, Halt, calls
    <3>. QED BY <1>5, <3>1, <3>2, <3>3, <3>4 DEF Page
  <2>. QED BY <1>2, <2>1
<1>. QED BY <1>3, <1>4, <1>5

LEMMA LocatesKept == ASSUME TypeInv, TypeInv', ShapeInv, Throwing, Faulting, PendingLocated, OnePending, Move
  PROVE PendingLocated' /\ OnePending'
<1> SUFFICES ASSUME Recording' PROVE PendingLocated' /\ OnePending'
  BY DEF PendingLocated, OnePending, Pending
<1>0. Recording /\ (stack # <<>> => stack[1] \in Items /\ 1 \in DOMAIN stack)
  BY StateMoves, FirstItem
<1>1. CASE Falls
  BY <1>1, LocatesFalls
<1>2. CASE Catches
  <2>1. stack' = stack /\ UNCHANGED <<recorder, document, log>> /\ stack[1].do \in Outside /\ 1 \in DOMAIN stack
    BY <1>2, FirstItem DEF Catches, Idle
  <2>2. \A i \in DOMAIN stack : ~Lost(i)
    BY <2>1 DEF Lost, TypeInv
  <2>. QED BY <2>1, <2>2 DEF PendingLocated, OnePending, Pending, Locating, document, recorder, Recording
<1>3. CASE FirstOf
  BY <1>3, LocatesFirstOf
<1>4. CASE Writes
  BY <1>4, LocatesWrites
<1>5. CASE Page
  BY <1>5, LocatesPage
<1>6. CASE Drops \/ Counts
  <2>1. Tops(0) /\ ~thrown /\ log' = log /\ UNCHANGED <<loading, running, announced>>
    BY <1>6 DEF Drops, Counts, Calm, document
  <2>2. ~Announcing(stack[1]) /\ (stack[1].do = "macrotask" => loading = 4)
    BY <1>0, <1>6 DEF Drops, Counts, Announcing, Unwritten
  <2>. QED BY <1>0, <2>1, <2>2, LocatesTops
<1>7. CASE Turns
  <2>1. /\ Tops(1) /\ ~thrown /\ log' = log /\ UNCHANGED <<loading, running, announced>> /\ stack # <<>>
        /\ stack[1] \in Items
    BY <1>0, <1>7 DEF Turns, Calm, document, Idle, Tops
  <2>2. CASE stack[1].do \in {"emit", "encode"}
    <3>1. stack'[1].kind = stack[1].kind /\ stack'[1].do \in {"encode", "sanitize"}
      BY <1>7, <2>1, <2>2, FirstInto DEF Turns
    <3>. QED BY <1>0, <2>1, <2>2, <3>1, LocatesTops DEF Announcing, ToBegin, Unwritten, Begins
  <2>3. CASE stack[1].do = "macrotask"
    <3>1. stack'[1].kind = "Loading" /\ stack'[1].do = "emit"
      BY <1>7, <2>3, Fields DEF Turns
    <3>. QED BY <1>0, <2>1, <2>3, <3>1, LocatesTops DEF Announcing, ToBegin, Unwritten, Begins
  <2>4. CASE stack[1].do \in {"due", "final", "hash", "encodeEnd"}
    <3>1. stack'[1].do \in {"hash", "digest", "sanitizeEnd"}
      BY <1>7, <2>4, Fields DEF Turns
    <3>. QED BY <1>0, <2>1, <2>4, <3>1, LocatesTops DEF Announcing, ToBegin, Unwritten
  <2>. QED BY <1>7, <2>2, <2>3, <2>4 DEF Turns
<1>8. CASE Digests \/ Rereads
  <2>1. /\ Tops(2) /\ ~thrown /\ log' = log /\ UNCHANGED <<loading, running, announced>>
        /\ stack[1].do # "macrotask"
    BY <1>8 DEF Digests, Rereads, Called, Calm, document, Idle, Outside
  <2>2. ~ToBegin(stack'[1])
    BY <1>8, Fields DEF Digests, Rereads, ToBegin, Begins
  <2>3. stack'[2] = stack[1] \/ (~ToBegin(stack'[2]) /\ ~Announcing(stack[1]))
    BY <1>8, Fields DEF Digests, Rereads, ToBegin, Unwritten, Announcing
  <2>. QED BY <1>0, <2>1, <2>2, <2>3, LocatesTops
<1>9. CASE Reends
  <2>1. /\ Tops(4) /\ ~thrown /\ log' = log /\ UNCHANGED <<loading, running, announced>>
        /\ stack[1].do # "macrotask" /\ stack'[4] = stack[1]
    BY <1>9 DEF Reends, Called, Calm, document, Idle, Outside
  <2>2. ~ToBegin(stack'[1]) /\ ~ToBegin(stack'[2]) /\ ~ToBegin(stack'[3])
    BY <1>9, Fields DEF Reends, ToBegin, Unwritten
  <2>. QED BY <1>0, <2>1, <2>2, LocatesTops
<1>10. CASE Marks
  <2>1. DOMAIN stack' = {}
    BY <1>10, MarkLast
  <2>. QED BY <2>1 DEF PendingLocated, OnePending, Pending
<1>11. ~Guards
  BY <1>0 DEF Guards, Idle, recorder, Recording, Faulting
<1>12. ~EndFaults /\ ~Refuses /\ ~Halts
  BY <1>0, Quieter DEF EndFaults, Refuses, Halts, Tops, FirstOnly
<1>13. ~GuardFaults /\ ~Closes /\ ~Refaults /\ ~Rehalts
  BY DEF GuardFaults, Closes, Refaults, Rehalts, Recording
<1>. QED BY <1>1, <1>2, <1>3, <1>4, <1>5, <1>6, <1>7, <1>8, <1>9, <1>10, <1>11, <1>12, <1>13 DEF Move

-----------------------------------------------------------------------------
(* No checkpoint is under way while the document is parsed.                *)
Checked(x) == x.do \in {"hash", "digest"} \/ x.kind = "Checkpoint"
LEMMA CheckedTops == ASSUME TypeInv, TypeInv', Parsing, NEW m \in 0..4, Tops(m), loading' = loading,
    \A i \in 1..m : Checked(stack'[i]) => loading # 1
  PROVE \A i \in DOMAIN stack' : Checked(stack'[i]) => loading' # 1
<1>1. ASSUME NEW i \in DOMAIN stack', Checked(stack'[i]) PROVE loading # 1
  <2>1. CASE i > m
    BY <1>1, <2>1, Below DEF Parsing, Checked
  <2>2. CASE i <= m
    <3>1. i \in 1..m
      BY <2>2 DEF TypeInv
    <3>. QED BY <1>1, <3>1
  <2>. QED BY <2>1, <2>2 DEF TypeInv
<1>. QED BY <1>1

LEMMA ParsingKept == ASSUME TypeInv, TypeInv', ShapeInv, Throwing, Parsing, Move PROVE Parsing'
<1>0. stack # <<>> => stack[1] \in Items /\ 1 \in DOMAIN stack
  BY FirstItem
<1>1. CheckpointsOfParsed'
  <2>1. CASE Writes
    <3>1. PICK f \in Frames : log' = Append(log, f) /\ f.kind = stack[1].kind /\ f.where = loading
                              /\ 1 \in DOMAIN stack
      BY <2>1, Written1
    <3>2. f.kind = "Checkpoint" => f.where # 1
      BY <3>1 DEF Parsing
    <3>. QED BY <3>1, <3>2 DEF Parsing, CheckpointsOfParsed, TypeInv
  <2>2. CASE log' = log
    BY <2>2 DEF Parsing, CheckpointsOfParsed
  <2>3. CASE \E f \in Frames : f.kind \in {"End", "Fault"} /\ log' = Append(log, f)
    BY <2>3 DEF Parsing, CheckpointsOfParsed, TypeInv
  <2>. QED BY <2>1, <2>2, <2>3, LogMoves
<1>2. \A i \in DOMAIN stack' : Checked(stack'[i]) => loading' # 1
  <2>1. CASE Drops \/ Counts \/ Falls \/ Guards
    <3>1. Tops(0) /\ loading' = loading
      BY <2>1 DEF Drops, Counts, Falls, Guards, Idle, document
    <3>. QED BY <3>1, CheckedTops
  <2>2. CASE Turns
    <3>1. Tops(1) /\ loading' = loading /\ stack # <<>>
      BY <2>2 DEF Turns, Idle, document, Tops
    <3>2. CASE stack[1].do \in {"emit", "encode"}
      <4>1. stack'[1].kind = stack[1].kind /\ stack'[1].do \in {"encode", "sanitize"}
        BY <1>0, <2>2, <3>1, <3>2, FirstInto DEF Turns
      <4>. QED BY <1>0, <3>1, <4>1, CheckedTops DEF Checked, Parsing
    <3>3. CASE stack[1].do \notin {"emit", "encode"}
      <4>1. Checked(stack'[1]) => loading # 1
        BY <1>0, <2>2, <3>1, <3>3, Fields DEF Turns, Checked, Parsing
      <4>. QED BY <3>1, <4>1, CheckedTops
    <3>. QED BY <3>2, <3>3
  <2>3. CASE Writes
    <3>1. Tops(1) /\ loading' = loading /\ stack'[1].do = "append" /\ stack'[1].kind = stack[1].kind
          /\ 1 \in DOMAIN stack
      BY <2>3, Written1 DEF document
    <3>2. Checked(stack'[1]) => loading # 1
      BY <3>1 DEF Checked, Parsing
    <3>. QED BY <3>1, <3>2, CheckedTops
  <2>4. CASE Closes \/ Refuses \/ Halts
    <3>1. Tops(1) /\ loading' = loading /\ ~Checked(stack'[1])
      BY <2>4, Fields DEF Closes, Refuses, Halts, document, Checked
    <3>. QED BY <3>1, CheckedTops
  <2>5. CASE GuardFaults \/ Digests \/ EndFaults \/ Rereads
    <3>1. Tops(2) /\ loading' = loading /\ stack # <<>>
      BY <2>5 DEF GuardFaults, Digests, EndFaults, Rereads, document, Idle, Tops
    <3>2. (Checked(stack'[1]) => loading # 1) /\ (Checked(stack'[2]) => loading # 1)
      BY <1>0, <2>5, <3>1, Fields DEF GuardFaults, Digests, EndFaults, Rereads, Checked, Parsing
    <3>. QED BY <3>1, <3>2, CheckedTops
  <2>6. CASE Refaults
    <3>1. Tops(3) /\ loading' = loading /\ stack # <<>>
      BY <2>6 DEF Refaults, document, Tops
    <3>2. ~Checked(stack'[1]) /\ ~Checked(stack'[2]) /\ (Checked(stack'[3]) => loading # 1)
      BY <1>0, <2>6, <3>1, Fields DEF Refaults, Checked, Parsing
    <3>. QED BY <3>1, <3>2, CheckedTops
  <2>7. CASE Reends
    <3>1. Tops(4) /\ loading' = loading /\ stack # <<>>
      BY <2>7 DEF Reends, document, Tops, Idle
    <3>2. ~Checked(stack'[1]) /\ ~Checked(stack'[2]) /\ ~Checked(stack'[3])
          /\ (Checked(stack'[4]) => loading # 1)
      BY <1>0, <2>7, <3>1, Fields DEF Reends, Checked, Parsing
    <3>. QED BY <3>1, <3>2, CheckedTops
  <2>8. CASE FirstOf
    <3>1. stack # <<>> /\ loading' = loading
      BY <2>8 DEF FirstOf
    <3>2. /\ ~Checked(Emit("Loading")) /\ ~Checked(Item("emit", "DocTask", 0, running))
          /\ Checked(Into(stack[1], "encode")) => loading # 1
      BY <1>0, <3>1, Fields, FirstInto DEF Checked, Parsing
    <3>. QED BY <2>8, <3>1, <3>2, CheckedTops DEF FirstOf
  <2>9. CASE Catches \/ Rehalts
    BY <2>9 DEF Catches, Rehalts, Idle, document, Parsing, Checked
  <2>10. CASE Marks
    BY <2>10, MarkLast
  <2>11. CASE Page
    BY <2>11, PageItems DEF Checked
  <2>. QED BY <2>1, <2>2, <2>3, <2>4, <2>5, <2>6, <2>7, <2>8, <2>9, <2>10, <2>11 DEF Move
<1>. QED BY <1>1, <1>2 DEF Parsing, Checked

(* What is thrown out of an end, or out of a checkpoint, comes to a guard. *)
LEMMA ThrownOut == ASSUME TypeInv', ShapeInv', thrown', stack' # <<>>,
    \/ stack'[1].do \in {"guard", "checkpointed", "encodeEnd"}
    \/ stack'[1].do = "emit" /\ stack'[1].kind \in {"Env", "Task"}
  PROVE Doomed'
<1>1. Len(stack') \in Nat /\ Len(stack') >= 1 /\ DOMAIN stack' = 1..Len(stack')
  BY DEF TypeInv
<1>2. CASE stack'[1].do = "guard"
  BY <1>1, <1>2 DEF Doomed, Outside
<1>3. CASE stack'[1].do = "encodeEnd" \/ (stack'[1].do = "emit" /\ stack'[1].kind \in {"Env", "Task"})
  <2>1. Len(stack') # 1
    BY <1>3 DEF ShapeInv, Shape, Last
  <2>2. Len(stack') > 1 /\ 2 \in DOMAIN stack'
    BY <1>1, <2>1
  <2>3. Follows(stack'[1], stack'[1 + 1])
    BY <1>1, <2>2 DEF ShapeInv, Shape
  <2>4. stack'[2].do = "guard"
    BY <1>3, <2>3 DEF Follows
  <2>5. \A k \in 1..2 : k = 1 \/ k = 2
    OBVIOUS
  <2>. QED BY <1>3, <2>2, <2>4, <2>5 DEF Doomed, Outside
<1>4. CASE stack'[1].do = "checkpointed"
  <2>1. Len(stack') # 1
    BY <1>4 DEF ShapeInv, Shape, Last
  <2>2. Len(stack') > 1 /\ 2 \in DOMAIN stack'
    BY <1>1, <2>1
  <2>3. Follows(stack'[1], stack'[1 + 1])
    BY <1>1, <2>2 DEF ShapeInv, Shape
  <2>4. stack'[2].do = "encodeEnd" \/ (stack'[2].do = "emit" /\ stack'[2].kind = "Task")
    BY <1>4, <2>3 DEF Follows
  <2>5. Len(stack') # 2
    BY <2>4 DEF ShapeInv, Shape, Last
  <2>6. Len(stack') > 2 /\ 3 \in DOMAIN stack'
    BY <1>1, <2>2, <2>5
  <2>7. Follows(stack'[2], stack'[2 + 1])
    BY <1>1, <2>6 DEF ShapeInv, Shape
  <2>8. stack'[3].do = "guard"
    BY <2>4, <2>7 DEF Follows
  <2>9. \A k \in 1..3 : k = 1 \/ k = 2 \/ k = 3
    OBVIOUS
  <2>. QED BY <1>4, <2>4, <2>6, <2>8, <2>9 DEF Doomed, Outside
<1>. QED BY <1>2, <1>3, <1>4

(* The log begins with Header and Env.                                     *)
LEMMA OpeningKept == ASSUME TypeInv, TypeInv', ShapeInv, ShapeInv', Throwing, Faulting, Opening, Move
  PROVE Opening'
<1> SUFFICES ASSUME Recording', ~Doomed' PROVE Opening'
  BY DEF Opening
<1>0. Recording /\ ~Doomed
  BY StateMoves, DoomedKept
<1>1. stack # <<>> => stack[1] \in Items /\ 1 \in DOMAIN stack
  BY FirstItem
<1>2. CASE Len(log) >= 2 /\ Opened
  <2>1. Len(log') >= 2
    BY <1>2, LogMoves, Written1 DEF TypeInv
  <2> SUFFICES Opened'
    BY <2>1 DEF Opening
  <2>2. ASSUME NEW m \in 0..4, Tops(m),
               \A i \in 1..m : stack'[i].kind \in {"Header", "Env"}
                               => stack'[i].do = "append" \/ stack'[i] = stack[1]
        PROVE Opened'
    <3>1. ASSUME NEW i \in DOMAIN stack', stack'[i].kind \in {"Header", "Env"} PROVE stack'[i].do = "append"
      <4>1. CASE i > m
        BY <1>2, <2>2, <3>1, <4>1, Below DEF Opened
      <4>2. CASE i <= m
        <5>1. i \in 1..m /\ 1 \in DOMAIN stack
          BY <1>1, <2>2, <4>2 DEF TypeInv, Tops
        <5>. QED BY <1>2, <2>2, <3>1, <5>1 DEF Opened
      <4>. QED BY <4>1, <4>2 DEF TypeInv
    <3>. QED BY <3>1 DEF Opened
  <2>3. CASE Drops \/ Counts \/ Falls \/ Guards \/ Marks
    <3>1. Tops(0)
      BY <2>3 DEF Drops, Counts, Falls, Guards, Marks
    <3>. QED BY <2>2, <3>1
  <2>4. CASE Turns
    <3>1. Tops(1) /\ stack # <<>> /\ (stack[1].kind \in {"Header", "Env"} => stack[1].do = "append")
      BY <1>1, <1>2, <2>4 DEF Turns, Tops, Opened
    <3>2. CASE stack[1].do \in {"emit", "encode"}
      <4>1. stack'[1].kind = stack[1].kind
        BY <1>1, <2>4, <3>1, <3>2, FirstInto DEF Turns
      <4>. QED BY <2>2, <3>1, <3>2, <4>1
    <3>3. CASE stack[1].do \notin {"emit", "encode"}
      <4>1. stack'[1].kind \in {"none", "Loading"}
        BY <2>4, <3>3, Fields DEF Turns
      <4>. QED BY <2>2, <3>1, <4>1
    <3>. QED BY <3>2, <3>3
  <2>5. CASE Writes
    BY <2>2, <2>5, Written1
  <2>6. CASE Digests \/ Rereads
    BY <2>2, <2>6, Fields DEF Digests, Rereads
  <2>7. CASE Reends
    BY <2>2, <2>7, Fields DEF Reends
  <2>8. CASE FirstOf
    <3>1. Into(stack[1], "encode").kind = stack[1].kind /\ Own(stack[1])
      BY <1>1, <2>8, FirstInto DEF FirstOf
    <3>2. /\ Into(stack[1], "encode").kind \notin {"Header", "Env"}
          /\ Emit("Loading").kind = "Loading" /\ Item("emit", "DocTask", 0, running).kind = "DocTask"
      BY <3>1, Fields DEF Own
    <3>. QED BY <2>2, <2>8, <3>2 DEF FirstOf
  <2>9. CASE Catches
    BY <1>2, <2>9 DEF Catches, Opened
  <2>10. CASE Page
    BY <2>10, PageItems DEF Opened
  <2>11. ~EndFaults /\ ~Refuses /\ ~Halts
    BY <1>0, Quieter, <1>1 DEF EndFaults, Refuses, Halts, Tops, FirstOnly
  <2>12. ~GuardFaults /\ ~Closes /\ ~Refaults /\ ~Rehalts
    BY DEF GuardFaults, Closes, Refaults, Rehalts, Recording
  <2>. QED BY <2>3, <2>4, <2>5, <2>6, <2>7, <2>8, <2>9, <2>10, <2>11, <2>12 DEF Move
<1>3. CASE \/ Len(log) = 0 /\ HeaderTop /\ Unwritten(stack[1])
           \/ Len(log) = 1 /\ ((HeaderTop /\ stack[1].do = "append") \/ EnvTop)
  <2>1. /\ stack # <<>> /\ stack[1] \in Items /\ stack[1].kind \in {"Header", "Env"}
        /\ stack[1].do \in {"emit", "encode", "sanitize", "append"} /\ Len(log) < 2
        /\ stack[1].do = "append" => HeaderTop /\ Len(log) = 1
    BY <1>1, <1>3 DEF HeaderTop, EnvTop, Unwritten
  <2>2. ~Page
    BY <2>1, PageCalls
  <2>3. CASE Falls
    <3>1. Tops(0) /\ thrown'
      BY <2>3 DEF Falls
    <3>2. stack' # <<>> /\ stack'[1] = stack[2]
      BY <1>3, <3>1 DEF Tops, HeaderTop, EnvTop
    <3>3. \/ stack'[1].do = "guard"
          \/ stack'[1].do = "emit" /\ stack'[1].kind = "Env"
      BY <1>3, <3>2, Fields DEF HeaderTop, EnvTop
    <3>. QED BY <3>1, <3>2, <3>3, ThrownOut
  <2>4. CASE Catches
    BY <1>3, <2>4 DEF Catches, Idle, Opening, HeaderTop, EnvTop
  <2>5. CASE Turns
    <3>1. /\ Tops(1) /\ stack'[1].kind = stack[1].kind /\ stack'[1].do \in {"encode", "sanitize"} /\ log' = log
          /\ stack[1].do # "append"
      BY <2>1, <2>5, FirstInto DEF Turns, Idle
    <3>2. Len(stack') = Len(stack) /\ \A i \in 2..Len(stack) : stack'[i] = stack[i]
      BY <3>1 DEF Tops, TypeInv
    <3>. QED BY <1>3, <3>1, <3>2 DEF Opening, HeaderTop, EnvTop, Unwritten
  <2>6. CASE Writes
    <3>1. /\ Tops(1) /\ stack'[1].kind = stack[1].kind /\ stack'[1].do = "append" /\ stack[1].do = "sanitize"
          /\ Len(log') = Len(log) + 1
      BY <2>6, Written1 DEF TypeInv
    <3>2. Len(stack') = Len(stack) /\ (\A i \in 2..Len(stack) : stack'[i] = stack[i])
          /\ DOMAIN stack' = 1..Len(stack')
      BY <3>1 DEF Tops, TypeInv
    <3>3. CASE Len(log) = 0
      BY <1>3, <3>1, <3>2, <3>3 DEF Opening, HeaderTop, EnvTop
    <3>4. CASE Len(log) = 1
      <4>1. EnvTop
        BY <1>3, <3>1, <3>4
      <4>2. \A i \in DOMAIN stack' : i = 1 \/ stack'[i].kind = "none"
        BY <3>2, <4>1, Fields DEF EnvTop
      <4>. QED BY <3>1, <3>4, <4>2 DEF Opening, Opened
    <3>. QED BY <1>3, <3>3, <3>4
  <2>7. CASE Drops
    <3>1. stack[1].do = "append" /\ Tops(0) /\ log' = log
      BY <1>0, <2>1, <2>7 DEF Drops
    <3>2. Len(stack') = 2 /\ stack'[1] = stack[2] /\ stack'[2] = stack[3]
      BY <2>1, <3>1 DEF HeaderTop, Tops
    <3>. QED BY <2>1, <3>1, <3>2, Fields DEF Opening, HeaderTop, EnvTop, Unwritten
  <2>8. ~Counts /\ ~Guards /\ ~GuardFaults /\ ~Digests /\ ~Closes /\ ~EndFaults /\ ~Refuses /\ ~Halts /\ ~Marks
    BY <2>1 DEF Counts, Guards, GuardFaults, Digests, Closes, EndFaults, Refuses, Halts, Marks
  <2>9. ~FirstOf /\ ~Rereads /\ ~Reends /\ ~Refaults /\ ~Rehalts
    BY <2>1 DEF FirstOf, Own, Rereads, Reends, Refaults, Rehalts, Recording, TypeInv
  <2>. QED BY <2>2, <2>3, <2>4, <2>5, <2>6, <2>7, <2>8, <2>9 DEF Move
<1>. QED BY <1>0, <1>2, <1>3 DEF Opening

-----------------------------------------------------------------------------
(* The records and the checkpoints are numbered without a hole.            *)
LEMMA LastSeqCounts == \A l : Log!LastSeq(l) = Cardinality(Log!Numbered(l))
BY DEF Log!LastSeq, Log!Cardinality, Cardinality

LEMMA LogCounts == ASSUME TypeInv
  PROVE /\ Log!LastSeq(log) \in Nat /\ Cardinality(Log!Checkpoints(log)) \in Nat
        /\ IsFiniteSet(Log!Numbered(log)) /\ IsFiniteSet(Log!Checkpoints(log))
        /\ Len(log) + 1 \notin Log!Numbered(log) /\ Len(log) + 1 \notin Log!Checkpoints(log)
<1>1. Len(log) \in Nat /\ DOMAIN log = 1..Len(log) /\ Len(log) + 1 \notin 1..Len(log)
  BY DEF TypeInv
<1>2. IsFiniteSet(1..Len(log))
  BY <1>1, FS_Interval
<1>3. Log!Numbered(log) \subseteq 1..Len(log) /\ Log!Checkpoints(log) \subseteq 1..Len(log)
  BY <1>1 DEF Log!Numbered, Log!Checkpoints
<1>4. IsFiniteSet(Log!Numbered(log)) /\ IsFiniteSet(Log!Checkpoints(log))
  BY <1>2, <1>3, FS_Subset
<1>5. Cardinality(Log!Numbered(log)) \in Nat /\ Cardinality(Log!Checkpoints(log)) \in Nat
  BY <1>4, FS_CardinalityType
<1>6. Len(log) + 1 \notin Log!Numbered(log) /\ Len(log) + 1 \notin Log!Checkpoints(log)
  BY <1>1, <1>3
<1>. QED BY <1>4, <1>5, <1>6, LastSeqCounts

LEMMA LogCountsOn == ASSUME TypeInv, NEW f \in Frames, log' = Append(log, f)
  PROVE /\ Log!LastSeq(log') = Log!LastSeq(log) + IF f.kind \in {"Header", "Env", "End"} THEN 0 ELSE 1
        /\ Cardinality(Log!Checkpoints(log'))
             = Cardinality(Log!Checkpoints(log)) + IF f.kind = "Checkpoint" THEN 1 ELSE 0
<1>1. /\ Len(log) \in Nat /\ DOMAIN log' = DOMAIN log \cup {Len(log) + 1}
      /\ log'[Len(log) + 1] = f /\ \A i \in DOMAIN log : log'[i] = log[i]
  BY DEF TypeInv
<1>2. Log!Numbered(log') = IF f.kind \in {"Header", "Env", "End"} THEN Log!Numbered(log)
                           ELSE Log!Numbered(log) \cup {Len(log) + 1}
  BY <1>1 DEF Log!Numbered
<1>3. Log!Checkpoints(log') = IF f.kind = "Checkpoint" THEN Log!Checkpoints(log) \cup {Len(log) + 1}
                              ELSE Log!Checkpoints(log)
  BY <1>1 DEF Log!Checkpoints
<1>4. f.kind \notin {"Header", "Env", "End"}
      => Cardinality(Log!Numbered(log')) = Cardinality(Log!Numbered(log)) + 1
  BY <1>2, LogCounts, FS_AddElement
<1>5. f.kind = "Checkpoint"
      => Cardinality(Log!Checkpoints(log')) = Cardinality(Log!Checkpoints(log)) + 1
  BY <1>3, LogCounts, FS_AddElement
<1>6. Cardinality(Log!Numbered(log)) \in Nat /\ Cardinality(Log!Checkpoints(log)) \in Nat
  BY LogCounts, LastSeqCounts
<1>7. Cardinality(Log!Numbered(log'))
        = Cardinality(Log!Numbered(log)) + IF f.kind \in {"Header", "Env", "End"} THEN 0 ELSE 1
  BY <1>2, <1>4, <1>6
<1>8. Cardinality(Log!Checkpoints(log'))
        = Cardinality(Log!Checkpoints(log)) + IF f.kind = "Checkpoint" THEN 1 ELSE 0
  BY <1>3, <1>5, <1>6
<1>. QED BY <1>7, <1>8, LastSeqCounts

LEMMA DescribeMoves == ASSUME TypeInv, TypeInv', Throwing, Faulting, Move,
    NEW i \in DOMAIN stack', stack'[i].do = "describe"
  PROVE GuardFaults \/ Refaults
<1> SUFFICES ASSUME ~GuardFaults, ~Refaults PROVE FALSE
  OBVIOUS
<1>0. /\ stack # <<>> => 1 \in DOMAIN stack
      /\ thrown \/ Recording => (stack # <<>> => stack[1].do # "describe")
      /\ \A j \in DOMAIN stack : stack[j].do = "describe" => j = 1
  BY DEF TypeInv, Throwing, Faulting, Recording, Callable, Records
<1>1. ASSUME NEW m \in 0..4, Tops(m), \A k \in 1..m : stack'[k].do # "describe" PROVE FALSE
  <2>1. CASE i > m
    <3>1. i - m + 1 \in DOMAIN stack /\ i - m + 1 > 1 /\ stack[i - m + 1].do = "describe"
      BY <1>1, <2>1, Below
    <3>. QED BY <1>0, <3>1
  <2>2. CASE i <= m
    <3>1. i \in 1..m
      BY <2>2 DEF TypeInv
    <3>. QED BY <1>1, <3>1
  <2>. QED BY <2>1, <2>2 DEF TypeInv
<1>2. CASE Drops \/ Counts \/ Falls \/ Guards \/ Marks
  <2>1. Tops(0)
    BY <1>2 DEF Drops, Counts, Falls, Guards, Marks
  <2>. QED BY <1>1, <2>1
<1>3. CASE Turns
  <2>1. Tops(1) /\ stack # <<>>
    BY <1>3 DEF Turns, Tops
  <2>2. stack'[1].do # "describe"
    BY <1>3, <2>1, Fields, FirstInto DEF Turns, TypeInv
  <2>. QED BY <1>1, <2>1, <2>2
<1>4. CASE Writes
  BY <1>1, <1>4, FirstInto DEF Writes, TypeInv, Tops
<1>5. CASE Closes \/ Refuses \/ Halts
  BY <1>1, <1>5, Fields DEF Closes, Refuses, Halts
<1>6. CASE Digests \/ EndFaults
  BY <1>1, <1>6, Fields DEF Digests, EndFaults
<1>7. CASE Rereads \/ Reends
  BY <1>0, <1>1, <1>7, Fields DEF Rereads, Reends, Called
<1>8. CASE FirstOf
  <2>1. Into(stack[1], "encode").do = "encode"
    BY <1>8, FirstInto DEF FirstOf, TypeInv
  <2>2. Emit("Loading").do = "emit" /\ Item("emit", "DocTask", 0, running).do = "emit"
    BY Fields
  <2>. QED BY <1>1, <1>8, <2>1, <2>2 DEF FirstOf
<1>9. CASE Catches
  BY <1>0, <1>9 DEF Catches
<1>10. CASE Rehalts
  BY <1>0, <1>10 DEF Rehalts, Called
<1>11. CASE Page
  BY <1>11, PageItems
<1>. QED BY <1>2, <1>3, <1>4, <1>5, <1>6, <1>7, <1>8, <1>9, <1>10, <1>11 DEF Move

(* The next number is one more than the last in the log.                   *)
LEMMA SequencedKept == ASSUME TypeInv, TypeInv', ShapeInv, Throwing, Faulting, Sequenced, Move
  PROVE Sequenced'
<1>1. CASE Recording'
  <2>1. Recording
    BY <1>1, StateMoves
  <2>2. CASE Writes
    <3>1. PICK f \in Frames :
            /\ log' = Append(log, f) /\ f.kind = stack[1].kind /\ stack[1] \in Items
            /\ nextSeq' = IF Numbers(stack[1]) THEN nextSeq + 1 ELSE nextSeq
      BY <2>2, Written1
    <3>2. Numbers(stack[1]) <=> f.kind \notin {"Header", "Env", "End"}
      BY <3>1 DEF Numbers, Unnumbered, Items, Kinds
    <3>3. nextSeq = Log!LastSeq(log) + 1 /\ nextSeq' = Log!LastSeq(log') + 1
      BY <2>1, <3>1, <3>2, LogCounts, LogCountsOn DEF Sequenced
    <3>. QED BY <3>3 DEF Sequenced
  <2>3. CASE ~Writes
    <3>1. UNCHANGED <<nextSeq, log>>
      <4>1. CASE Drops
        <5>1. stack[1].do # "refuse"
          BY <2>1, <4>1, Quieter DEF Drops, Tops, TypeInv, FirstOnly
        <5>. QED BY <4>1, <5>1 DEF Drops
      <4>2. ~EndFaults /\ ~Refuses /\ ~Halts
        BY <2>1, Quieter DEF EndFaults, Refuses, Halts, Tops, FirstOnly, TypeInv
      <4>3. ~GuardFaults /\ ~Closes /\ ~Refaults /\ ~Rehalts
        BY <1>1 DEF GuardFaults, Closes, Refaults, Rehalts, Recording
      <4>4. CASE Page
        BY <4>4 DEF Page, PageReads, TaskBegins, ScriptRuns, ScriptSettles, Parsed, Dispatches,
           PageEnds, Halt, SeamThrows, recorder
      <4>. QED BY <2>3, <4>1, <4>2, <4>3, <4>4 DEF Move, Counts, Falls, Catches, Guards, FirstOf, Turns,
           Digests, Rereads, Reends, Marks, Idle, recorder
    <3>. QED BY <2>1, <3>1 DEF Sequenced
  <2>. QED BY <2>2, <2>3
<1>2. CASE \E i \in DOMAIN stack' : stack'[i].do = "describe"
  <2>1. GuardFaults \/ Refaults
    BY <1>2, DescribeMoves
  <2>2. Recording /\ UNCHANGED <<nextSeq, log>>
    BY <2>1 DEF GuardFaults, Refaults, Called
  <2>. QED BY <2>2 DEF Sequenced
<1>. QED BY <1>1, <1>2 DEF Sequenced

(* Only a checkpoint's own record precedes its count.                      *)
LEMMA AfterCheckpoint == ASSUME NEW x \in Items, NEW y, Follows(x, y), y.do = "checkpointed",
    (x.kind = "none") <=> (x.do \notin Records)
  PROVE x.kind = "Checkpoint"
BY DEF Items, Dos, Kinds, Outside, Records, Follows, Callable, Emit, Item

Appends(x) == x.do = "append" /\ x.kind = "Checkpoint"
(* The checkpoints in the log are those counted, and the one that is       *)
(* written and not yet counted.                                            *)
LEMMA WrittenTops == ASSUME TypeInv, TypeInv', NEW m \in 0..4, Tops(m),
    Appends(stack[1]) <=> \E i \in 1..m : Appends(stack'[i]),
    stack[1].do # "checkpointed", stack' # <<>> => stack'[1].do # "checkpointed"
  PROVE Written' <=> Written
<1>1. /\ Len(stack) \in Nat /\ Len(stack) >= 1 /\ DOMAIN stack = 1..Len(stack) /\ DOMAIN stack' = 1..Len(stack')
      /\ Len(stack') = Len(stack) + m - 1 /\ 1 \in DOMAIN stack /\ 1..m \subseteq DOMAIN stack'
  BY DEF TypeInv, Tops
<1>2. ASSUME NEW i \in DOMAIN stack', Appends(stack'[i]) PROVE \E j \in DOMAIN stack : Appends(stack[j])
  <2>1. CASE i > m
    BY <1>2, <2>1, Below
  <2>2. CASE i <= m
    <3>1. i \in 1..m
      BY <1>1, <2>2
    <3>. QED BY <1>1, <1>2, <3>1
  <2>. QED BY <1>1, <2>1, <2>2
<1>3. ASSUME NEW j \in DOMAIN stack, Appends(stack[j]) PROVE \E i \in DOMAIN stack' : Appends(stack'[i])
  <2>1. CASE j > 1
    BY <1>3, <2>1, Above
  <2>2. CASE j = 1
    BY <1>1, <1>3, <2>2
  <2>. QED BY <1>1, <2>1, <2>2
<1>. QED BY <1>2, <1>3 DEF Written, Appends

LEMMA CountedKept == ASSUME TypeInv, TypeInv', ShapeInv, ShapeInv', Throwing, Faulting, Appending, Counted, Move
  PROVE Counted'
<1> SUFFICES ASSUME Recording', ~Doomed'
             PROVE Cardinality(Log!Checkpoints(log')) = ordinal' + IF Written' THEN 1 ELSE 0
  BY DEF Counted
<1>0. Recording /\ ~Doomed /\ Cardinality(Log!Checkpoints(log)) = ordinal + IF Written THEN 1 ELSE 0
  BY StateMoves, DoomedKept DEF Counted
<1>1. /\ stack # <<>> => stack[1] \in Items /\ 1 \in DOMAIN stack /\ Len(stack) \in Nat /\ Len(stack) >= 1
      /\ stack # <<>> => (stack[1].kind = "none" <=> stack[1].do \notin Records)
  BY FirstItem
<1>2. ASSUME log' = log, ordinal' = ordinal, Written' <=> Written
      PROVE Cardinality(Log!Checkpoints(log')) = ordinal' + IF Written' THEN 1 ELSE 0
  BY <1>0, <1>2
<1>3. ASSUME Tops(0), stack[1].kind # "Checkpoint" PROVE stack' # <<>> => stack'[1].do # "checkpointed"
  <2>1. CASE Len(stack) = 1
    BY <2>1, <1>3 DEF Tops
  <2>2. CASE Len(stack) # 1
    <3>1. Follows(stack[1], stack[2]) /\ stack'[1] = stack[2] /\ stack[1] \in Items
          /\ (stack[1].kind = "none" <=> stack[1].do \notin Records)
      BY <1>3, <2>2, FirstItem DEF Tops, TypeInv
    <3>. QED BY <1>3, <3>1, AfterCheckpoint
  <2>. QED BY <2>1, <2>2
<1>4. ASSUME Tops(0), stack[1].kind = "Checkpoint"
      PROVE stack' # <<>> /\ stack'[1].do = "checkpointed"
  <2>1. stack # <<>> /\ stack[1].do \in Records
    BY <1>1, <1>4 DEF Tops
  <2>2. ~Last(stack[1])
    BY <2>1 DEF Last, Records
  <2>3. Len(stack) >= 2 /\ Follows(stack[1], stack[2])
    BY <2>1, <2>2, FirstItem
  <2>4. stack' # <<>> /\ stack'[1] = stack[2]
    BY <1>4, <2>3 DEF Tops, TypeInv
  <2>. QED BY <1>4, <2>3, <2>4 DEF Follows
<1>5. CASE Drops
  <2>1. Tops(0) /\ log' = log /\ ordinal' = ordinal /\ stack[1].do \notin {"checkpointed", "emit", "encode", "sanitize"}
    BY <1>0, <1>5 DEF Drops
  <2>2. CASE stack[1].kind = "Checkpoint"
    <3>1. Appends(stack[1]) /\ stack # <<>>
      BY <1>1, <2>1, <2>2 DEF Records, Appends, Tops
    <3>. QED BY <1>1, <1>2, <1>4, <2>1, <2>2, <3>1 DEF Written, Appends
  <2>3. CASE stack[1].kind # "Checkpoint"
    BY <1>2, <1>3, <2>1, <2>3, WrittenTops DEF Appends
  <2>. QED BY <2>2, <2>3
<1>6. CASE Counts
  <2>1. /\ Tops(0) /\ log' = log /\ ordinal' = ordinal + 1 /\ stack[1].do = "checkpointed" /\ stack # <<>>
    BY <1>0, <1>6 DEF Counts, Tops
  <2>2. ASSUME NEW i \in DOMAIN stack' PROVE stack'[i].do # "append"
    <3>1. i - 0 + 1 \in DOMAIN stack /\ i - 0 + 1 > 1 /\ stack'[i] = stack[i - 0 + 1]
      <4>1. i > 0
        BY DEF TypeInv
      <4>. QED BY <2>1, <4>1, Below
    <3>2. i - 0 + 1 \in Nat /\ 1 \in 1..(i - 0 + 1) - 1
      BY <3>1 DEF TypeInv
    <3>. QED BY <2>1, <3>1, <3>2 DEF Appending, Records
  <2>3. stack' # <<>> => stack'[1].do # "checkpointed"
    BY <1>1, <1>3, <2>1 DEF Records
  <2>4. ~Written' /\ Written
    BY <2>1, <2>2, <2>3 DEF Written
  <2>. QED BY <1>0, <2>1, <2>4 DEF TypeInv, TypeOK
<1>7. CASE Falls
  <2>1. Tops(0) /\ log' = log /\ ordinal' = ordinal /\ thrown' /\ stack # <<>>
    BY <1>7 DEF Falls, Idle, recorder, Tops
  <2>2. CASE stack[1].kind = "Checkpoint"
    BY <1>4, <2>1, <2>2, ThrownOut
  <2>3. CASE stack[1].do = "checkpointed"
    <3>1. Len(stack) >= 2 /\ Follows(stack[1], stack[2])
      BY <2>1, <2>3, FirstItem DEF Last
    <3>2. stack' # <<>> /\ stack'[1] = stack[2]
      BY <2>1, <3>1 DEF Tops, TypeInv
    <3>. QED BY <2>1, <2>3, <3>1, <3>2, ThrownOut DEF Follows
  <2>4. CASE stack[1].kind # "Checkpoint" /\ stack[1].do # "checkpointed"
    BY <1>2, <1>3, <2>1, <2>4, WrittenTops DEF Appends
  <2>. QED BY <2>2, <2>3, <2>4
<1>8. CASE Writes
  <2>1. PICK f \in Frames :
          /\ log' = Append(log, f) /\ f.kind = stack[1].kind /\ Tops(1) /\ stack'[1].do = "append"
          /\ stack'[1].kind = stack[1].kind /\ ordinal' = ordinal /\ stack[1].do = "sanitize" /\ 1 \in DOMAIN stack
    BY <1>8, Written1
  <2>2. CASE f.kind = "Checkpoint"
    <3>1. Written'
      BY <2>1, <2>2 DEF Written, Tops, TypeInv
    <3>2. ASSUME NEW i \in DOMAIN stack, Appends(stack[i]) PROVE FALSE
      <4>1. i # 1 /\ i \in Nat /\ i >= 1
        BY <2>1, <3>2 DEF Appends, TypeInv
      <4>2. 1 \in 1..i - 1
        BY <4>1
      <4>. QED BY <2>1, <2>2, <3>2, <4>2 DEF Appending, Appends
    <3>3. ~Written
      BY <2>1, <3>2 DEF Written, Appends
    <3>4. Cardinality(Log!Checkpoints(log')) = Cardinality(Log!Checkpoints(log)) + 1
      BY <2>1, <2>2, LogCountsOn
    <3>. QED BY <1>0, <2>1, <3>1, <3>3, <3>4 DEF TypeInv, TypeOK
  <2>3. CASE f.kind # "Checkpoint"
    <3>1. Cardinality(Log!Checkpoints(log')) = Cardinality(Log!Checkpoints(log))
      BY <2>1, <2>3, LogCountsOn, LogCounts
    <3>2. Written' <=> Written
      BY <2>1, <2>3, WrittenTops DEF Appends
    <3>. QED BY <1>0, <2>1, <3>1, <3>2
  <2>. QED BY <2>2, <2>3
<1>9. CASE Turns
  <2>1. /\ Tops(1) /\ log' = log /\ ordinal' = ordinal /\ stack # <<>>
        /\ stack[1].do \notin {"append", "checkpointed"}
    BY <1>9 DEF Turns, Idle, recorder, Tops
  <2>2. stack'[1].do \notin {"append", "checkpointed"}
    BY <1>1, <1>9, <2>1, Fields, FirstInto DEF Turns
  <2>. QED BY <1>2, <2>1, <2>2, WrittenTops DEF Appends
<1>10. CASE FirstOf
  <2>1. /\ log' = log /\ ordinal' = ordinal /\ stack # <<>> /\ stack[1].do = "emit"
    BY <1>10 DEF FirstOf, recorder
  <2>2. Into(stack[1], "encode").do = "encode" /\ Emit("Loading").do = "emit"
        /\ Item("emit", "DocTask", 0, running).do = "emit"
    BY <1>1, <2>1, Fields, FirstInto
  <2>3. Written' <=> Written
    BY <1>10, <2>1, <2>2, WrittenTops DEF Appends, FirstOf
  <2>. QED BY <1>2, <2>1, <2>3
<1>11. CASE Digests
  <2>1. /\ Tops(2) /\ log' = log /\ ordinal' = ordinal /\ stack[1].do = "digest" /\ stack'[1].do = "emit"
        /\ stack'[2].do = "checkpointed"
    BY <1>11, Fields DEF Digests, Idle, recorder
  <2>. QED BY <1>2, <2>1, WrittenTops DEF Appends
<1>12. CASE Rereads
  <2>1. /\ Tops(2) /\ log' = log /\ ordinal' = ordinal /\ stack[1].do # "checkpointed" /\ stack'[1].do = "emit"
        /\ stack'[2] = stack[1]
    BY <1>12, Fields DEF Rereads, Idle, recorder, Called, Outside
  <2>. QED BY <1>2, <2>1, WrittenTops DEF Appends
<1>13. CASE Reends
  <2>1. /\ Tops(4) /\ log' = log /\ ordinal' = ordinal /\ stack[1].do # "checkpointed" /\ stack'[1].do = "final"
        /\ stack'[2].do = "encodeEnd" /\ stack'[3].do = "guard" /\ stack'[4] = stack[1]
    BY <1>13, Fields DEF Reends, Idle, recorder, Called, Outside
  <2>2. \A i \in 1..4 : i = 1 \/ i = 2 \/ i = 3 \/ i = 4
    OBVIOUS
  <2>. QED BY <1>2, <2>1, <2>2, WrittenTops DEF Appends
<1>14. CASE Catches
  BY <1>2, <1>14 DEF Catches, Idle, recorder, Written
<1>15. CASE Marks
  <2>1. Tops(0) /\ log' = log /\ ordinal' = ordinal /\ stack[1].do = "mark" /\ stack' = <<>>
    BY <1>15, MarkLast DEF Marks, recorder, Tops, TypeInv
  <2>. QED BY <1>2, <2>1, WrittenTops DEF Appends
<1>16. CASE Page
  <2>1. log' = log /\ ordinal' = ordinal
    BY <1>16 DEF Page, PageReads, TaskBegins, ScriptRuns, ScriptSettles, Parsed, Dispatches,
       PageEnds, Halt, SeamThrows, recorder
  <2>2. ~Written
    BY <1>16, PageCalls DEF Written
  <2>3. stack' # <<>> => 1 \in DOMAIN stack'
    BY DEF TypeInv
  <2>4. ~Written'
    BY <1>16, <2>3, PageItems DEF Written
  <2>. QED BY <1>2, <2>1, <2>2, <2>4
<1>17. ~Guards
  BY <1>0 DEF Guards, Idle, recorder, Recording, Faulting
<1>18. ~EndFaults /\ ~Refuses /\ ~Halts
  BY <1>0, <1>1, Quieter DEF EndFaults, Refuses, Halts, Tops, FirstOnly
<1>19. ~GuardFaults /\ ~Closes /\ ~Refaults /\ ~Rehalts
  BY DEF GuardFaults, Closes, Refaults, Rehalts, Recording
<1>. QED BY <1>5, <1>6, <1>7, <1>8, <1>9, <1>10, <1>11, <1>12, <1>13, <1>14, <1>15, <1>16, <1>17, <1>18,
            <1>19 DEF Move

LEMMA OrderedTops == ASSUME TypeInv, TypeInv', Ordered, Recording, NEW m \in 0..4, Tops(m), ordinal' = ordinal,
    Doomed => Doomed',
    \A i \in 1..m : ToCheck(stack'[i]) => stack'[i].n = ordinal,
    IsEnd(stack[1]) => Doomed' \/ \E k \in 1..m : IsEnd(stack'[k])
  PROVE Ordered'
<1> SUFFICES ASSUME NEW i \in DOMAIN stack', ToCheck(stack'[i])
             PROVE stack'[i].n = ordinal \/ Doomed' \/ \E j \in 1..i - 1 : IsEnd(stack'[j])
  BY DEF Ordered
<1>1. i \in Nat /\ i >= 1
  BY DEF TypeInv
<1>2. CASE i <= m
  <2>1. i \in 1..m
    BY <1>1, <1>2
  <2>. QED BY <2>1
<1>3. CASE i > m
  <2>1. i - m + 1 \in DOMAIN stack /\ i - m + 1 > 1 /\ stack'[i] = stack[i - m + 1]
    BY <1>3, Below
  <2>2. CASE stack[i - m + 1].n = ordinal \/ Doomed
    BY <2>1, <2>2
  <2>3. CASE \E j \in 1..(i - m + 1) - 1 : IsEnd(stack[j])
    <3>1. PICK j \in 1..(i - m + 1) - 1 : IsEnd(stack[j])
      BY <2>3
    <3>2. j \in DOMAIN stack /\ j <= i - m /\ j >= 1 /\ j \in Nat
      BY <1>1, <2>1, <3>1 DEF TypeInv
    <3>3. CASE j > 1
      <4>1. j + m - 1 \in DOMAIN stack' /\ stack'[j + m - 1] = stack[j]
        BY <3>2, <3>3, Above
      <4>2. j + m - 1 \in 1..i - 1
        BY <1>1, <3>2, <3>3
      <4>. QED BY <3>1, <4>1, <4>2
    <3>4. CASE j = 1
      <4>1. \A k \in 1..m : k \in 1..i - 1
        BY <1>1, <1>3
      <4>. QED BY <3>1, <3>4, <4>1
    <3>. QED BY <3>2, <3>3, <3>4
  <2>4. ToCheck(stack[i - m + 1])
    BY <2>1
  <2>. QED BY <2>1, <2>2, <2>3, <2>4 DEF Ordered
<1>. QED BY <1>1, <1>2, <1>3

(* A checkpoint that is still to be written has the number that is next.   *)
LEMMA OrderedKept == ASSUME TypeInv, TypeInv', ShapeInv, ShapeInv', Bottom, Throwing, Faulting, Ordered, Move
  PROVE Ordered'
<1> SUFFICES ASSUME Recording' PROVE Ordered'
  BY DEF Ordered
<1>0. Recording /\ (Doomed => Doomed')
  BY StateMoves, DoomedKept
<1>1. /\ stack # <<>> => stack[1] \in Items /\ 1 \in DOMAIN stack /\ Len(stack) \in Nat /\ Len(stack) >= 1
      /\ stack # <<>> => (stack[1].kind = "none" <=> stack[1].do \notin Records)
  BY FirstItem
<1>2. ASSUME stack # <<>>, ToCheck(stack[1]), ~thrown PROVE stack[1].n = ordinal
  <2>1. ~Doomed /\ 1 \in DOMAIN stack
    BY <1>1, <1>2 DEF Doomed
  <2>. QED BY <1>0, <1>2, <2>1 DEF Ordered
<1>3. CASE Drops \/ Marks
  <2>1. Tops(0) /\ ordinal' = ordinal /\ ~IsEnd(stack[1])
    BY <1>0, <1>3 DEF Drops, Marks, recorder, IsEnd
  <2>. QED BY <1>0, <2>1, OrderedTops
<1>4. CASE Counts
  <2>1. Tops(0) /\ stack[1].do = "checkpointed" /\ stack # <<>> /\ Len(stack') = Len(stack) - 1
    BY <1>4 DEF Counts, Tops
  <2>2. Len(stack) >= 2 /\ Follows(stack[1], stack[2])
    BY <2>1, FirstItem DEF Last
  <2>3. /\ stack'[1] = stack[2] /\ Len(stack') \in Nat /\ Len(stack') >= 1 /\ DOMAIN stack' = 1..Len(stack')
        /\ 2 \in DOMAIN stack
    BY <2>1, <2>2 DEF Tops, TypeInv
  <2>4. CASE stack[2].do = "encodeEnd"
    <3>1. ASSUME NEW i \in DOMAIN stack', ToCheck(stack'[i]) PROVE \E j \in 1..i - 1 : IsEnd(stack'[j])
      <4>1. i # 1 /\ i \in Nat /\ i >= 1
        BY <2>3, <2>4, <3>1 DEF ToCheck, Unwritten
      <4>2. 1 \in 1..i - 1
        BY <4>1
      <4>. QED BY <2>3, <2>4, <4>2 DEF IsEnd
    <3>. QED BY <3>1 DEF Ordered
  <2>5. CASE stack[2].kind = "Task"
    <3>1. Len(stack) = 3
      BY <2>3, <2>5, <1>1, <2>1 DEF Bottom
    <3>2. stack'[2] = stack[3] /\ Last(stack[3]) /\ 3 \in DOMAIN stack
      BY <2>1, <2>3, <3>1 DEF ShapeInv, Shape, Tops
    <3>3. ~ToCheck(stack'[1]) /\ ~ToCheck(stack'[2])
      BY <2>3, <2>5, <3>2 DEF ToCheck, Unwritten, Last
    <3>4. \A i \in DOMAIN stack' : i = 1 \/ i = 2
      BY <2>1, <2>3, <3>1
    <3>. QED BY <3>3, <3>4 DEF Ordered
  <2>. QED BY <2>1, <2>2, <2>4, <2>5 DEF Follows
<1>5. CASE Falls
  <2>1. Tops(0) /\ ordinal' = ordinal /\ thrown' /\ stack # <<>>
    BY <1>5 DEF Falls, Idle, recorder, Tops
  <2>2. IsEnd(stack[1]) => Doomed'
    <3>1. CASE IsEnd(stack[1])
      <4>1. Len(stack) >= 2 /\ Follows(stack[1], stack[2])
        BY <2>1, <3>1, FirstItem DEF Last, IsEnd
      <4>2. stack' # <<>> /\ stack'[1] = stack[2]
        BY <2>1, <4>1 DEF Tops, TypeInv
      <4>. QED BY <2>1, <3>1, <4>1, <4>2, ThrownOut DEF Follows, IsEnd
    <3>. QED BY <3>1
  <2>. QED BY <1>0, <2>1, <2>2, OrderedTops
<1>6. CASE Turns
  <2>1. Tops(1) /\ ordinal' = ordinal /\ stack # <<>> /\ ~thrown
    BY <1>6 DEF Turns, Idle, recorder, Tops, Calm
  <2>2. CASE stack[1].do \in {"emit", "encode"}
    <3>1. stack'[1].kind = stack[1].kind /\ stack'[1].n = stack[1].n /\ ~IsEnd(stack[1])
          /\ stack'[1].do \in {"encode", "sanitize"}
      BY <1>1, <1>6, <2>1, <2>2, FirstInto DEF Turns, IsEnd
    <3>2. ToCheck(stack'[1]) => stack'[1].n = ordinal
      BY <1>2, <2>1, <2>2, <3>1 DEF ToCheck, Unwritten
    <3>. QED BY <1>0, <2>1, <3>1, <3>2, OrderedTops
  <2>3. CASE stack[1].do \notin {"emit", "encode"}
    <3>1. ~ToCheck(stack'[1]) /\ (IsEnd(stack[1]) => IsEnd(stack'[1]))
      BY <1>6, <2>3, Fields DEF Turns, ToCheck, IsEnd
    <3>. QED BY <1>0, <2>1, <3>1, OrderedTops
  <2>. QED BY <2>2, <2>3
<1>7. CASE Writes
  <2>1. Tops(1) /\ ordinal' = ordinal /\ stack'[1].do = "append" /\ stack[1].do = "sanitize"
    BY <1>7, Written1
  <2>. QED BY <1>0, <2>1, OrderedTops DEF ToCheck, Unwritten, IsEnd
<1>8. CASE FirstOf
  <2>1. ordinal' = ordinal /\ stack # <<>> /\ stack[1].do = "emit" /\ ~thrown
    BY <1>8 DEF FirstOf, recorder, Calm
  <2>2. /\ ~ToCheck(Emit("Loading")) /\ ~ToCheck(Item("emit", "DocTask", 0, running))
        /\ ToCheck(Into(stack[1], "encode")) => Into(stack[1], "encode").n = ordinal
        /\ ~IsEnd(stack[1])
    BY <1>1, <1>2, <2>1, Fields, FirstInto DEF ToCheck, Unwritten, IsEnd
  <2>3. CASE Tops(2) /\ stack'[1] = Item("emit", "DocTask", 0, running) /\ stack'[2] = Into(stack[1], "encode")
    BY <1>0, <2>1, <2>2, <2>3, OrderedTops
  <2>4. CASE Tops(3) /\ stack'[1] = Emit("Loading") /\ stack'[2] = Item("emit", "DocTask", 0, running)
             /\ stack'[3] = Into(stack[1], "encode")
    BY <1>0, <2>1, <2>2, <2>4, OrderedTops
  <2>. QED BY <1>8, <2>3, <2>4 DEF FirstOf
<1>9. CASE Digests
  <2>1. /\ Tops(2) /\ ordinal' = ordinal /\ stack[1].do = "digest" /\ stack'[1].n = ordinal
        /\ stack'[2].do = "checkpointed"
    BY <1>9, Fields DEF Digests, Idle, recorder
  <2>2. ~ToCheck(stack'[2]) /\ ~IsEnd(stack[1])
    BY <2>1 DEF ToCheck, Unwritten, IsEnd
  <2>. QED BY <1>0, <2>1, <2>2, OrderedTops
<1>10. CASE Rereads
  <2>1. /\ Tops(2) /\ ordinal' = ordinal /\ ~thrown /\ stack # <<>> /\ stack'[1].kind = "Read"
        /\ stack'[2] = stack[1]
    BY <1>10, Fields DEF Rereads, Idle, recorder, Called, Calm
  <2>2. ~ToCheck(stack'[1]) /\ (ToCheck(stack'[2]) => stack'[2].n = ordinal)
    BY <1>2, <2>1 DEF ToCheck
  <2>. QED BY <1>0, <2>1, <2>2, OrderedTops
<1>11. CASE Reends
  <2>1. /\ Tops(4) /\ ordinal' = ordinal /\ ~thrown /\ stack # <<>> /\ stack'[1].do = "final"
        /\ stack'[2].do = "encodeEnd" /\ stack'[3].do = "guard" /\ stack'[4] = stack[1]
    BY <1>11, Fields DEF Reends, Idle, recorder, Called, Calm
  <2>2. /\ ~ToCheck(stack'[1]) /\ ~ToCheck(stack'[2]) /\ ~ToCheck(stack'[3])
        /\ (ToCheck(stack'[4]) => stack'[4].n = ordinal) /\ IsEnd(stack'[2])
    BY <1>2, <2>1 DEF ToCheck, Unwritten, IsEnd
  <2>3. \A i \in 1..4 : i = 1 \/ i = 2 \/ i = 3 \/ i = 4
    OBVIOUS
  <2>4. 2 \in 1..4 /\ 4 \in 0..4
    OBVIOUS
  <2>. QED BY <1>0, <2>1, <2>2, <2>3, <2>4, OrderedTops
<1>12. CASE Catches
  <2>1. stack' = stack /\ ordinal' = ordinal /\ stack[1].do \in Outside /\ stack # <<>>
    BY <1>12 DEF Catches, Idle, recorder
  <2>2. ~Doomed
    <3>1. ASSUME NEW g \in DOMAIN stack PROVE 1 \in 1..g
      BY DEF TypeInv
    <3>. QED BY <2>1, <3>1 DEF Doomed
  <2>. QED BY <1>0, <2>1, <2>2 DEF Ordered
<1>13. CASE Page
  BY <1>13, PageItems DEF Ordered, ToCheck
<1>14. ~Guards
  BY <1>0 DEF Guards, Idle, recorder, Recording, Faulting
<1>15. ~EndFaults /\ ~Refuses /\ ~Halts
  BY <1>0, <1>1, Quieter DEF EndFaults, Refuses, Halts, Tops, FirstOnly
<1>16. ~GuardFaults /\ ~Closes /\ ~Refaults /\ ~Rehalts
  BY DEF GuardFaults, Closes, Refaults, Rehalts, Recording
<1>. QED BY <1>3, <1>4, <1>5, <1>6, <1>7, <1>8, <1>9, <1>10, <1>11, <1>12, <1>13, <1>14, <1>15, <1>16 DEF Move

-----------------------------------------------------------------------------
(* The DocTasks of the scripts: written once, ahead of the script's own    *)
(* records.                                                                *)
LEMMA ToldMoves == ASSUME TypeInv, ShapeInv, Move, NEW s
  PROVE /\ Told(s) => Told(s)'
        /\ Told(s)' => Told(s) \/ (Writes /\ stack[1].kind = "DocTask" /\ stack[1].script = s)
        /\ Writes /\ stack[1].kind = "DocTask" /\ stack[1].script = s => Told(s)'
<1>1. CASE Writes
  <2>1. PICK f \in Frames : log' = Append(log, f) /\ f.kind = stack[1].kind /\ f.script = stack[1].script
    BY <1>1, Written1
  <2>2. /\ DOMAIN log' = DOMAIN log \cup {Len(log) + 1}
        /\ log'[Len(log) + 1] = f /\ \A i \in DOMAIN log : log'[i] = log[i]
    BY <2>1 DEF TypeInv
  <2>. QED BY <1>1, <2>1, <2>2 DEF Told, ToldIn
<1>2. CASE log' = log /\ ~Writes
  BY <1>2 DEF Told, ToldIn
<1>3. CASE ~Writes /\ \E f \in Frames : f.kind \in {"End", "Fault"} /\ log' = Append(log, f)
  BY <1>3 DEF Told, ToldIn, TypeInv
<1>. QED BY <1>1, <1>2, <1>3, LogMoves

LEMMA TellingTops == ASSUME TypeInv, TypeInv', NEW m \in 0..4, Tops(m), NEW s
  PROVE /\ (\A i \in 1..m : Teller(stack'[i]) /\ stack'[i].script = s => Teller(stack[1]) /\ stack[1].script = s)
             => (Telling(s)' => Telling(s))
        /\ (Teller(stack[1]) /\ stack[1].script = s => \E i \in 1..m : Teller(stack'[i]) /\ stack'[i].script = s)
             => (Telling(s) => Telling(s)')
<1>1. /\ Len(stack) \in Nat /\ Len(stack) >= 1 /\ DOMAIN stack = 1..Len(stack) /\ DOMAIN stack' = 1..Len(stack')
      /\ Len(stack') = Len(stack) + m - 1 /\ 1 \in DOMAIN stack /\ 1..m \subseteq DOMAIN stack'
  BY DEF TypeInv, Tops
<1>2. ASSUME NEW i \in DOMAIN stack', Teller(stack'[i]), stack'[i].script = s,
             \A k \in 1..m : Teller(stack'[k]) /\ stack'[k].script = s => Teller(stack[1]) /\ stack[1].script = s
      PROVE Telling(s)
  <2>1. CASE i > m
    BY <1>2, <2>1, Below DEF Telling
  <2>2. CASE i <= m
    <3>1. i \in 1..m
      BY <1>1, <2>2
    <3>. QED BY <1>1, <1>2, <3>1 DEF Telling
  <2>. QED BY <1>1, <2>1, <2>2
<1>3. ASSUME NEW j \in DOMAIN stack, Teller(stack[j]), stack[j].script = s,
             Teller(stack[1]) /\ stack[1].script = s => \E k \in 1..m : Teller(stack'[k]) /\ stack'[k].script = s
      PROVE \E k \in DOMAIN stack' : Teller(stack'[k]) /\ stack'[k].script = s
  <2>1. CASE j > 1
    BY <1>3, <2>1, Above
  <2>2. CASE j = 1
    BY <1>1, <1>3, <2>2
  <2>. QED BY <1>1, <2>1, <2>2
<1>. QED BY <1>2, <1>3 DEF Telling, Teller, Unwritten

(* Which DocTasks are still to be written, after each kind of move.        *)
LEMMA TellingMoves == ASSUME TypeInv, TypeInv', ShapeInv, Move, ~Page, ~FirstOf, NEW s
  PROVE /\ UNCHANGED <<running, announced, settled>>
        /\ Telling(s)' => Telling(s)
        /\ Telling(s) => \/ Telling(s)'
                         \/ /\ stack # <<>> /\ Teller(stack[1]) /\ stack[1].script = s
                            /\ Drops \/ Falls \/ Writes
<1>0. stack # <<>> => stack[1] \in Items /\ 1 \in DOMAIN stack
  BY FirstItem
<1>a. UNCHANGED <<running, announced, settled>>
  BY DEF Move, Drops, Counts, Falls, Catches, Guards, GuardFaults, Turns, Writes, Digests, Closes,
     EndFaults, Refuses, Halts, Rereads, Reends, Refaults, Rehalts, Marks, Idle, document
<1>1. CASE Drops \/ Falls
  <2>1. Tops(0) /\ stack # <<>>
    BY <1>1 DEF Drops, Falls, Tops
  <2>. QED BY <1>a, <1>1, <2>1, TellingTops
<1>2. CASE Counts \/ Guards \/ Marks
  <2>1. Tops(0) /\ ~Teller(stack[1])
    BY <1>2 DEF Counts, Guards, Marks, Teller, Unwritten
  <2>. QED BY <1>a, <2>1, TellingTops
<1>3. CASE Turns
  <2>1. Tops(1) /\ stack # <<>>
    BY <1>3 DEF Turns, Tops
  <2>2. /\ (Teller(stack'[1]) <=> Teller(stack[1]))
        /\ Teller(stack[1]) => stack'[1].script = stack[1].script
    <3>1. CASE stack[1].do \in {"emit", "encode"}
      BY <1>0, <1>3, <2>1, <3>1, FirstInto DEF Turns, Teller, Unwritten
    <3>2. CASE stack[1].do \notin {"emit", "encode"}
      BY <1>0, <1>3, <2>1, <3>2, Fields DEF Turns, Teller, Unwritten
    <3>. QED BY <3>1, <3>2
  <2>. QED BY <1>a, <2>1, <2>2, TellingTops
<1>4. CASE Writes
  <2>1. Tops(1) /\ stack # <<>> /\ ~Teller(stack'[1])
    BY <1>4, Written1 DEF Tops, Teller, Unwritten
  <2>. QED BY <1>a, <1>4, <2>1, TellingTops
<1>5. CASE Closes \/ Refuses \/ Halts
  <2>1. Tops(1) /\ ~Teller(stack'[1]) /\ ~Teller(stack[1])
    BY <1>5, Fields DEF Closes, Refuses, Halts, Teller, Unwritten
  <2>. QED BY <1>a, <2>1, TellingTops
<1>6. CASE GuardFaults \/ Digests \/ EndFaults
  <2>1. Tops(2) /\ ~Teller(stack'[1]) /\ ~Teller(stack'[2]) /\ ~Teller(stack[1])
    BY <1>6, Fields DEF GuardFaults, Digests, EndFaults, Teller, Unwritten
  <2>. QED BY <1>a, <2>1, TellingTops
<1>7. CASE Rereads
  <2>1. Tops(2) /\ ~Teller(stack'[1]) /\ stack'[2] = stack[1]
    BY <1>7, Fields DEF Rereads, Teller, Unwritten
  <2>. QED BY <1>a, <2>1, TellingTops
<1>8. CASE Refaults
  <2>1. Tops(3) /\ ~Teller(stack'[1]) /\ ~Teller(stack'[2]) /\ stack'[3] = stack[1]
    BY <1>8, Fields DEF Refaults, Teller, Unwritten
  <2>. QED BY <1>a, <2>1, TellingTops
<1>9. CASE Reends
  <2>1. Tops(4) /\ ~Teller(stack'[1]) /\ ~Teller(stack'[2]) /\ ~Teller(stack'[3]) /\ stack'[4] = stack[1]
    BY <1>9, Fields DEF Reends, Teller, Unwritten
  <2>. QED BY <1>a, <2>1, TellingTops
<1>10. CASE Catches \/ Rehalts
  BY <1>a, <1>10 DEF Catches, Rehalts, Telling
<1>. QED BY <1>1, <1>2, <1>3, <1>4, <1>5, <1>6, <1>7, <1>8, <1>9, <1>10 DEF Move

LEMMA TellingFirst == ASSUME TypeInv, TypeInv', ShapeInv, FirstOf, NEW s
  PROVE /\ running \in Scripts \ announced /\ announced' = announced \cup {running}
        /\ UNCHANGED <<running, settled, log>> /\ Recording /\ stack # <<>>
        /\ Telling(s)' <=> Telling(s) \/ s = running
<1>1. /\ stack[1] \in Items /\ 1 \in DOMAIN stack /\ stack # <<>> /\ stack[1].do = "emit" /\ ~Teller(stack[1])
      /\ running \in Scripts \ announced /\ announced' = announced \cup {running} /\ Recording
      /\ UNCHANGED <<running, settled, log>>
  BY FirstItem DEF FirstOf, Own, Teller, TypeInv, TypeOK
<1>2. ~Teller(Into(stack[1], "encode"))
  BY <1>1, FirstInto DEF Teller, Unwritten, FirstOf, Own
<1>3. /\ ~Teller(Emit("Loading")) /\ Teller(Item("emit", "DocTask", 0, running))
      /\ Item("emit", "DocTask", 0, running).script = running
  BY Fields DEF Teller, Unwritten
<1>4. PICK m \in 2..3 : /\ Tops(m) /\ stack'[m - 1] = Item("emit", "DocTask", 0, running)
                        /\ stack'[m] = Into(stack[1], "encode")
                        /\ m = 3 => stack'[1] = Emit("Loading")
  <2>1. CASE Tops(2) /\ stack'[1] = Item("emit", "DocTask", 0, running) /\ stack'[2] = Into(stack[1], "encode")
    BY <2>1
  <2>2. CASE Tops(3) /\ stack'[1] = Emit("Loading") /\ stack'[2] = Item("emit", "DocTask", 0, running)
             /\ stack'[3] = Into(stack[1], "encode")
    BY <2>2
  <2>. QED BY <2>1, <2>2 DEF FirstOf
<1>5. m - 1 \in 1..m /\ m - 1 \in DOMAIN stack' /\ m \in 0..4
  BY <1>1, <1>4 DEF Tops, TypeInv
<1>6. CASE s = running
  <2>1. Teller(stack'[m - 1]) /\ stack'[m - 1].script = s
    BY <1>3, <1>4, <1>6
  <2>2. \E k \in DOMAIN stack' : Teller(stack'[k]) /\ stack'[k].script = s
    BY <1>5, <2>1
  <2>. QED BY <1>1, <1>6, <2>2 DEF Telling, Teller, Unwritten
<1>7. CASE s # running
  <2>1. \A i \in 1..m : ~(Teller(stack'[i]) /\ stack'[i].script = s)
    BY <1>2, <1>3, <1>4, <1>7
  <2>. QED BY <1>1, <1>4, <1>5, <1>7, <2>1, TellingTops
<1>. QED BY <1>1, <1>6, <1>7

LEMMA TellingPage == ASSUME TypeInv, TypeInv', Throwing, Page, NEW s \in Scripts
  PROVE /\ log' = log /\ ~Telling(s) /\ settled \subseteq settled' /\ announced \subseteq announced'
        /\ s \in announced' \ announced => s = running
        /\ Telling(s)' => s = running /\ s \in announced' \ announced
        /\ s \in announced' \ announced => Telling(s)'
        /\ s \in settled' \ settled => s = running /\ (Recording => s \in announced')
<1>1. stack = <<>> /\ DOMAIN stack' = 1..Len(stack') /\ s # "none"
  BY PageCalls, ScriptsAssumption DEF TypeInv
<1>2. ~Telling(s)
  BY <1>1 DEF Telling
<1>3. CASE ScriptSettles
  <2>1. CASE Recording /\ running \notin announced
    <3>1. stack' # <<>>
      BY <1>3, <2>1 DEF ScriptSettles, Calling, Guarded, Announce, Loading
    <3>2. PICK k \in 1..2 : /\ Len(stack') = k + 1 /\ stack'[k] = Item("emit", "DocTask", 0, running)
                            /\ stack'[k + 1] = Step("guard")
                            /\ k = 2 => stack'[1] = Emit("Loading")
      BY <1>3, <3>1, PageCalls
    <3>3. /\ Teller(Item("emit", "DocTask", 0, running)) /\ Item("emit", "DocTask", 0, running).script = running
          /\ ~Teller(Step("guard")) /\ ~Teller(Emit("Loading"))
      BY Fields DEF Teller, Unwritten
    <3>4. k \in DOMAIN stack' /\ \A i \in DOMAIN stack' : i = k \/ i = k + 1 \/ (k = 2 /\ i = 1)
      BY <1>1, <3>2
    <3>5. Telling(s)' <=> s = running
      BY <3>2, <3>3, <3>4 DEF Telling
    <3>6. announced' = announced \cup {running} /\ settled' = settled \cup {running} /\ log' = log
      BY <1>3, <2>1 DEF ScriptSettles
    <3>. QED BY <1>2, <2>1, <3>5, <3>6
  <2>2. CASE ~(Recording /\ running \notin announced)
    <3>1. stack' = <<>> /\ announced' = announced /\ settled' = settled \cup {running} /\ log' = log
      BY <1>3, <2>2 DEF ScriptSettles, Calling
    <3>2. ~Telling(s)'
      BY <3>1 DEF Telling
    <3>. QED BY <1>2, <2>2, <3>1, <3>2
  <2>. QED BY <2>1, <2>2
<1>4. CASE ~ScriptSettles
  <2>1. UNCHANGED <<announced, settled, log>>
    BY <1>4 DEF Page, PageReads, TaskBegins, ScriptRuns, Parsed, Dispatches, PageEnds, Halt, SeamThrows, document
  <2>2. ASSUME NEW i \in DOMAIN stack', Teller(stack'[i]) PROVE stack'[i].script = "none"
    <3>1. CASE Dispatches
      <4>1. \/ Len(stack') = 1 /\ stack'[1] = Step("mark")
            \/ /\ Len(stack') = 4 /\ stack'[1] = Emit("Loading")
               /\ stack'[2] = Item("emit", "DocTask", 0, "none") /\ stack'[3] = Step("guard")
               /\ stack'[4] = Step("mark")
        BY <3>1, PageCalls
      <4>. QED BY <1>1, <2>2, <4>1, Fields DEF Teller, Unwritten
    <3>2. CASE PageReads
      <4>1. /\ Len(stack') = 2 /\ stack'[1] = Item("emit", "Read", 0, running) /\ stack'[2] = Step("guard")
        BY <3>2, PageCalls
      <4>. QED BY <1>1, <2>2, <4>1, Fields DEF Teller, Unwritten
    <3>3. CASE TaskBegins
      <4>1. /\ Len(stack') = 4 /\ stack'[1] = Step("macrotask")
            /\ stack'[2] = Step("due") /\ stack'[3] = Emit("Task") /\ stack'[4] = Step("guard")
        BY <3>3, PageCalls
      <4>. QED BY <1>1, <2>2, <4>1, Fields DEF Teller, Unwritten
    <3>4. CASE PageEnds
      <4>1. /\ Len(stack') = 3 /\ stack'[1] = Step("final")
            /\ stack'[2] = Step("encodeEnd") /\ stack'[3] = Step("guard")
        BY <3>4, PageCalls
      <4>. QED BY <1>1, <2>2, <4>1, Fields DEF Teller, Unwritten
    <3>5. CASE SeamThrows
      <4>1. Len(stack') = 1 /\ stack'[1] = Step("guard")
        BY <3>5, PageCalls
      <4>. QED BY <1>1, <2>2, <4>1, Fields DEF Teller, Unwritten
    <3>6. CASE (\E t \in Scripts : ScriptRuns(t)) \/ Parsed \/ Halt
      <4>1. stack' = stack
        BY <3>6 DEF ScriptRuns, Parsed, Halt, calls
      <4>. QED BY <1>1, <4>1
    <3>. QED BY <1>4, <3>1, <3>2, <3>3, <3>4, <3>5, <3>6 DEF Page
  <2>3. ~Telling(s)'
    BY <1>1, <2>2 DEF Telling
  <2>. QED BY <1>2, <2>1, <2>3
<1>. QED BY <1>3, <1>4

(* No script has two DocTasks.                                             *)
LEMMA ToldKept == ASSUME TypeInv, TypeInv', ShapeInv, Throwing, Move, OnePending, ToldAnnounced, ToldOnce
  PROVE ToldAnnounced' /\ ToldOnce'
<1> SUFFICES ASSUME NEW s \in Scripts
             PROVE (Told(s)' \/ Telling(s)' => s \in announced') /\ ~(Told(s)' /\ Telling(s)')
  BY DEF ToldAnnounced, ToldOnce, Told, ToldIn, Telling, Teller, Unwritten
<1>0. (Told(s) \/ Telling(s) => s \in announced) /\ ~(Told(s) /\ Telling(s))
  BY DEF ToldAnnounced, ToldOnce
<1>1. CASE FirstOf
  <2>1. /\ running \notin announced /\ announced' = announced \cup {running} /\ log' = log
        /\ (Telling(s)' <=> Telling(s) \/ s = running)
    BY <1>1, TellingFirst
  <2>2. Told(s)' <=> Told(s)
    BY <2>1 DEF Told, ToldIn
  <2>. QED BY <1>0, <2>1, <2>2
<1>2. CASE Page
  <2>1. /\ log' = log /\ announced \subseteq announced'
        /\ (Telling(s)' => s \in announced' \ announced)
    BY <1>2, TellingPage
  <2>2. Told(s)' <=> Told(s)
    BY <2>1 DEF Told, ToldIn
  <2>. QED BY <1>0, <2>1, <2>2
<1>3. CASE ~Page /\ ~FirstOf
  <2>1. announced' = announced /\ (Telling(s)' => Telling(s))
    BY <1>3, TellingMoves
  <2>2. CASE Told(s)' => Told(s)
    BY <1>0, <2>1, <2>2
  <2>3. CASE Writes /\ stack[1].kind = "DocTask" /\ stack[1].script = s
    <3>1. /\ Tops(1) /\ 1 \in DOMAIN stack /\ Recording /\ stack[1].do = "sanitize" /\ stack'[1].do = "append"
      BY <2>3, Written1
    <3>2. Telling(s)
      BY <2>3, <3>1 DEF Telling, Teller, Unwritten
    <3>3. ASSUME NEW i \in DOMAIN stack', Teller(stack'[i]) PROVE FALSE
      <4>1. i # 1 /\ i \in Nat /\ i >= 1
        BY <3>1, <3>3 DEF Teller, Unwritten, TypeInv
      <4>2. i - 1 + 1 \in DOMAIN stack /\ i - 1 + 1 > 1 /\ stack'[i] = stack[i - 1 + 1]
        BY <3>1, <4>1, Below
      <4>3. Pending(1) /\ Pending(i - 1 + 1)
        BY <2>3, <3>1, <3>3, <4>2 DEF Pending, Teller, Unwritten, Begins
      <4>. QED BY <4>2, <4>3, <3>1 DEF OnePending
    <3>4. ~Telling(s)'
      BY <3>3 DEF Telling, Teller, Unwritten
    <3>. QED BY <1>0, <2>1, <3>2, <3>4
  <2>. QED BY <2>2, <2>3, ToldMoves
<1>. QED BY <1>1, <1>2, <1>3

LEMMA LoggedOnceKept == ASSUME TypeInv, ShapeInv, ToldOnce, LoggedOnce, Move PROVE LoggedOnce'
<1>1. CASE Writes
  <2>1. PICK f \in Frames : /\ log' = Append(log, f) /\ f.kind = stack[1].kind /\ f.script = stack[1].script
                            /\ 1 \in DOMAIN stack /\ stack[1].do = "sanitize" /\ stack[1] \in Items
    BY <1>1, Written1
  <2>2. ASSUME f.kind = "DocTask", f.script # "none", NEW i \in DOMAIN log, log[i].kind = "DocTask",
               log[i].script = f.script
        PROVE FALSE
    <3>1. f.script \in Scripts
      BY <2>1, <2>2 DEF Items, Names
    <3>2. Telling(f.script) /\ Told(f.script)
      BY <2>1, <2>2 DEF Telling, Teller, Unwritten, Told, ToldIn
    <3>. QED BY <3>1, <3>2 DEF ToldOnce
  <2>3. /\ Len(log) \in Nat /\ DOMAIN log' = DOMAIN log \cup {Len(log) + 1} /\ DOMAIN log = 1..Len(log)
        /\ log'[Len(log) + 1] = f /\ \A i \in DOMAIN log : log'[i] = log[i]
    BY <2>1 DEF TypeInv
  <2>. QED BY <2>2, <2>3 DEF LoggedOnce
<1>2. CASE log' = log
  BY <1>2 DEF LoggedOnce
<1>3. CASE \E f \in Frames : f.kind \in {"End", "Fault"} /\ log' = Append(log, f)
  BY <1>3 DEF LoggedOnce, TypeInv
<1>. QED BY <1>1, <1>2, <1>3, LogMoves

LEMMA LogToldKept == ASSUME TypeInv, ShapeInv, ReadsTold, LogTold, Move PROVE LogTold'
<1>1. CASE Writes
  <2>1. PICK f \in Frames : /\ log' = Append(log, f) /\ f.kind = stack[1].kind /\ f.script = stack[1].script
                            /\ 1 \in DOMAIN stack /\ stack[1].do = "sanitize" /\ Recording /\ ~thrown
    BY <1>1, Written1
  <2>2. /\ Len(log) \in Nat /\ DOMAIN log' = DOMAIN log \cup {Len(log) + 1} /\ DOMAIN log = 1..Len(log)
        /\ log'[Len(log) + 1] = f /\ \A i \in DOMAIN log : log'[i] = log[i]
    BY <2>1 DEF TypeInv
  <2>3. ASSUME f.kind = "Read", f.script # "none" PROVE Told(f.script)
    <3>1. Reading(stack[1]) /\ ~Lost(1) /\ ~(1 > 1)
      BY <2>1, <2>3 DEF Reading, Lost
    <3>. QED BY <2>1, <3>1 DEF ReadsTold
  <2>4. ASSUME NEW i \in DOMAIN log', log'[i].kind = "Read", log'[i].script # "none"
        PROVE \E j \in DOMAIN log' : j < i /\ log'[j].kind = "DocTask" /\ log'[j].script = log'[i].script
    <3>1. CASE i = Len(log) + 1
      <4>1. PICK j \in DOMAIN log : log[j].kind = "DocTask" /\ log[j].script = f.script
        BY <2>2, <2>3, <2>4, <3>1 DEF Told, ToldIn
      <4>. QED BY <2>2, <3>1, <4>1
    <3>2. CASE i \in DOMAIN log
      <4>1. PICK j \in DOMAIN log : j < i /\ log[j].kind = "DocTask" /\ log[j].script = log[i].script
        BY <2>2, <2>4, <3>2 DEF LogTold
      <4>. QED BY <2>2, <3>2, <4>1
    <3>. QED BY <2>2, <3>1, <3>2
  <2>. QED BY <2>4 DEF LogTold
<1>2. CASE log' = log
  BY <1>2 DEF LogTold
<1>3. CASE \E f \in Frames : f.kind \in {"End", "Fault"} /\ log' = Append(log, f)
  <2>1. PICK f \in Frames : f.kind \in {"End", "Fault"} /\ log' = Append(log, f)
    BY <1>3
  <2>2. /\ Len(log) \in Nat /\ DOMAIN log' = DOMAIN log \cup {Len(log) + 1} /\ DOMAIN log = 1..Len(log)
        /\ log'[Len(log) + 1] = f /\ \A i \in DOMAIN log : log'[i] = log[i]
    BY <2>1 DEF TypeInv
  <2>. QED BY <2>1, <2>2 DEF LogTold
<1>. QED BY <1>1, <1>2, <1>3, LogMoves

(* A session that is not closing was not closing before.                   *)
LEMMA ClosedOut == ASSUME TypeInv, TypeInv', ShapeInv, Throwing, Faulting, Move, ~Closing'
  PROVE Recording /\ ~Doomed /\ ~Closing /\ ~Doomed' /\ Recording' /\ \A i \in DOMAIN stack : ~IsEnd(stack[i])
BY ClosingKept DEF Closing

(* Where a script's code is the first to write, its record is alone.       *)
LEMMA FirstAlone == ASSUME TypeInv, TypeInv', ShapeInv, Throwing, Faulting, RunningKnown, FirstOf, ~Closing
  PROVE /\ Len(stack) = 2 /\ stack[1].do = "emit" /\ stack[1].kind = "Read" /\ stack[1].script = running
        /\ stack[2].do = "guard"
<1>1. running # "none" /\ running \notin announced /\ stack # <<>>
  BY DEF FirstOf
<1>. QED BY <1>1 DEF RunningKnown, Known, Alone

(* A script that has not been announced has written nothing.               *)
LEMMA RunningKept == ASSUME TypeInv, TypeInv', ShapeInv, ShapeInv', Bottom, Throwing, Faulting, RunningKnown,
    Move
  PROVE RunningKnown'
<1> SUFFICES ASSUME ~Closing' PROVE Known' \/ Alone'
  BY DEF RunningKnown
<1>0. Recording /\ ~Closing /\ ~Doomed' /\ Recording' /\ (Known \/ Alone)
  BY ClosedOut DEF RunningKnown
<1>1. CASE FirstOf
  BY <1>1, TellingFirst DEF Known
<1>2. CASE Page
  <2>1. stack = <<>>
    BY <1>2, PageCalls
  <2>2. CASE PageReads
    <3>1. Len(stack') = 2 /\ stack'[1] = Item("emit", "Read", 0, running) /\ stack'[2] = Step("guard")
          /\ running' = running
      BY <2>2, PageCalls DEF PageReads, document
    <3>. QED BY <3>1, Fields DEF Alone
  <2>3. CASE TaskBegins \/ Dispatches \/ ScriptSettles
    BY <2>3 DEF TaskBegins, Dispatches, ScriptSettles, document, Known
  <2>4. CASE (\E s \in Scripts : ScriptRuns(s)) \/ Parsed \/ Halt
    BY <2>1, <2>4 DEF ScriptRuns, Parsed, Halt, calls, Alone
  <2>5. CASE PageEnds
    <3>1. Len(stack') = 3 /\ stack'[2] = Step("encodeEnd")
      BY <2>5, PageCalls
    <3>2. 2 \in DOMAIN stack' /\ IsEnd(stack'[2])
      BY <3>1, Fields DEF IsEnd, TypeInv
    <3>. QED BY <3>2 DEF Closing
  <2>6. CASE SeamThrows
    <3>1. Len(stack') = 1 /\ stack'[1] = Step("guard") /\ thrown'
      BY <2>6, PageCalls DEF SeamThrows
    <3>2. stack' # <<>>
      BY <3>1
    <3>3. stack'[1].do = "guard"
      BY <3>1, Fields
    <3>. QED BY <1>0, <3>1, <3>2, <3>3, ThrownOut
  <2>. QED BY <1>2, <2>2, <2>3, <2>4, <2>5, <2>6 DEF Page
<1>3. CASE ~Page /\ ~FirstOf
  <2>1. UNCHANGED <<running, announced>>
    BY <1>3, TellingMoves
  <2>2. CASE Known
    BY <2>1, <2>2 DEF Known
  <2>3. CASE ~Known
    <3>1. running # "none" /\ running \notin announced /\ Alone
      BY <1>0, <2>3 DEF Known
    <3>2. CASE stack = <<>>
      BY <1>3, <3>2 DEF Move, Drops, Counts, Falls, Catches, Guards, GuardFaults, Turns, Writes, Digests, Closes,
         EndFaults, Refuses, Halts, Rereads, Reends, Refaults, Rehalts, Marks, Tops, Called
    <3>3. CASE stack # <<>>
      <4>1. /\ Len(stack) = 2 /\ stack[1].do = "emit" /\ stack[1].kind = "Read" /\ stack[1].script # "none"
            /\ 1 \in DOMAIN stack
        BY <3>1, <3>3, FirstItem DEF Alone
      <4>2. ~thrown
        BY <4>1 DEF Bottom
      <4>3. ~Drops /\ ~Falls
        BY <1>0, <4>1, <4>2 DEF Drops, Falls
      <4>4. ~Turns
        BY <3>1, <4>1 DEF Turns, Own
      <4>5. ~Catches /\ ~Rereads /\ ~Reends /\ ~Refaults /\ ~Rehalts
        BY <4>1 DEF Catches, Rereads, Reends, Refaults, Rehalts, Called, Outside
      <4>6. ~Counts /\ ~Guards /\ ~GuardFaults /\ ~Writes /\ ~Digests /\ ~Closes /\ ~EndFaults /\ ~Refuses
            /\ ~Halts /\ ~Marks
        BY <4>1 DEF Counts, Guards, GuardFaults, Writes, Digests, Closes, EndFaults, Refuses, Halts, Marks
      <4>. QED BY <1>3, <4>3, <4>4, <4>5, <4>6 DEF Move
    <3>. QED BY <3>2, <3>3
  <2>. QED BY <2>2, <2>3
<1>. QED BY <1>1, <1>2, <1>3

(* What is thrown out of a DocTask comes to a guard.                       *)
LEMMA ThrownTask == ASSUME TypeInv', ShapeInv', thrown', stack' # <<>>, stack'[1].do = "encode",
    \/ stack'[1].kind \in {"Task", "Checkpoint"}
    \/ stack'[1].kind = "Read" /\ Len(stack') >= 2 /\ stack'[2].do = "guard"
  PROVE Doomed'
<1>1. Len(stack') \in Nat /\ Len(stack') >= 1 /\ DOMAIN stack' = 1..Len(stack')
  BY DEF TypeInv
<1>2. CASE stack'[1].kind \in {"Read", "Task"}
  <2>1. Len(stack') # 1
    BY <1>2 DEF ShapeInv, Shape, Last
  <2>2. Len(stack') > 1 /\ 2 \in DOMAIN stack'
    BY <1>1, <2>1
  <2>3. Follows(stack'[1], stack'[1 + 1])
    BY <1>1, <2>2 DEF ShapeInv, Shape
  <2>4. stack'[2].do = "guard"
    BY <1>2, <2>3 DEF Follows
  <2>5. \A k \in 1..2 : k = 1 \/ k = 2
    OBVIOUS
  <2>. QED BY <1>2, <2>2, <2>4, <2>5 DEF Doomed, Outside
<1>3. CASE stack'[1].kind = "Checkpoint"
  <2>1. Len(stack') # 1
    BY <1>3 DEF ShapeInv, Shape, Last
  <2>2. Len(stack') > 1
    BY <1>1, <2>1
  <2>3. Follows(stack'[1], stack'[1 + 1])
    BY <1>1, <2>2 DEF ShapeInv, Shape
  <2>4. stack'[2].do = "checkpointed"
    BY <1>3, <2>3 DEF Follows
  <2>5. Len(stack') # 2
    BY <2>4 DEF ShapeInv, Shape, Last
  <2>6. Len(stack') > 2
    BY <1>1, <2>2, <2>5
  <2>7. Follows(stack'[2], stack'[2 + 1])
    BY <1>1, <2>6 DEF ShapeInv, Shape
  <2>8. stack'[3].do = "encodeEnd" \/ (stack'[3].do = "emit" /\ stack'[3].kind = "Task")
    BY <2>4, <2>7 DEF Follows
  <2>9. Len(stack') # 3
    BY <2>8 DEF ShapeInv, Shape, Last
  <2>10. Len(stack') > 3 /\ 4 \in DOMAIN stack'
    BY <1>1, <2>6, <2>9
  <2>11. Follows(stack'[3], stack'[3 + 1])
    BY <1>1, <2>10 DEF ShapeInv, Shape
  <2>12. stack'[4].do = "guard"
    BY <2>8, <2>11 DEF Follows
  <2>13. \A k \in 1..4 : k = 1 \/ k = 2 \/ k = 3 \/ k = 4
    OBVIOUS
  <2>. QED BY <1>3, <2>4, <2>8, <2>10, <2>12, <2>13 DEF Doomed, Outside
<1>. QED BY <1>2, <1>3

(* While the session goes on every script that was announced has its       *)
(* DocTask.                                                                *)
LEMMA AnnouncedKept == ASSUME TypeInv, TypeInv', ShapeInv, ShapeInv', Throwing, Faulting, AnnouncedTold,
    SettledAnnounced, FirstGuarded, Move
  PROVE AnnouncedTold' /\ SettledAnnounced'
<1> SUFFICES ASSUME ~Closing'
             PROVE (\A s \in announced' : Told(s)' \/ Telling(s)') /\ settled' \subseteq announced'
  BY DEF AnnouncedTold, SettledAnnounced, Told, ToldIn, Telling, Teller, Unwritten
<1>0. Recording /\ ~Closing /\ ~Doomed' /\ announced' \subseteq Scripts /\ announced \subseteq Scripts
      /\ settled' \subseteq Scripts /\ settled \subseteq announced
  BY ClosedOut DEF SettledAnnounced, TypeInv, TypeOK
<1>1. ASSUME NEW s \in Scripts PROVE s \in announced => Told(s) \/ Telling(s)
  BY <1>0 DEF AnnouncedTold
<1>2. CASE FirstOf
  <2>1. /\ announced' = announced \cup {running} /\ log' = log /\ settled' = settled
    BY <1>2, TellingFirst
  <2>2. ASSUME NEW s \in announced' PROVE Told(s)' \/ Telling(s)'
    <3>1. Telling(s)' <=> Telling(s) \/ s = running
      BY <1>2, TellingFirst
    <3>2. Told(s)' <=> Told(s)
      BY <2>1 DEF Told, ToldIn
    <3>. QED BY <1>0, <1>1, <2>1, <2>2, <3>1, <3>2
  <2>. QED BY <1>0, <2>1, <2>2
<1>3. CASE Page
  <2>1. ASSUME NEW s \in announced' PROVE Told(s)' \/ Telling(s)'
    <3>1. s \in Scripts
      BY <1>0, <2>1
    <3>2. log' = log /\ ~Telling(s) /\ (s \in announced' \ announced => Telling(s)')
      BY <1>3, <3>1, TellingPage
    <3>3. Told(s)' <=> Told(s)
      BY <3>2 DEF Told, ToldIn
    <3>. QED BY <1>1, <2>1, <3>1, <3>2, <3>3
  <2>2. ASSUME NEW s \in settled' PROVE s \in announced'
    <3>1. s \in Scripts
      BY <1>0, <2>2
    <3>2. announced \subseteq announced' /\ (s \in settled' \ settled => (Recording => s \in announced'))
      BY <1>3, <3>1, TellingPage
    <3>. QED BY <1>0, <2>2, <3>2
  <2>. QED BY <2>1, <2>2
<1>4. CASE ~Page /\ ~FirstOf
  <2>1. ASSUME NEW s \in announced' PROVE Told(s)' \/ Telling(s)'
    <3>1. /\ s \in announced /\ s \in Scripts
          /\ Telling(s) => \/ Telling(s)'
                           \/ /\ stack # <<>> /\ Teller(stack[1]) /\ stack[1].script = s
                              /\ Drops \/ Falls \/ Writes
      BY <1>0, <1>4, <2>1, TellingMoves
    <3>2. CASE Told(s)
      BY <3>2, ToldMoves
    <3>3. CASE stack # <<>> /\ Teller(stack[1]) /\ stack[1].script = s /\ Writes
      BY <3>3, ToldMoves DEF Teller
    <3>4. ~(Teller(stack[1]) /\ Drops)
      BY <1>0 DEF Teller, Unwritten, Drops
    <3>5. ~(stack # <<>> /\ Teller(stack[1]) /\ Falls)
      <4> SUFFICES ASSUME stack # <<>>, Teller(stack[1]), Falls PROVE Doomed'
        BY <1>0
      <4>1. Tops(0) /\ thrown' /\ ~Last(stack[1])
        BY DEF Falls, Teller, Unwritten, Last
      <4>2. /\ Len(stack) \in Nat /\ Len(stack) >= 2 /\ Follows(stack[1], stack[2]) /\ DOMAIN stack = 1..Len(stack)
            /\ 1 \in DOMAIN stack
        BY <4>1, FirstItem
      <4>3. Len(stack') = Len(stack) - 1 /\ stack'[1] = stack[2] /\ stack' # <<>>
        BY <4>1, <4>2 DEF Tops, TypeInv
      <4>4. CASE stack[2].do = "guard"
        BY <4>1, <4>3, <4>4, ThrownOut
      <4>5. CASE stack[2].do = "encode" /\ stack[2].kind \in {"Task", "Checkpoint"}
        BY <4>1, <4>3, <4>5, ThrownTask
      <4>6. CASE stack[2].do = "encode" /\ stack[2].kind = "Read"
        <5>1. 1 + 1 \in DOMAIN stack /\ stack[1 + 1].kind = "Read"
          BY <4>2, <4>6
        <5>2. stack[1 + 2].do = "guard"
          BY <1>0, <4>2, <5>1 DEF FirstGuarded
        <5>3. Len(stack) # 2
          BY <4>6 DEF ShapeInv, Shape, Last
        <5>4. Len(stack) >= 3
          BY <4>2, <5>3
        <5>5. Len(stack') >= 2 /\ stack'[2].do = "guard"
          BY <4>1, <4>3, <5>2, <5>4 DEF Tops
        <5>. QED BY <4>1, <4>3, <4>6, <5>5, ThrownTask
      <4>. QED BY <4>2, <4>4, <4>5, <4>6 DEF Follows, Teller
    <3>. QED BY <1>1, <3>1, <3>2, <3>3, <3>4, <3>5
  <2>2. settled' \subseteq announced'
    BY <1>0, <1>4, TellingMoves
  <2>. QED BY <2>1, <2>2
<1>. QED BY <1>2, <1>3, <1>4

(* A DocTask just above a record of the page is guarded below it.          *)
LEMMA GuardedTops == ASSUME TypeInv, TypeInv', ShapeInv', FirstGuarded, ~Closing, NEW m \in 0..4, Tops(m),
    \A i \in 1..m : Teller(stack'[i]) => i = m /\ Teller(stack[1])
  PROVE FirstGuarded'
<1>1. Len(stack) \in Nat /\ Len(stack) >= 1 /\ DOMAIN stack = 1..Len(stack) /\ DOMAIN stack' = 1..Len(stack')
      /\ Len(stack') = Len(stack) + m - 1 /\ 1 \in DOMAIN stack
  BY DEF TypeInv, Tops
<1>2. ASSUME NEW i \in DOMAIN stack', Teller(stack'[i]), i + 1 \in DOMAIN stack', stack'[i + 1].kind = "Read"
      PROVE stack'[i + 2].do = "guard"
  <2>0. i \in Nat /\ i >= 1
    BY <1>1
  <2>a. i + 2 \in DOMAIN stack'
    <3>1. (stack'[i + 1].kind = "none") <=> (stack'[i + 1].do \notin Records)
      BY <1>1, <1>2 DEF ShapeInv, Shape
    <3>2. i + 1 # Len(stack')
      BY <1>2, <3>1 DEF ShapeInv, Shape, Last, Records
    <3>. QED BY <1>1, <1>2, <2>0, <3>2
  <2>1. CASE i > m
    <3>1. i - m + 1 \in DOMAIN stack /\ stack'[i] = stack[i - m + 1]
      BY <2>1, Below
    <3>2. (i - m + 1) + 1 \in DOMAIN stack /\ stack'[i + 1] = stack[(i - m + 1) + 1]
      BY <1>1, <1>2, <2>0, <2>1, SMTT(60) DEF Tops
    <3>3. stack[(i - m + 1) + 2].do = "guard"
      BY <1>2, <3>1, <3>2 DEF FirstGuarded
    <3>4. stack'[i + 2] = stack[(i - m + 1) + 2]
      BY <1>1, <2>a, <2>0, <2>1, SMTT(60) DEF Tops
    <3>. QED BY <3>3, <3>4
  <2>2. CASE i <= m
    <3>1. i \in 1..m
      BY <1>1, <2>0, <2>2
    <3>2. i = m /\ Teller(stack[1])
      BY <1>2, <3>1
    <3>3. 1 + 1 \in DOMAIN stack /\ stack'[m + 1] = stack[1 + 1] /\ stack'[m + 2] = stack[1 + 2]
      BY <1>1, <1>2, <2>a, <3>2, SMTT(60) DEF Tops
    <3>4. stack[1 + 2].do = "guard"
      BY <1>1, <1>2, <3>2, <3>3 DEF FirstGuarded
    <3>. QED BY <3>2, <3>3, <3>4
  <2>. QED BY <1>1, <2>0, <2>1, <2>2
<1>. QED BY <1>2 DEF FirstGuarded, Teller, Unwritten

LEMMA FirstGuardedKept == ASSUME TypeInv, TypeInv', ShapeInv, ShapeInv', Throwing, Faulting, RunningKnown,
    FirstGuarded, Move
  PROVE FirstGuarded'
<1> SUFFICES ASSUME ~Closing' PROVE FirstGuarded'
  BY DEF FirstGuarded
<1>0. Recording /\ ~Closing /\ ~Doomed' /\ Recording'
  BY ClosedOut
<1>a. stack # <<>> => stack[1] \in Items /\ 1 \in DOMAIN stack
  BY FirstItem
<1>1. CASE Drops \/ Counts \/ Falls \/ Marks
  <2>1. Tops(0)
    BY <1>1 DEF Drops, Counts, Falls, Marks
  <2>. QED BY <1>0, <2>1, GuardedTops
<1>2. CASE Turns
  <2>1. Tops(1) /\ stack # <<>>
    BY <1>2 DEF Turns, Tops
  <2>2. Teller(stack'[1]) => Teller(stack[1])
    <3>1. CASE stack[1].do \in {"emit", "encode"}
      BY <1>a, <1>2, <2>1, <3>1, FirstInto DEF Turns, Teller, Unwritten
    <3>2. CASE stack[1].do \notin {"emit", "encode"}
      BY <1>a, <1>2, <2>1, <3>2, Fields DEF Turns, Teller, Unwritten
    <3>. QED BY <3>1, <3>2
  <2>. QED BY <1>0, <2>1, <2>2, GuardedTops
<1>3. CASE Writes
  <2>1. Tops(1) /\ ~Teller(stack'[1])
    BY <1>3, Written1 DEF Teller, Unwritten
  <2>. QED BY <1>0, <2>1, GuardedTops
<1>4. CASE Digests
  <2>1. Tops(2) /\ ~Teller(stack'[1]) /\ ~Teller(stack'[2])
    BY <1>4, Fields DEF Digests, Teller, Unwritten
  <2>. QED BY <1>0, <2>1, GuardedTops
<1>5. CASE Rereads
  <2>1. Tops(2) /\ ~Teller(stack'[1]) /\ stack'[2] = stack[1]
    BY <1>5, Fields DEF Rereads, Teller, Unwritten
  <2>. QED BY <1>0, <2>1, GuardedTops
<1>6. CASE Reends
  <2>1. Tops(4) /\ ~Teller(stack'[1]) /\ ~Teller(stack'[2]) /\ ~Teller(stack'[3]) /\ stack'[4] = stack[1]
    BY <1>6, Fields DEF Reends, Teller, Unwritten
  <2>. QED BY <1>0, <2>1, GuardedTops
<1>7. CASE FirstOf
  <2>1. Len(stack) = 2 /\ stack[1].kind = "Read" /\ stack[2].do = "guard" /\ stack[1] \in Items
    BY <1>0, <1>a, <1>7, FirstAlone, TellingFirst
  <2>2. ~Teller(stack[2]) /\ ~Teller(Emit("Loading")) /\ ~Teller(Into(stack[1], "encode"))
    BY <2>1, Fields, FirstInto DEF Teller, Unwritten
  <2>3. CASE Tops(2) /\ stack'[1] = Item("emit", "DocTask", 0, running) /\ stack'[2] = Into(stack[1], "encode")
    <3>1. Len(stack') = 3 /\ stack'[3] = stack[2] /\ DOMAIN stack' = 1..3
      BY <2>1, <2>3 DEF Tops, TypeInv
    <3>. QED BY <2>1, <2>2, <2>3, <3>1 DEF FirstGuarded, Teller, Unwritten
  <2>4. CASE Tops(3) /\ stack'[1] = Emit("Loading") /\ stack'[2] = Item("emit", "DocTask", 0, running)
             /\ stack'[3] = Into(stack[1], "encode")
    <3>1. Len(stack') = 4 /\ stack'[4] = stack[2] /\ DOMAIN stack' = 1..4
      BY <2>1, <2>4 DEF Tops, TypeInv
    <3>. QED BY <2>1, <2>2, <2>4, <3>1 DEF FirstGuarded, Teller, Unwritten
  <2>. QED BY <1>7, <2>3, <2>4 DEF FirstOf
<1>8. CASE Catches
  BY <1>0, <1>8 DEF Catches, FirstGuarded
<1>9. CASE Page
  <2>1. stack = <<>> /\ DOMAIN stack' = 1..Len(stack')
    BY <1>9, PageCalls DEF TypeInv
  <2>2. ASSUME NEW i \in DOMAIN stack', Teller(stack'[i]), i + 1 \in DOMAIN stack'
        PROVE stack'[i + 1].kind # "Read"
    <3>0. stack'[i].do = "emit" /\ stack'[i].kind = "DocTask"
      BY <1>9, <2>2, PageItems DEF Teller, Unwritten
    <3>1. CASE Dispatches
      <4>1. \/ Len(stack') = 1 /\ stack'[1] = Step("mark")
            \/ /\ Len(stack') = 4 /\ stack'[1] = Emit("Loading")
               /\ stack'[2] = Item("emit", "DocTask", 0, "none") /\ stack'[3] = Step("guard")
               /\ stack'[4] = Step("mark")
        BY <3>1, PageCalls
      <4>. QED BY <2>1, <2>2, <3>0, <4>1, Fields
    <3>2. CASE ScriptSettles
      <4>1. \/ stack' = <<>>
            \/ /\ Len(stack') = 2 /\ stack'[1] = Item("emit", "DocTask", 0, running)
               /\ stack'[2] = Step("guard") /\ loading = 4
            \/ /\ Len(stack') = 3 /\ stack'[1] = Emit("Loading")
               /\ stack'[2] = Item("emit", "DocTask", 0, running) /\ stack'[3] = Step("guard")
        BY <3>2, PageCalls
      <4>. QED BY <2>1, <2>2, <3>0, <4>1, Fields
    <3>3. CASE TaskBegins
      <4>1. /\ Len(stack') = 4 /\ stack'[1] = Step("macrotask")
            /\ stack'[2] = Step("due") /\ stack'[3] = Emit("Task") /\ stack'[4] = Step("guard")
        BY <3>3, PageCalls
      <4>. QED BY <2>1, <2>2, <3>0, <4>1, Fields
    <3>4. CASE PageEnds
      <4>1. /\ Len(stack') = 3 /\ stack'[1] = Step("final")
            /\ stack'[2] = Step("encodeEnd") /\ stack'[3] = Step("guard")
        BY <3>4, PageCalls
      <4>. QED BY <2>1, <2>2, <3>0, <4>1, Fields
    <3>5. CASE SeamThrows
      <4>1. Len(stack') = 1 /\ stack'[1] = Step("guard")
        BY <3>5, PageCalls
      <4>. QED BY <2>1, <2>2, <3>0, <4>1, Fields
    <3>6. CASE PageReads
      <4>1. /\ Len(stack') = 2 /\ stack'[1] = Item("emit", "Read", 0, running) /\ stack'[2] = Step("guard")
        BY <3>6, PageCalls
      <4>. QED BY <2>1, <2>2, <3>0, <4>1, Fields
    <3>7. CASE (\E t \in Scripts : ScriptRuns(t)) \/ Parsed \/ Halt
      <4>1. stack' = stack
        BY <3>7 DEF ScriptRuns, Parsed, Halt, calls
      <4>. QED BY <2>1, <4>1
    <3>. QED BY <1>9, <3>1, <3>2, <3>3, <3>4, <3>5, <3>6, <3>7 DEF Page
  <2>. QED BY <2>2 DEF FirstGuarded, Teller, Unwritten
<1>10. ~Guards
  BY <1>0 DEF Guards, Idle, recorder, Recording, Faulting
<1>11. ~EndFaults /\ ~Refuses /\ ~Halts
  BY <1>0, <1>a, Quieter DEF EndFaults, Refuses, Halts, Tops, FirstOnly
<1>12. ~GuardFaults /\ ~Closes /\ ~Refaults /\ ~Rehalts
  BY <1>0 DEF GuardFaults, Closes, Refaults, Rehalts, Recording
<1>. QED BY <1>1, <1>2, <1>3, <1>4, <1>5, <1>6, <1>7, <1>8, <1>9, <1>10, <1>11, <1>12 DEF Move

(* The script's own records, after each move.                              *)
LEMMA ReadsTops == ASSUME TypeInv, TypeInv', ReadsTold, Recording, NEW m \in 0..4, Tops(m),
    thrown => m = 0 /\ thrown',
    \A s : ToldIn(log, s) => ToldIn(log', s),
    \A k \in 1..m : Reading(stack'[k]) =>
      \/ ToldIn(log', stack[1].script) /\ stack'[k].script = stack[1].script
      \/ k > 1 /\ Teller(stack'[k - 1]) /\ stack'[k - 1].script = stack'[k].script,
    Teller(stack[1]) =>
      \/ ToldIn(log', stack[1].script)
      \/ m >= 1 /\ Teller(stack'[m]) /\ stack'[m].script = stack[1].script
      \/ m = 0 /\ thrown' /\ (stack' # <<>> /\ stack'[1].kind = "Read" => stack'[1].do \notin Outside)
  PROVE ReadsTold'
<1> SUFFICES ASSUME NEW i \in DOMAIN stack', Reading(stack'[i])
             PROVE \/ Lost(i)' \/ ToldIn(log', stack'[i].script)
                   \/ i > 1 /\ Teller(stack'[i - 1]) /\ stack'[i - 1].script = stack'[i].script
  BY DEF ReadsTold, Reading, Teller, Unwritten, Lost, Told, ToldIn
<1>1. /\ Len(stack) \in Nat /\ Len(stack) >= 1 /\ DOMAIN stack = 1..Len(stack) /\ DOMAIN stack' = 1..Len(stack')
      /\ Len(stack') = Len(stack) + m - 1 /\ 1 \in DOMAIN stack /\ i \in Nat /\ i >= 1 /\ i <= Len(stack')
  BY DEF TypeInv, Tops
<1>2. CASE i <= m
  <2>1. i \in 1..m
    BY <1>1, <1>2
  <2>. QED BY <2>1 DEF Told, ToldIn
<1>3. CASE i > m
  <2>1. i - m + 1 \in DOMAIN stack /\ i - m + 1 > 1 /\ stack'[i] = stack[i - m + 1]
    BY <1>3, Below
  <2>2. \/ Lost(i - m + 1) \/ Told(stack[i - m + 1].script)
        \/ Teller(stack[(i - m + 1) - 1]) /\ stack[(i - m + 1) - 1].script = stack[i - m + 1].script
    BY <2>1 DEF ReadsTold
  <2>3. CASE Told(stack[i - m + 1].script)
    BY <2>1, <2>3 DEF Told, ToldIn
  <2>4. CASE Lost(i - m + 1)
    <3>1. m = 0 /\ thrown'
      BY <2>4 DEF Lost
    <3>2. ASSUME NEW k \in 1..i PROVE stack'[k].do \notin Outside
      <4>1. k > 0 /\ k \in DOMAIN stack'
        BY <1>1
      <4>2. k - 0 + 1 \in 1..i - m + 1 /\ stack'[k] = stack[k - 0 + 1]
        BY <1>1, <3>1, <4>1 DEF Tops
      <4>. QED BY <2>4, <4>2 DEF Lost
    <3>. QED BY <3>1, <3>2 DEF Lost, Outside
  <2>5. CASE Teller(stack[(i - m + 1) - 1]) /\ stack[(i - m + 1) - 1].script = stack[i - m + 1].script
    <3>1. CASE i = m + 1
      <4>0. (i - m + 1) - 1 = 1
        BY <1>1, <3>1
      <4>1. Teller(stack[1]) /\ stack[1].script = stack'[i].script
        BY <2>1, <2>5, <4>0
      <4>2. CASE ToldIn(log', stack[1].script)
        BY <4>1, <4>2 DEF Told, ToldIn
      <4>3. CASE m >= 1 /\ Teller(stack'[m]) /\ stack'[m].script = stack[1].script
        BY <1>1, <3>1, <4>1, <4>3
      <4>4. CASE m = 0 /\ thrown' /\ (stack' # <<>> /\ stack'[1].kind = "Read" => stack'[1].do \notin Outside)
        <5>1. i = 1 /\ stack' # <<>> /\ stack'[1].kind = "Read"
          BY <1>1, <3>1, <4>4 DEF Reading
        <5>2. \A k \in 1..1 : k = 1
          OBVIOUS
        <5>. QED BY <4>4, <5>1, <5>2 DEF Lost, Outside
      <4>. QED BY <4>1, <4>2, <4>3, <4>4
    <3>2. CASE i # m + 1
      <4>1. i - 1 > m /\ i - 1 \in DOMAIN stack' /\ (i - 1) - m + 1 = (i - m + 1) - 1 /\ i > 1
        BY <1>1, <1>3, <3>2
      <4>2. stack'[i - 1] = stack[(i - m + 1) - 1]
        BY <4>1, Below
      <4>. QED BY <2>1, <2>5, <4>1, <4>2
    <3>. QED BY <3>1, <3>2
  <2>. QED BY <2>2, <2>3, <2>4, <2>5
<1>. QED BY <1>1, <1>2, <1>3

(* A script's own record is encoded after its DocTask, or just below it.   *)
LEMMA ReadsToldKept == ASSUME TypeInv, TypeInv', ShapeInv, ShapeInv', Bottom, Throwing, Faulting, AnnouncedTold,
    ReadsTold, Move
  PROVE ReadsTold'
<1> SUFFICES ASSUME Recording' PROVE ReadsTold'
  BY DEF ReadsTold
<1>0. Recording /\ \A s : ToldIn(log, s) => ToldIn(log', s)
  <2>1. \A s : ToldIn(log, s) => ToldIn(log', s)
    BY ToldMoves DEF Told, ToldIn
  <2>. QED BY <2>1, StateMoves
<1>a. /\ stack # <<>> => /\ stack[1] \in Items /\ 1 \in DOMAIN stack
                         /\ (stack[1].kind = "none") <=> (stack[1].do \notin Records)
  BY FirstItem
<1>b. ASSUME stack # <<>>, Reading(stack[1]), ~thrown PROVE ToldIn(log', stack[1].script)
  <2>1. 1 \in DOMAIN stack /\ ~Lost(1) /\ ~(1 > 1)
    BY <1>a, <1>b DEF Lost
  <2>2. Told(stack[1].script)
    BY <1>0, <1>b, <2>1 DEF ReadsTold
  <2>. QED BY <1>0, <2>2 DEF Told
<1>1. CASE Drops \/ Counts \/ Marks
  <2>1. Tops(0) /\ ~thrown /\ ~Teller(stack[1])
    BY <1>0, <1>1 DEF Drops, Counts, Marks, Calm, Teller, Unwritten
  <2>. QED BY <1>0, <2>1, ReadsTops
<1>2. CASE Falls
  <2>1. Tops(0) /\ thrown' /\ stack # <<>>
    BY <1>2 DEF Falls, Tops
  <2>2. CASE Teller(stack[1])
    <3>1. ~Last(stack[1])
      BY <2>2 DEF Teller, Unwritten, Last
    <3>2. Len(stack) \in Nat /\ Len(stack) >= 2 /\ Follows(stack[1], stack[2])
      BY <2>1, <3>1, FirstItem
    <3>3. stack'[1] = stack[2]
      BY <2>1, <3>2 DEF Tops
    <3>4. stack'[1].kind = "Read" => stack'[1].do \notin Outside
      BY <2>2, <3>2, <3>3 DEF Follows, Teller, Outside
    <3>. QED BY <1>0, <2>1, <3>4, ReadsTops
  <2>3. CASE ~Teller(stack[1])
    BY <1>0, <2>1, <2>3, ReadsTops
  <2>. QED BY <2>2, <2>3
<1>3. CASE Turns
  <2>1. Tops(1) /\ stack # <<>> /\ ~thrown
    BY <1>3 DEF Turns, Tops, Calm
  <2>2. CASE stack[1].do \notin {"emit", "encode"}
    <3>1. ~Teller(stack[1]) /\ ~Reading(stack'[1])
      BY <1>a, <1>3, <2>1, <2>2, Fields DEF Turns, Teller, Unwritten, Reading
    <3>. QED BY <1>0, <2>1, <3>1, ReadsTops
  <2>3. CASE stack[1].do \in {"emit", "encode"}
    <3>1. stack'[1].kind = stack[1].kind /\ stack'[1].script = stack[1].script
          /\ stack'[1].do \in {"encode", "sanitize"} /\ (stack[1].do = "emit" /\ Own(stack[1]) => Known)
      BY <1>a, <1>3, <2>1, <2>3, FirstInto DEF Turns, Known
    <3>2. Teller(stack[1]) => Teller(stack'[1])
      BY <3>1 DEF Teller, Unwritten
    <3>3. Reading(stack'[1]) => ToldIn(log', stack[1].script)
      <4> SUFFICES ASSUME Reading(stack'[1]) PROVE ToldIn(log', stack[1].script)
        OBVIOUS
      <4>1. CASE stack[1].do = "encode"
        BY <1>b, <2>1, <3>1, <4>1 DEF Reading
      <4>2. CASE stack[1].do = "emit"
        <5>1. stack[1].kind = "Read" /\ stack[1].script # "none" /\ Own(stack[1]) /\ 1 \in DOMAIN stack
          BY <1>a, <2>1, <3>1 DEF Reading, Own
        <5>0. stack[1].kind = "Read" /\ stack[1].script # "none"
          BY <5>1
        <5>a. 1 = Len(stack) - 1 /\ stack[1].script = running /\ Len(stack) \in Nat
          BY <1>a, <2>1, <5>0, FirstItem DEF Bottom
        <5>b. running \in announced
          BY <3>1, <4>2, <5>1, <5>a DEF Known
        <5>2. Len(stack) = 2 /\ stack[1].script = running /\ running \in announced
          BY <5>a, <5>b
        <5>3. DOMAIN stack = 1..2 /\ Last(stack[2])
          BY <2>1, <5>2 DEF ShapeInv, Shape, TypeInv
        <5>4. \A i \in DOMAIN stack : ~Teller(stack[i]) /\ ~IsEnd(stack[i])
          BY <4>2, <5>1, <5>3 DEF Teller, Unwritten, IsEnd, Last
        <5>5. ~Closing
          BY <1>0, <2>1, <5>4 DEF Closing, Doomed
        <5>6. Told(running)
          BY <5>2, <5>4, <5>5 DEF AnnouncedTold, Telling
        <5>. QED BY <1>0, <5>2, <5>6 DEF Told
      <4>. QED BY <2>3, <4>1, <4>2
    <3>. QED BY <1>0, <2>1, <3>1, <3>2, <3>3, ReadsTops
  <2>. QED BY <2>2, <2>3
<1>4. CASE Writes
  <2>1. Tops(1) /\ stack'[1].do = "append" /\ ~thrown /\ stack # <<>>
    BY <1>4, Written1 DEF Tops
  <2>2. Teller(stack[1]) => ToldIn(log', stack[1].script)
    BY <1>4, ToldMoves DEF Teller, Told, ToldIn
  <2>3. ~Reading(stack'[1])
    BY <2>1 DEF Reading
  <2>. QED BY <1>0, <2>1, <2>2, <2>3, ReadsTops
<1>5. CASE Digests
  <2>1. Tops(2) /\ ~thrown /\ ~Teller(stack[1]) /\ ~Reading(stack'[1]) /\ ~Reading(stack'[2])
    BY <1>5, Fields DEF Digests, Teller, Unwritten, Reading, Calm
  <2>. QED BY <1>0, <2>1, ReadsTops
<1>6. CASE Rereads
  <2>1. Tops(2) /\ stack # <<>> /\ ~thrown /\ ~Reading(stack'[1]) /\ stack'[2] = stack[1]
    BY <1>6, Fields DEF Rereads, Called, Calm, Reading
  <2>2. Reading(stack'[2]) => ToldIn(log', stack[1].script)
    BY <1>b, <2>1
  <2>. QED BY <1>0, <2>1, <2>2, ReadsTops
<1>7. CASE Reends
  <2>1. /\ Tops(4) /\ stack # <<>> /\ ~thrown /\ stack'[4] = stack[1]
        /\ ~Reading(stack'[1]) /\ ~Reading(stack'[2]) /\ ~Reading(stack'[3])
    BY <1>7, Fields DEF Reends, Called, Calm, Reading
  <2>2. Reading(stack'[4]) => ToldIn(log', stack[1].script)
    BY <1>b, <2>1
  <2>3. \A i \in 1..4 : i = 1 \/ i = 2 \/ i = 3 \/ i = 4
    OBVIOUS
  <2>. QED BY <1>0, <2>1, <2>2, <2>3, ReadsTops
<1>8. CASE FirstOf
  <2>1. stack # <<>> /\ ~thrown /\ stack[1].do = "emit" /\ Own(stack[1]) /\ 1 \in DOMAIN stack /\ ~Teller(stack[1])
    BY <1>8, <1>a DEF FirstOf, Calm, Teller, Own
  <2> DEFINE enc == Into(stack[1], "encode")
             doc == Item("emit", "DocTask", 0, running)
  <2>2. ~Reading(Emit("Loading")) /\ ~Reading(doc) /\ Teller(doc) /\ doc.script = running
    BY Fields DEF Reading, Teller, Unwritten
  <2>3. Reading(enc) => enc.script = running
    BY <1>a, <2>1, FirstInto DEF Reading, Bottom
  <2> HIDE DEF enc, doc
  <2>4. CASE Tops(2) /\ stack'[1] = doc /\ stack'[2] = enc
    <3>1. \A k \in 1..2 : Reading(stack'[k]) => k > 1 /\ Teller(stack'[k - 1]) /\ stack'[k - 1].script = stack'[k].script
      BY <2>2, <2>3, <2>4
    <3>. QED BY <1>0, <2>1, <2>4, <3>1, ReadsTops
  <2>5. CASE Tops(3) /\ stack'[1] = Emit("Loading") /\ stack'[2] = doc /\ stack'[3] = enc
    <3>1. \A k \in 1..3 : Reading(stack'[k]) => k > 1 /\ Teller(stack'[k - 1]) /\ stack'[k - 1].script = stack'[k].script
      BY <2>2, <2>3, <2>5
    <3>. QED BY <1>0, <2>1, <2>5, <3>1, ReadsTops
  <2>. QED BY <1>8, <2>4, <2>5 DEF FirstOf, enc, doc
<1>9. CASE Catches
  <2>1. stack' = stack /\ stack[1].do \in Outside /\ ~thrown' /\ log' = log
    BY <1>9 DEF Catches, Idle
  <2>2. ASSUME NEW i \in DOMAIN stack PROVE ~Lost(i)
    <3>1. 1 \in 1..i
      BY DEF TypeInv
    <3>. QED BY <2>1, <3>1 DEF Lost
  <2>. QED BY <1>0, <2>1, <2>2 DEF ReadsTold, Reading, Told, ToldIn, Teller, Unwritten
<1>10. CASE Page
  BY <1>10, PageItems DEF ReadsTold, Reading
<1>11. ~Guards
  BY <1>0 DEF Guards, Idle, recorder, Recording, Faulting
<1>12. ~EndFaults /\ ~Refuses /\ ~Halts
  BY <1>0, <1>a, Quieter DEF EndFaults, Refuses, Halts, Tops, FirstOnly
<1>13. ~GuardFaults /\ ~Closes /\ ~Refaults /\ ~Rehalts
  BY DEF GuardFaults, Closes, Refaults, Rehalts, Recording
<1>. QED BY <1>1, <1>2, <1>3, <1>4, <1>5, <1>6, <1>7, <1>8, <1>9, <1>10, <1>11, <1>12, <1>13 DEF Move

-----------------------------------------------------------------------------
(* The invariant is inductive.                                             *)
LEMMA InvMoves == ASSUME Inv, Next PROVE Inv'
<1>1. Move /\ thrown' \in BOOLEAN /\ inFault' \in BOOLEAN
  BY NextMoves, BooleansKept DEF Inv
<1>2. TypeInv'
  BY <1>1, TypeKept DEF Inv
<1>3. ShapeInv'
  BY <1>1, <1>2, ShapeKept DEF Inv
<1>4. Bottom' /\ Appending' /\ Throwing' /\ Faulting'
  BY <1>1, <1>2, BottomKept, AppendingKept, ThrowingKept, FaultingKept DEF Inv
<1>5. Locates'
  BY <1>1, <1>2, <1>3, LocatesKept, TasksLocatedKept DEF Inv, Locates
<1>6. Announces'
  BY <1>1, <1>2, <1>3, ToldKept, LoggedOnceKept, LogToldKept, RunningKept, AnnouncedKept, FirstGuardedKept,
     ReadsToldKept DEF Inv, Announces, Locates
<1>7. Parsing' /\ Numbering' /\ Opening'
  BY <1>1, <1>2, <1>3, ParsingKept, SequencedKept, CountedKept, OrderedKept, OpeningKept DEF Inv, Numbering
<1>. QED BY <1>2, <1>3, <1>4, <1>5, <1>6, <1>7 DEF Inv

LEMMA InvStutters == ASSUME Inv, UNCHANGED vars PROVE Inv'
BY SMTT(60) DEF Inv, vars, recorder, document, calls, TypeInv, TypeOK, ShapeInv, Bottom, Appending, Throwing, Faulting,
  Locates, PendingLocated, OnePending, Pending, Locating, Lost, Doomed, Closing, TasksLocated, Announces,
  ToldAnnounced, ToldOnce, LoggedOnce, AnnouncedTold, SettledAnnounced, RunningKnown, FirstGuarded, ReadsTold,
  LogTold, Told, Telling, Known, Alone, Recording, Parsing, CheckpointsOfParsed, Numbering, Sequenced, Counted,
  Ordered, Written, Opening, HeaderTop, EnvTop, Opened

LEMMA InvInit == ASSUME Init PROVE Inv
<1>1. /\ stack \in Seq(Items) /\ Len(stack) = 3 /\ DOMAIN stack = 1..3 /\ stack # <<>>
      /\ stack[1] = Emit("Header") /\ stack[2] = Emit("Env") /\ stack[3] = Step("guard")
  <2>1. Emit("Header") \in Items /\ Emit("Env") \in Items /\ Step("guard") \in Items
    BY ItemsMade, StepsMade DEF Dos, Records, Kinds
  <2>2. stack = Append(<<Emit("Header"), Emit("Env")>>, Step("guard"))
    BY DEF Init, Start, Guarded
  <2>. QED BY <2>1, <2>2, ThreeItems
<1>2. /\ stack[1].do = "emit" /\ stack[1].kind = "Header" /\ stack[1].script = "none"
      /\ stack[2].do = "emit" /\ stack[2].kind = "Env" /\ stack[2].script = "none"
      /\ stack[3].do = "guard" /\ stack[3].kind = "none"
  BY <1>1, Fields
<1>3. \A i \in DOMAIN stack : i = 1 \/ i = 2 \/ i = 3
  BY <1>1
<1>4. log = <<>> /\ DOMAIN log = {} /\ Len(log) = 0 /\ ~thrown /\ Recording
  BY DEF Init, Recording
<1>5. TypeInv
  <2>a. inFault \in BOOLEAN /\ ripe \in BOOLEAN /\ thrown \in BOOLEAN
    BY Zenon DEF Init
  <2>b. /\ state = "recording" /\ nextSeq = 1 /\ ordinal = 0 /\ since = 0 /\ halts = 0 /\ loading = 1
        /\ running = "none" /\ announced = {} /\ settled = {}
    BY DEF Init
  <2>1. TypeOK
    BY <2>a, <2>b DEF TypeOK
  <2>. QED BY <1>1, <1>2, <1>3, <1>4, <2>1 DEF TypeInv
<1>6. ShapeInv
  <2>1. Follows(stack[1], stack[2]) /\ Follows(stack[2], stack[3]) /\ Last(stack[3])
    BY <1>1, <1>2 DEF Follows, Last
  <2>2. \A i \in 1..Len(stack) : (stack[i].kind = "none") <=> (stack[i].do \notin Records)
    BY <1>1, <1>2, <1>3 DEF Records
  <2>3. \A i \in 1..Len(stack) - 1 : i = 1 \/ i = 2
    BY <1>1
  <2>4. \A i \in 1..Len(stack) - 1 : Follows(stack[i], stack[i + 1])
    BY <2>1, <2>3
  <2>. QED BY <1>1, <2>1, <2>2, <2>4 DEF ShapeInv, Shape
<1>7. Bottom /\ Appending /\ Throwing
  BY <1>2, <1>3, <1>4 DEF Bottom, Appending, Throwing
<1>8. Faulting
  BY <1>2, <1>3 DEF Faulting, Init
<1>9. Locates
  BY <1>2, <1>3, <1>4 DEF Locates, PendingLocated, OnePending, Pending, Begins, TasksLocated
<1>10. Announces
  <2>1. \A i \in DOMAIN stack : ~Teller(stack[i]) /\ stack[i].kind # "Read"
    BY <1>2, <1>3 DEF Teller
  <2>2. announced = {} /\ settled = {} /\ running = "none"
    BY DEF Init
  <2>. QED BY <1>4, <2>1, <2>2 DEF Announces, ToldAnnounced, ToldOnce, LoggedOnce, AnnouncedTold,
       SettledAnnounced, RunningKnown, Known, FirstGuarded, ReadsTold, Reading, LogTold, Told, ToldIn, Telling
<1>11. Parsing
  BY <1>2, <1>3, <1>4 DEF Parsing, CheckpointsOfParsed
<1>12. Numbering
  <2>1. Log!Numbered(log) = {} /\ Log!Checkpoints(log) = {}
    BY <1>4 DEF Log!Numbered, Log!Checkpoints
  <2>2. Cardinality(Log!Numbered(log)) = 0 /\ Cardinality(Log!Checkpoints(log)) = 0
    BY <2>1, FS_EmptySet
  <2>3. nextSeq = 1 /\ ordinal = 0
    BY DEF Init
  <2>4. Log!LastSeq(log) = 0
    BY <2>2, LastSeqCounts
  <2>5. ~Written
    BY <1>2, <1>3 DEF Written
  <2>6. Sequenced
    BY <2>3, <2>4 DEF Sequenced
  <2>7. Counted
    BY <2>2, <2>3, <2>5 DEF Counted
  <2>. QED BY <1>2, <1>3, <2>6, <2>7 DEF Numbering, Ordered, ToCheck
<1>13. Opening
  BY <1>1, <1>2, <1>4 DEF Opening, HeaderTop, Unwritten
<1>. QED BY <1>5, <1>6, <1>7, <1>8, <1>9, <1>10, <1>11, <1>12, <1>13 DEF Inv

(* What the invariant implies.                                             *)
LEMMA InvContained == ASSUME Inv PROVE FaultsContained
<1>1. NeverThrows
  BY DEF Inv, Throwing, NeverThrows, Quiet
<1>2. SinkHaltedOnce
  BY DEF Inv, Faulting, SinkHaltedOnce, Quiet
<1>. QED BY <1>1, <1>2 DEF FaultsContained

LEMMA InvTold == ASSUME Inv PROVE DocumentTold
<1> DEFINE Tasks(s) == {i \in DOMAIN log : log[i].kind = "DocTask" /\ log[i].script = s}
<1>1. ASSUME NEW s \in Scripts PROVE Cardinality(Tasks(s)) <= 1
  <2>1. CASE Tasks(s) = {}
    BY <2>1, FS_EmptySet
  <2>2. CASE Tasks(s) # {}
    <3>1. PICK i \in DOMAIN log : log[i].kind = "DocTask" /\ log[i].script = s
      BY <2>2
    <3>2. s # "none"
      BY ScriptsAssumption
    <3>3. Tasks(s) = {i}
      BY <3>1, <3>2 DEF Inv, Announces, LoggedOnce
    <3>4. Cardinality({i}) = 1
      BY FS_Singleton
    <3>. QED BY <3>3, <3>4
  <2>. QED BY <2>1, <2>2
<1>2. ASSUME NEW i \in DOMAIN log, log[i].kind = "Read", log[i].script # "none"
      PROVE \E j \in Tasks(log[i].script) : j < i
  BY <1>2 DEF Inv, Announces, LogTold
<1>3. ASSUME Quiet, Recording, NEW s \in settled PROVE Tasks(s) # {}
  <2>1. DOMAIN stack = {}
    BY <1>3 DEF Quiet
  <2>2. ~Closing
    BY <1>3, <2>1 DEF Closing, Doomed
  <2>3. Told(s)
    BY <1>3, <2>1, <2>2 DEF Inv, Announces, SettledAnnounced, AnnouncedTold, Telling
  <2>. QED BY <2>3 DEF Told, ToldIn
<1>4. ScriptsAnnounced
  BY <1>1, <1>2, <1>3 DEF ScriptsAnnounced
<1>. QED BY <1>4 DEF DocumentTold, Inv, TypeInv, Locates, Parsing

(* What the step does to the log.                                          *)
LEMMA LogSteps == ASSUME Move PROVE log' = log \/ Writes \/ Closes \/ Refuses
BY DEF Move, Drops, Counts, Falls, Catches, Guards, GuardFaults, FirstOf, Turns, Digests,
   EndFaults, Halts, Rereads, Reends, Refaults, Rehalts, Marks, Idle,
   Page, PageReads, TaskBegins, ScriptRuns, ScriptSettles, Parsed, Dispatches, PageEnds, Halt, SeamThrows

(* A record is added to the log as BoundaryLog allows.                     *)
LEMMA AppendsOne == ASSUME TypeInv, NEW f \in Frames, log' = Append(log, f)
  PROVE Log!OneMore /\ Log!Added = f
<1>1. Len(log) \in Nat /\ Len(log') = Len(log) + 1 /\ log'[Len(log) + 1] = f /\ log' \in Seq(Frames)
      /\ \A i \in 1..Len(log) : log'[i] = log[i]
  BY DEF TypeInv
<1>2. SubSeq(log', 1, Len(log)) = log
  BY <1>1, SMT DEF TypeInv
<1>. QED BY <1>1, <1>2 DEF Log!OneMore, Log!Added

LEMMA CheckpointsCount == \A l : Log!Cardinality(Log!Checkpoints(l)) = Cardinality(Log!Checkpoints(l))
BY DEF Log!Cardinality, Cardinality

LEMMA WritesOn == ASSUME Inv, Writes PROVE Log!OneMore /\ Log!Continues(log, Log!Added)
<1>1. PICK f \in Frames :
        /\ log' = Append(log, f) /\ f.kind = stack[1].kind /\ f.n = stack[1].n /\ stack[1] \in Items
        /\ f.seq = (IF Numbers(stack[1]) THEN nextSeq ELSE 0) /\ 1 \in DOMAIN stack
        /\ Recording /\ ~thrown /\ stack[1].do = "sanitize" /\ f.kind # "none"
  BY Written1 DEF Inv
<1>2. Log!OneMore /\ Log!Added = f
  BY <1>1, AppendsOne DEF Inv
<1>3. ~Doomed /\ Len(log) \in Nat
  BY <1>1 DEF Doomed, Inv, TypeInv
<1>4. CASE Len(log) = 0
  <2>1. f.kind = "Header"
    BY <1>1, <1>3, <1>4 DEF Inv, Opening, HeaderTop
  <2>. QED BY <1>2, <1>4, <2>1 DEF Log!Continues
<1>5. CASE Len(log) = 1
  <2>1. f.kind = "Env"
    BY <1>1, <1>3, <1>5 DEF Inv, Opening, HeaderTop, EnvTop
  <2>. QED BY <1>2, <1>5, <2>1 DEF Log!Continues
<1>6. CASE Len(log) # 0 /\ Len(log) # 1
  <2>1. f.kind \notin {"Header", "Env", "End", "Fault"}
    BY <1>1, <1>3, <1>6 DEF Inv, Opening, Opened, Items, Kinds
  <2>2. f.seq = Log!LastSeq(log) + 1
    BY <1>1, <2>1 DEF Numbers, Unnumbered, Inv, Numbering, Sequenced
  <2>3. ASSUME f.kind = "Checkpoint" PROVE f.n = Cardinality(Log!Checkpoints(log))
    <3>1. ToCheck(stack[1]) /\ \A j \in 1..1 - 1 : FALSE
      BY <1>1, <2>3 DEF ToCheck, Unwritten
    <3>2. f.n = ordinal
      BY <1>1, <1>3, <3>1 DEF Inv, Numbering, Ordered
    <3>3. ASSUME NEW i \in DOMAIN stack, stack[i].do = "append" PROVE FALSE
      <4>1. i # 1 /\ i \in Nat /\ i >= 1
        BY <1>1, <3>3 DEF Inv, TypeInv
      <4>2. 1 \in 1..i - 1
        BY <4>1
      <4>. QED BY <1>1, <2>3, <3>3, <4>2 DEF Inv, Appending
    <3>4. ~Written
      BY <1>1, <3>3 DEF Written
    <3>5. Cardinality(Log!Checkpoints(log)) = ordinal + 0
      BY <1>1, <1>3, <3>4 DEF Inv, Numbering, Counted
    <3>. QED BY <3>2, <3>5 DEF Inv, TypeInv, TypeOK
  <2>4. f.kind = "Checkpoint" => f.n = Log!Cardinality(Log!Checkpoints(log))
    BY <2>3, CheckpointsCount
  <2>. QED BY <1>2, <1>6, <2>1, <2>2, <2>4 DEF Log!Continues
<1>. QED BY <1>4, <1>5, <1>6


Describing == \E i \in DOMAIN stack : stack[i].do = "describe"
(* Every move writes, closes or stops the log of BoundaryLog, or leaves it *)
(* alone.                                                                  *)
LEMMA LogKept == ASSUME Inv, TypeInv', Move
  PROVE Log!Next \/ (log' = log /\ (Recording <=> Recording') /\ (Describing <=> Describing'))
<1>0. TypeInv /\ ShapeInv /\ Throwing /\ Faulting
  BY DEF Inv
<1>1. CASE Recording'
  <2>1. Recording
    BY <1>1, StateMoves
  <2>2. CASE Writes
    BY <1>1, <2>1, <2>2, WritesOn DEF Log!Next, Log!Write
  <2>3. CASE ~Writes
    <3>1. ~Closes /\ ~Refuses
      BY <1>0, <1>1, <2>1, Quieter DEF Closes, Refuses, Tops, FirstOnly, Recording, TypeInv
    <3>2. ~Describing /\ ~Describing'
      <4>1. ~Describing
        BY <1>0, <2>1, Quieter DEF Describing, FirstOnly
      <4>2. ~GuardFaults /\ ~Refaults
        BY <1>1 DEF GuardFaults, Refaults, Recording
      <4>. QED BY <1>0, <4>1, <4>2, DescribeMoves DEF Describing
    <3>. QED BY <1>1, <2>1, <2>3, <3>1, <3>2, LogSteps
  <2>. QED BY <2>2, <2>3
<1>2. CASE Recording /\ ~Recording'
  <2>1. CASE GuardFaults \/ Refaults
    <3>1. log' = log /\ stack'[1].do = "describe" /\ Len(stack') >= 1
      BY <1>0, <2>1, Fields DEF GuardFaults, Refaults, Tops, TypeInv
    <3>2. \E i \in DOMAIN stack' : stack'[i].do = "describe"
      BY <3>1 DEF TypeInv
    <3>. QED BY <1>2, <3>1, <3>2 DEF Log!Next, Log!Close
  <2>2. CASE ~(GuardFaults \/ Refaults)
    <3>1. ~\E i \in DOMAIN stack' : stack'[i].do = "describe"
      BY <1>0, <2>2, DescribeMoves
    <3>2. log' = log \/ (Log!OneMore /\ Log!Stops(log, Log!Added))
      <4>1. CASE Closes /\ log' # log
        <5>1. /\ log' = Append(log, Frame("End", 0, nextSeq - 1, "none"))
              /\ nextSeq - 1 \in Nat
          BY <1>0, <4>1 DEF Closes, TypeInv, TypeOK
        <5>2. Frame("End", 0, nextSeq - 1, "none") \in Frames
          BY <1>0, <5>1, FramesMade DEF Names
        <5>3. Frame("End", 0, nextSeq - 1, "none").kind = "End" /\ Frame("End", 0, nextSeq - 1, "none").n = nextSeq - 1
          BY DEF Frame
        <5>4. nextSeq - 1 = Log!LastSeq(log)
          BY <1>0, <1>2, LogCounts DEF Inv, Numbering, Sequenced
        <5>5. Log!OneMore /\ Log!Added = Frame("End", 0, nextSeq - 1, "none")
          BY <1>0, <5>1, <5>2, AppendsOne
        <5>. QED BY <5>3, <5>4, <5>5 DEF Log!Stops
      <4>2. ~Writes /\ ~Refuses
        BY <1>2 DEF Writes, Refuses, recorder, Recording
      <4>. QED BY <4>1, <4>2, LogSteps
    <3>. QED BY <1>2, <3>1, <3>2 DEF Log!Next, Log!Stop
  <2>. QED BY <2>1, <2>2
<1>3. CASE ~Recording
  <2>1. ~Recording'
    BY <1>3, StateMoves
  <2>2. ~GuardFaults /\ ~Refaults /\ ~Writes /\ ~Closes
    BY <1>3 DEF GuardFaults, Refaults, Called, Writes, Closes
  <2>3. ~\E i \in DOMAIN stack' : stack'[i].do = "describe"
    BY <1>0, <2>2, DescribeMoves
  <2>4. CASE Describing
    <3>1. log' = log \/ (Log!OneMore /\ Log!Stops(log, Log!Added))
      <4>1. CASE Refuses
        <5>1. /\ log' = Append(log, Frame("Fault", nextSeq, 0, "none"))
              /\ nextSeq \in Nat
          BY <1>0, <4>1 DEF Refuses, TypeInv, TypeOK
        <5>2. Frame("Fault", nextSeq, 0, "none") \in Frames
          BY <1>0, <5>1, FramesMade DEF Names
        <5>3. Frame("Fault", nextSeq, 0, "none").kind = "Fault" /\ Frame("Fault", nextSeq, 0, "none").seq = nextSeq
          BY DEF Frame
        <5>4. nextSeq = Log!LastSeq(log) + 1
          BY <2>4 DEF Describing, Inv, Numbering, Sequenced
        <5>5. Log!OneMore /\ Log!Added = Frame("Fault", nextSeq, 0, "none")
          BY <1>0, <5>1, <5>2, AppendsOne
        <5>. QED BY <5>3, <5>4, <5>5 DEF Log!Stops
      <4>. QED BY <4>1, <2>2, LogSteps
    <3>. QED BY <1>3, <2>1, <2>3, <2>4, <3>1 DEF Log!Next, Log!Stop, Describing
  <2>5. CASE ~Describing
    <3>1. ~Refuses
      BY <1>0, <2>5, FirstItem DEF Refuses, Describing, Tops
    <3>. QED BY <1>3, <2>1, <2>2, <2>3, <2>5, <3>1, LogSteps DEF Describing
  <2>. QED BY <2>4, <2>5
<1>. QED BY <1>1, <1>2, <1>3

-----------------------------------------------------------------------------
(* The invariant holds of every state the recorder reaches, for every      *)
(* bound, every set of scripts and whatever the outside may call back.     *)
THEOREM InvHolds == Spec => []Inv
<1>1. Init => Inv
  BY InvInit
<1>2. Inv /\ [Next]_vars => Inv'
  BY InvMoves, InvStutters
<1>. QED BY <1>1, <1>2, PTL DEF Spec

(* A fault stays in the recorder: nothing it runs throws into the page,    *)
(* and the sink is halted once for a session that faulted and never for    *)
(* one that did not (guard, fault and haltSink).                           *)
THEOREM RecorderContainsFaults == Spec => []FaultsContained
<1>1. Inv => FaultsContained
  BY InvContained
<1>. QED BY <1>1, InvHolds, PTL

(* What the log tells of the document is true of it: each script's records *)
(* come after its one DocTask, each task before load has the document's    *)
(* position measured for it alone, and no checkpoint is of a document that *)
(* was being parsed (recordDocumentProgress, checkpoint).                  *)
THEOREM RecorderTellsDocument == Spec => []DocumentTold
<1>1. Inv => DocumentTold
  BY InvTold
<1>. QED BY <1>1, InvHolds, PTL

(* The recorder implements BoundaryLog: whatever the callbacks do, the log *)
(* is Header, Env, records and checkpoints numbered without a hole, and    *)
(* at most one record that says why it stops (push, end, fault).           *)
THEOREM RecorderKeepsLog == Spec => KeepsLog
<1>1. Init => Log!Init
  BY DEF Init, Recording, Log!Init
<1>2. Inv /\ Inv' /\ [Next]_vars => [Log!Next]_<<log, IF Recording THEN "open"
           ELSE IF \E i \in DOMAIN stack : stack[i].do = "describe" THEN "closing"
           ELSE "closed">>
  <2> SUFFICES ASSUME Inv, Inv', [Next]_vars
      PROVE Log!Next \/ UNCHANGED <<log, IF Recording THEN "open"
           ELSE IF \E i \in DOMAIN stack : stack[i].do = "describe" THEN "closing"
           ELSE "closed">>
    OBVIOUS
  <2>1. CASE Next
    <3>1. Move
      BY <2>1, NextMoves DEF Inv
    <3>2. Log!Next \/ (log' = log /\ (Recording <=> Recording') /\ (Describing <=> Describing'))
      BY <3>1, LogKept DEF Inv
    <3>. QED BY <3>2 DEF Describing
  <2>2. CASE UNCHANGED vars
    BY <2>2 DEF vars, recorder, calls, Recording
  <2>. QED BY <2>1, <2>2
<1>. QED BY <1>1, <1>2, InvHolds, PTL DEF Spec, KeepsLog, Log!Spec
=============================================================================
