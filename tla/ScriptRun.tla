----------------------------- MODULE ScriptRun -----------------------------
(***************************************************************************)
(* What a module of JavaScript does when it runs (external: ECMA-262), as  *)
(* far as the instrumenter's work can be told from it: the calls out of    *)
(* the module, the values its names come to hold, and how it ends.  The    *)
(* module may hold the `__ct` calls the instrumenter adds, which only      *)
(* report.                                                                 *)
(*                                                                         *)
(* A statement is a record                                                 *)
(*    k     its kind          xs     the names it binds, writes or reads   *)
(*    id    its position      parts  the statement lists inside it         *)
(*    has   its clauses and marks                                          *)
(*    of    the function a "ret" names                                     *)
(*                                                                         *)
(* A run is told as events [e, id, stack, vals]: `stack` is the functions  *)
(* really running, the module (0) first. Next to what a program can see of *)
(* itself ("ext", "stored", "exported", "strict", "super") and what the    *)
(* recorder is told ("step", "write", "enter", "ret") an event "at" marks  *)
(* each statement of a list as it starts, with the names of its own        *)
(* function it can read then, and "unwound" a call that an exception left. *)
(***************************************************************************)
EXTENDS Integers, Sequences, FiniteSets, SequencesExt

LOCAL Rng(s) == {s[i] : i \in DOMAIN s}

Uninitialised == 0   \* a `let` before its declaration has run
Undefined == 1
StoredBy(n) == 10 + n.id

Reports == {"step", "write", "enter", "ret"}

(* ---- Scopes: innermost last; `base` marks a function's own ------------ *)

LetNames(list) == UNION {Rng(list[i].xs) : i \in {j \in DOMAIN list : list[j].k \in {"let", "export"}}}

RECURSIVE VarNames(_)
VarNames(list) ==
  UNION {IF list[i].k = "var" THEN Rng(list[i].xs)
         ELSE IF list[i].k = "fun" THEN {}
         ELSE UNION {VarNames(list[i].parts[p]) : p \in DOMAIN list[i].parts} : i \in DOMAIN list}

Binding(names, v) == [x \in names |-> v]
Both(f, g) == [x \in DOMAIN f \cup DOMAIN g |-> IF x \in DOMAIN g THEN g[x] ELSE f[x]]

Scope(base, f) == [base |-> base, at |-> f]
Push(st, base, f) == [st EXCEPT !.env = Append(@, Scope(base, f))]
Pop(st) == [st EXCEPT !.env = Front(@)]

Holders(env, x) == {i \in DOMAIN env : x \in DOMAIN env[i].at}
Innermost(env, x) == CHOOSE i \in Holders(env, x) : \A j \in Holders(env, x) : j <= i
Readable(env, x) == Holders(env, x) # {} /\ env[Innermost(env, x)].at[x] # Uninitialised
Read(env, x) == env[Innermost(env, x)].at[x]

(* The names a statement can read that belong to the running function.     *)
OwnFrom(env) == CHOOSE i \in DOMAIN env : env[i].base /\ \A j \in DOMAIN env : env[j].base => j <= i
OwnNames(env) ==
  {x \in UNION {DOMAIN env[i].at : i \in OwnFrom(env) .. Len(env)} : Readable(env, x)}

(* ---- Events and completions -------------------------------------------- *)

Tell(st, e, id, vals) ==
  [st EXCEPT !.told = Append(@, [e |-> e, id |-> id, stack |-> st.stack, vals |-> vals])]
Ends(st, how) == [st EXCEPT !.how = how]

(* What the surroundings decide: a branch, a turn of a loop, a throw.      *)
Chosen(st) == IF st.choices = <<>> THEN 0 ELSE Head(st.choices)
Took(st) == [st EXCEPT !.choices = IF @ = <<>> THEN @ ELSE Tail(@)]

ValuesOf(env, xs) == [i \in DOMAIN xs |-> <<xs[i], Read(env, xs[i])>>]

(* Naming a binding that does not exist or is not initialised throws.      *)
Naming(st, xs, after) ==
  IF \E i \in DOMAIN xs : ~Readable(st.env, xs[i]) THEN Ends(st, "throw") ELSE after

(* ---- Statements --------------------------------------------------------- *)

RECURSIVE Perform(_, _), PerformList(_, _), Turns(_, _)

PerformList(list, st) ==
  IF list = <<>> \/ st.how # "normal" THEN st
  ELSE LET n == Head(list)
           plain == n.k \notin Reports \cup {"empty", "directive"}
           own == SetToSeq(OwnNames(st.env))
           at == IF plain THEN Tell(st, "at", n.id, ValuesOf(st.env, own)) ELSE st
       IN  PerformList(Tail(list), Perform(n, at))

PerformBlock(list, st) ==
  Pop(PerformList(list, Push(st, FALSE, Binding(LetNames(list), Uninitialised))))

(* A store: `let` initialises its own scope, the others the innermost.     *)
Store(n, st) ==
  LET put(env, x) == LET i == IF n.k \in {"let", "export"} THEN Len(env) ELSE Innermost(env, x)
                     IN  [env EXCEPT ![i].at[x] = StoredBy(n)]
      env == FoldLeft(put, st.env, n.xs)
      done == [st EXCEPT !.env = env]
      told == Tell(done, IF n.k = "export" THEN "exported" ELSE "stored", n.id, ValuesOf(env, n.xs))
  IN  IF n.k = "set" THEN Naming(st, n.xs, told) ELSE told

(* A loop's turns: each is decided by the surroundings.                    *)
Turns(n, st) ==
  IF Chosen(st) = 0 THEN Took(st)
  ELSE LET r == PerformBlock(n.parts[1], Took(st))
       IN  CASE r.how = "normal" -> Turns(n, r)
             [] r.how = "break"  -> Ends(r, "normal")
             [] OTHER            -> r

Choose(n, st) ==
  CASE Chosen(st) = 1    -> PerformBlock(n.parts[1], Took(st))
    [] "elseif" \in n.has -> Perform(n.parts[2][1], Took(st))
    [] "else" \in n.has  -> PerformBlock(n.parts[2], Took(st))
    [] OTHER             -> Took(st)

(* The cases share one scope; the chosen one falls into those after it.    *)
Switch(n, st) ==
  LET first == IF Chosen(st) = 0 THEN 1 ELSE Len(n.parts)
      all == FlattenSeq(n.parts)
      rest == FlattenSeq(SubSeq(n.parts, first, Len(n.parts)))
      r == Pop(PerformList(rest, Push(Took(st), FALSE, Binding(LetNames(all), Uninitialised))))
  IN  IF r.how = "break" THEN Ends(r, "normal") ELSE r

Try(n, st) ==
  LET b == PerformBlock(n.parts[1], st)
      caught == Push(Ends(b, "normal"), FALSE,
                     Both(Binding(LetNames(n.parts[2]), Uninitialised), Binding(Rng(n.xs), StoredBy(n))))
      h == IF b.how = "throw" /\ "catch" \in n.has THEN Pop(PerformList(n.parts[2], caught)) ELSE b
      f == PerformBlock(n.parts[3], Ends(h, "normal"))
  IN  IF "finally" \notin n.has THEN h
      ELSE IF f.how = "normal" THEN Ends(f, h.how) ELSE f

(* A call of a function written where it is called.  A constructor of a    *)
(* derived class has an instance, and counts as entered, once super() has  *)
(* returned; one that never calls it throws when it ends, unless it        *)
(* returns an object.                                                      *)
OwnSuper(n) == \E i \in DOMAIN n.parts[1] : n.parts[1][i].k = "super"
FirstStrict(list, st, id) ==
  IF list # <<>> /\ Head(list).k = "directive" THEN Tell(st, "strict", id, <<>>) ELSE st
Call(n, st) ==
  LET frame == IF "static" \in n.has \/ ("derived" \in n.has /\ OwnSuper(n)) THEN st.stack
               ELSE Append(st.stack, n.id)
      body == n.parts[1]
      scope == Both(Both(Binding(VarNames(body), Undefined), Binding(LetNames(body), Uninitialised)),
                    Binding(Rng(n.xs), StoredBy(n)))
      called == [Push(st, TRUE, scope) EXCEPT !.stack = frame, !.ctor = n.id]
      r == PerformList(body, FirstStrict(body, called, n.id))
      back == [Pop(r) EXCEPT !.stack = st.stack, !.ctor = st.ctor]
      nothing == "derived" \in n.has /\ r.how = "normal"
                   /\ ~\E i \in Len(st.told) + 1 .. Len(r.told) : r.told[i].e = "super" /\ r.told[i].id = n.id
      left == r.how = "throw" /\ Len(r.stack) > Len(st.stack)
  IN  Ends(IF left THEN Tell(back, "unwound", n.id, <<>>) ELSE back,
           IF r.how = "throw" \/ nothing THEN "throw" ELSE "normal")

(* A class whose constructor starts its frame at its own super().          *)
Super(st) ==
  LET begun == IF Last(st.stack) = st.ctor THEN st.stack ELSE Append(st.stack, st.ctor)
  IN  [Tell(st, "super", st.ctor, <<>>) EXCEPT !.stack = begun]

Return(n, st) ==
  LET r == IF n.parts = <<>> THEN st ELSE Perform(n.parts[1][1], st)
  IN  IF r.how # "normal" THEN r
      ELSE Ends(IF "ret" \in n.has THEN Tell(r, "ret", n.of, <<>>) ELSE r, "return")

Perform(n, st) ==
  CASE n.k = "ext" -> Ends(Took(Tell(st, "ext", n.id, <<>>)),
                           IF Chosen(st) = 1 THEN "throw" ELSE "normal")
    [] n.k \in {"let", "var", "set", "export"} -> Store(n, st)
    [] n.k = "fun" -> Call(n, st)
    [] n.k = "super" -> Super(st)
    [] n.k = "return" -> Return(n, st)
    [] n.k \in {"throw", "break"} -> Ends(st, n.k)
    [] n.k = "if" -> Choose(n, st)
    [] n.k = "while" -> Turns(n, st)
    [] n.k = "for" -> Pop(Turns(n, Push(st, FALSE, Binding(Rng(n.xs), StoredBy(n)))))
    [] n.k = "switch" -> Switch(n, st)
    [] n.k = "try" -> Try(n, st)
    [] n.k = "label" -> LET r == Perform(n.parts[1][1], st)
                        IN  IF r.how = "break" THEN Ends(r, "normal") ELSE r
    [] n.k = "block" -> PerformBlock(n.parts[1], st)
    [] n.k \in {"step", "write", "enter"} -> Naming(st, n.xs, Tell(st, n.k, n.id, ValuesOf(st.env, n.xs)))
    [] n.k = "ret" -> Tell(st, "ret", n.of, <<>>)
    [] OTHER -> st

(* A run of the module under the surroundings' choices.                    *)
RunOf(body, choices) ==
  LET scope == Both(Binding(VarNames(body), Undefined), Binding(LetNames(body), Uninitialised))
      st == [told |-> <<>>, env |-> <<Scope(TRUE, scope)>>, choices |-> choices, how |-> "normal",
             stack |-> <<0>>, ctor |-> 0]
      r == PerformList(body, FirstStrict(body, st, 0))
  IN  [told |-> r.told, how |-> r.how]
=============================================================================
