---------------------------- MODULE Instrumenter ----------------------------
(***************************************************************************)
(* The instrumenter: a module is parsed, scopes.ts finds the names each    *)
(* statement's step may read, visitor.ts adds the `__ct` calls, and what   *)
(* comes out runs in the place of what went in.                            *)
(*                                                                         *)
(* A module is written one piece at a time (`open` holds the constructs    *)
(* not yet closed), then transformed, then run twice with the same choices *)
(* of its surroundings: as written and as transformed.                     *)
(***************************************************************************)
EXTENDS ScriptRun, TLC

CONSTANTS
  Forms,         \* the statements a module may use
  Calls,         \* the functions it may hold, each called where it is written
  Places,        \* where in an expression they may stand
  Patterns,      \* the shapes of pattern a declaration or an assignment may have
  Locals,        \* the names a `let`, a parameter or a catch clause may bind
  MaxNodes,      \* statements in a module
  MaxChoices,    \* choices its surroundings may take
  MaxStepLocals, \* DEFAULT_MAX_STEP_LOCALS: names one step may read
  Edges          \* what else a module may do; see the names below

VARIABLES open, count, phase, source, output, ran

vars == <<open, count, phase, source, output, ran>>

(* The edges, each with what happens to it:                                *)
(*   "shadowed later"   a name read by a step that an inner `let` further  *)
(*                      down, or one of an earlier case, takes over        *)
(*   "labelled return"  `l: return`, which is not rewritten                *)
(*   "guarded return"   a return inside a try with a finally clause        *)
(* So do the patterns "key 0" and "pattern in rest", which bind names no   *)
(* write tells of.                                                         *)
(* In a derived class's constructor only calls and `let`s precede super(). *)

LOCAL Rng(s) == {s[i] : i \in DOMAIN s}
Node(k, id, xs, has, parts, of) == [k |-> k, id |-> id, xs |-> xs, has |-> has, parts |-> parts, of |-> of]

(* ---- scopes.ts: the names each step may read ---------------------------- *)

(* A frame's blocks: parameters and `var`s in the first, `let`s, catch     *)
(* parameters and loop binders in the last.                                *)
DeclareIn(blocks, i, xs) ==
  [blocks EXCEPT ![i] = @ \o SelectSeq(xs, LAMBDA x : x \notin Rng(blocks[i]))]
DeclareLexical(f, xs) == [f EXCEPT !.blocks = DeclareIn(@, Len(@), xs)]
DeclareVar(f, xs) == [f EXCEPT !.blocks = DeclareIn(@, 1, xs)]
PushBlock(f) == [f EXCEPT !.blocks = Append(@, <<>>)]
PopBlock(f) == [f EXCEPT !.blocks = IF Len(@) > 1 THEN Front(@) ELSE @]

(* The names in sight, outermost first, each once.                         *)
VisibleNames(f) ==
  FoldLeft(LAMBDA seen, b : seen \o SelectSeq(b, LAMBDA x : x \notin Rng(seen)), <<>>, f.blocks)
RecordNames(f, n) == [f EXCEPT !.names = (n.id :> VisibleNames(f)) @@ @]

(* The leaves of a pattern, whatever its shape, are the names it binds.    *)
BindingNames(n) == n.xs

(* Mutated: a `let` is hoisted to its function, and outlives its block.    *)
LetsHoisted(n, f) == IF n.k \in {"let", "var", "export"} THEN DeclareVar(f, BindingNames(n)) ELSE f

(* A declaration's names count from the statement after it.                *)
DeclareVariables(n, f) ==
  CASE n.k \in {"let", "export"} -> DeclareLexical(f, BindingNames(n))
    [] n.k = "var" -> DeclareVar(f, BindingNames(n))
    [] OTHER -> f

NewFrame(f) == [f EXCEPT !.blocks = <<<<>>>>]
Leave(f, g) == [f EXCEPT !.names = g.names]

(* The places of an expression the analysis descends to.                   *)
Analysed == {"callee", "argument", "object", "right", "operand", "test", "element", "value",
             "template", "tag", "yielded", "parenthesised", "optional", "cast", "case"}
Place(n) == CHOOSE p \in Places : p \in n.has

RECURSIVE WalkStatement(_, _), WalkList(_, _)

WalkList(list, f) ==
  IF list = <<>> THEN f
  ELSE WalkList(Tail(list), WalkStatement(Head(list), RecordNames(f, Head(list))))

WalkBlock(list, f) == PopBlock(WalkList(list, PushBlock(f)))

(* `walkFunctionLike`: a frame of its own, the parameters its first names. *)
WalkFunction(n, f) ==
  LET own == DeclareVar(NewFrame(f), n.xs)
  IN  Leave(f, WalkList(SelectSeq(n.parts[1], LAMBDA s : s.k # "directive"), own))

WalkExpression(n, f) == IF Place(n) \in Analysed THEN WalkFunction(n, f) ELSE f

WalkFor(n, f) == PopBlock(WalkBlock(n.parts[1], DeclareLexical(PushBlock(f), n.xs)))
WalkSwitch(n, f) == PopBlock(WalkList(FlattenSeq(n.parts), PushBlock(f)))
(* Mutated: the name a catch clause binds is forgotten.                    *)
CatchUnbound(n, f) ==
  LET h == WalkBlock(n.parts[2], WalkBlock(n.parts[1], f))
      c == IF "catch" \in n.has THEN h ELSE WalkBlock(n.parts[1], f)
  IN  IF "finally" \in n.has THEN WalkBlock(n.parts[3], c) ELSE c
WalkTry(n, f) ==
  LET b == WalkBlock(n.parts[1], f)
      h == PopBlock(WalkList(n.parts[2], DeclareLexical(PushBlock(b), n.xs)))
      c == IF "catch" \in n.has THEN h ELSE b
  IN  IF "finally" \in n.has THEN WalkBlock(n.parts[3], c) ELSE c
WalkIf(n, f) ==
  LET c == WalkBlock(n.parts[1], f)
  IN  CASE "elseif" \in n.has -> WalkStatement(n.parts[2][1], c)
        [] "else" \in n.has -> WalkBlock(n.parts[2], c)
        [] OTHER -> c

WalkStatement(n, f) ==
  CASE n.k \in {"let", "var", "export"} -> DeclareVariables(n, f)
    [] n.k = "fun" -> WalkExpression(n, f)
    [] n.k = "if" -> WalkIf(n, f)
    [] n.k \in {"while", "block"} -> WalkBlock(n.parts[1], f)
    [] n.k = "for" -> WalkFor(n, f)
    [] n.k = "switch" -> WalkSwitch(n, f)
    [] n.k = "try" -> WalkTry(n, f)
    [] n.k = "label" -> WalkStatement(n.parts[1][1], f)
    [] OTHER -> f

(* `walkModuleItem`: an export's declaration is walked and not recorded.   *)
WalkItem(f, n) == WalkStatement(n, IF n.k = "export" THEN f ELSE RecordNames(f, n))
ComputeStepLocals(body) ==
  FoldLeft(WalkItem, [blocks |-> <<<<>>>>, names |-> <<>>], body).names

(* ---- visitor.ts: the calls it adds --------------------------------------- *)

StepLocalsFor(n, names) ==
  IF n.id \notin DOMAIN names THEN <<>>
  ELSE SubSeq(names[n.id], 1, IF Len(names[n.id]) > MaxStepLocals THEN MaxStepLocals ELSE Len(names[n.id]))

MkStep(n, names) == Node("step", n.id, StepLocalsFor(n, names), {}, <<>>, 0)
MkWrite(id, x) == Node("write", id, <<x>>, {}, <<>>, 0)
MkEnter(fn, xs) == Node("enter", fn, xs, {}, <<>>, 0)
MkRet(fn) == Node("ret", 0, <<>>, {}, <<>>, fn)

IsExecutable(n) == n.k # "empty"
StepBefore(n, names) == IF IsExecutable(n) THEN <<MkStep(n, names)>> ELSE <<>>

(* The patterns whose leaves the walk of a destructuring finds: not the    *)
(* property of key 0, whose name is no name to it, nor a pattern as a rest.*)
Decomposed == {"name", "shorthand", "default", "renamed", "computed", "nested", "element", "after a hole", "rest"}

(* Mutated: a `var` with an initialiser is no assignment.                  *)
VarsUnwritten(n) == IF n.k \in {"let", "set"} THEN n.xs ELSE <<>>

(* A write for each name a declaration with an initialiser, or an          *)
(* assignment that is a statement, gives a value.                          *)
AssignmentSites(n) == IF n.k \in {"let", "var", "set"} /\ n.has \subseteq Decomposed THEN n.xs ELSE <<>>
WritesAfter(n) == [i \in DOMAIN AssignmentSites(n) |-> MkWrite(n.id, AssignmentSites(n)[i])]

(* Mutated: a statement is stepped once it has run.                        *)
SteppedLate(n, was, names) == <<n>> \o StepBefore(was, names) \o WritesAfter(n)

(* A statement with its step before it and its writes after it.            *)
Stepped(n, was, names) == StepBefore(was, names) \o <<n>> \o WritesAfter(n)

(* `completesNormally`: whether control can reach the end of a list.       *)
RECURSIVE StatementCompletes(_)
(* Mutated: no `if` or `try` completes.                                    *)
EndsAtIfOrTry(list) == list = <<>> \/ Last(list).k \notin {"return", "throw", "if", "try"}
Completes(list) == list = <<>> \/ StatementCompletes(Last(list))
StatementCompletes(n) ==
  CASE n.k \in {"return", "throw"} -> FALSE
    [] n.k = "block" -> Completes(n.parts[1])
    [] n.k = "if" /\ "elseif" \in n.has -> Completes(n.parts[1]) \/ StatementCompletes(n.parts[2][1])
    [] n.k = "if" /\ "else" \in n.has -> Completes(n.parts[1]) \/ Completes(n.parts[2])
    [] n.k = "try" -> /\ "finally" \in n.has => Completes(n.parts[3])
                      /\ Completes(n.parts[1]) \/ ("catch" \in n.has /\ Completes(n.parts[2]))
    [] OTHER -> TRUE

(* `rewriteReturns`: the returns of a list, and of the lists inside its    *)
(* statements, but not of the functions inside them.                       *)
RECURSIVE RewriteReturns(_, _), RewriteIn(_, _)
RewriteReturns(list, fn) ==
  [i \in DOMAIN list |->
     IF list[i].k = "return" THEN [list[i] EXCEPT !.has = @ \cup {"ret"}, !.of = fn] ELSE RewriteIn(list[i], fn)]
RewriteIn(n, fn) ==
  CASE n.k \in {"block", "while", "for", "switch", "try"} ->
         [n EXCEPT !.parts = [p \in DOMAIN @ |-> RewriteReturns(@[p], fn)]]
    [] n.k = "if" -> [n EXCEPT !.parts = [p \in DOMAIN @ |->
                        IF p = 2 /\ "elseif" \in n.has THEN <<RewriteIn(@[p][1], fn)>> ELSE RewriteReturns(@[p], fn)]]
    [] n.k = "label" -> [n EXCEPT !.parts = <<<<RewriteIn(@[1][1], fn)>>>>]
    [] OTHER -> n

(* The places of an expression the transformer descends to.                *)
Transformed == {"callee", "argument", "object", "right", "operand", "test", "element", "value",
                "template", "tag", "yielded", "parenthesised", "optional", "cast"}

RECURSIVE TransformStatement(_, _)

BlockBody(list, names) ==
  FlattenSeq([i \in DOMAIN list |-> Stepped(TransformStatement(list[i], names), list[i], names)])

Directives(list) == Len(list) - Len(SelectSeq(list, LAMBDA n : n.k # "directive"))
SuperAt(list) == SelectInSeq(list, LAMBDA n : n.k = "super")

(* `instrumentFunctionBody`: the entry, and a write for each parameter,    *)
(* after the directives, or after super() when it is a statement of the    *)
(* body of a derived class's constructor; a return added at the end unless *)
(* control cannot get there.                                               *)
FunctionBody(body, fn, derived, entry, params, names) ==
  LET stmts == RewriteReturns([i \in DOMAIN body |-> TransformStatement(body[i], names)], fn)
      dirs == Directives(body)
      part(a, b) == FlattenSeq([i \in 1 .. b - a + 1 |-> Stepped(stmts[a + i - 1], body[a + i - 1], names)])
      entered == <<MkEnter(fn, entry)>> \o [i \in DOMAIN params |-> MkWrite(fn, params[i])]
      last == IF derived /\ SuperAt(body) > 0 THEN SuperAt(body) ELSE dirs
  IN  SubSeq(stmts, 1, dirs) \o part(dirs + 1, last) \o entered \o part(last + 1, Len(stmts))
        \o (IF Completes(stmts) THEN <<MkRet(fn)>> ELSE <<>>)

(* `enter` is given `arguments`, which says no more than the parameters.   *)
TransformFunction(n, names) ==
  [n EXCEPT !.parts = <<FunctionBody(@[1], n.id, FALSE, n.xs, n.xs, names)>>]

(* An arrow names its parameters; one whose body is an expression gets a   *)
(* body that enters, steps and returns it.                                 *)
TransformArrow(n, names) ==
  IF "concise" \notin n.has THEN TransformFunction(n, names)
  ELSE LET e == n.parts[1][1].parts[1][1]
           ret == Node("return", e.id, <<>>, {"ret"}, <<<<e>>>>, n.id)
       IN  [n EXCEPT !.parts = <<<<MkEnter(n.id, n.xs), MkStep(e, names), ret>>>>]

TransformConstructor(n, names) ==
  [n EXCEPT !.parts = <<FunctionBody(@[1], n.id, "derived" \in n.has, n.xs, n.xs, names)>>]

(* Methods and accessors of objects and classes, and static blocks, which  *)
(* are stepped and not entered.                                            *)
TransformMember(n, names) ==
  IF "static" \in n.has THEN [n EXCEPT !.parts = <<BlockBody(@[1], names)>>] ELSE TransformFunction(n, names)

TransformClassMethod(n, names) == TransformFunction(n, names)

TransformExpression(n, names) ==
  CASE Place(n) \notin Transformed -> n
    [] n.has \cap {"arrow", "concise"} # {} -> TransformArrow(n, names)
    [] n.has \cap {"constructor", "derived"} # {} -> TransformConstructor(n, names)
    [] n.has \cap {"method", "static"} # {} -> TransformMember(n, names)
    [] "class method" \in n.has -> TransformClassMethod(n, names)
    [] OTHER -> TransformFunction(n, names)

TransformStatement(n, names) ==
  CASE n.k = "fun" -> TransformExpression(n, names)
    [] n.k \in {"if", "while", "for", "switch", "try", "block"} ->
         [n EXCEPT !.parts = [p \in DOMAIN @ |->
            IF p = 2 /\ "elseif" \in n.has THEN <<TransformStatement(@[p][1], names)>> ELSE BlockBody(@[p], names)]]
    [] n.k = "label" -> [n EXCEPT !.parts = <<<<TransformStatement(@[1][1], names)>>>>]
    [] OTHER -> n

(* The module is a function too, entered with no arguments.                *)
TransformModule(body, names) ==
  LET dirs == Directives(body)
      items == SubSeq(body, dirs + 1, Len(body))
  IN  SubSeq(body, 1, dirs) \o <<MkEnter(0, <<>>)>> \o BlockBody(items, names) \o <<MkRet(0)>>

(* ---- A module is written --------------------------------------------------- *)

Open(k, id, xs, has) == [k |-> k, id |-> id, xs |-> xs, has |-> has, parts |-> <<>>, list |-> <<>>]
Top == Last(open)
Functions == {i \in DOMAIN open : open[i].k \in {"module", "fun"}}
Within == CHOOSE i \in Functions : \A j \in Functions : j <= i
Inside(kinds) == \E i \in Within + 1 .. Len(open) : open[i].k \in kinds
Room == phase = "written" /\ count < MaxNodes
        /\ (Top.k = "label" => Top.list = <<>>)
        /\ (Top.k = "if" /\ "elseif" \in Top.has => Len(Top.parts) = 0)

(* Names of this function that an inner declaration here would take over.  *)
Bound(i) == LetNames(FlattenSeq(Append(open[i].parts, open[i].list)))
            \cup (IF open[i].k \in {"fun", "for", "try"} THEN Rng(open[i].xs) ELSE {})
Outer == UNION {Bound(i) : i \in Within .. Len(open) - 1}
         \cup (IF Top.k = "for" THEN Rng(Top.xs) ELSE {})
Same == LetNames(IF Top.k = "switch" THEN FlattenSeq(Append(Top.parts, Top.list)) ELSE Top.list)
        \cup (IF Top.k \in {"fun", "try"} THEN Rng(Top.xs) ELSE {})
Declarable(xs) == /\ Rng(xs) \cap Same = {}
                  /\ Rng(xs) \cap Outer # {} => "shadowed later" \in Edges

Put(n) == /\ open' = [open EXCEPT ![Len(open)].list = Append(@, n)]
          /\ count' = count + 1
          /\ UNCHANGED <<phase, source, output, ran>>
Plain(k, xs, has, parts) == Node(k, count + 1, xs, has, parts, 0)
NameLists == {<<x>> : x \in Locals} \cup (IF {"x", "y"} \subseteq Locals THEN {<<"x", "y">>} ELSE {})

WriteCall == /\ Room
             /\ \E k \in Forms \cap {"ext", "empty"} : Put(Plain(k, <<>>, {}, <<>>))
WriteDirective == /\ Room /\ "directive" \in Forms
                  /\ Top.k \in {"module", "fun"} /\ \A i \in DOMAIN Top.list : Top.list[i].k = "directive"
                  /\ "static" \notin Top.has
                  /\ Put(Plain("directive", <<>>, {}, <<>>))
WriteLet == /\ Room /\ "let" \in Forms /\ Top.k # "label"
            /\ \E xs \in NameLists, p \in Patterns : Declarable(xs) /\ Put(Plain("let", xs, {p}, <<>>))
WriteExport == /\ Room /\ "export" \in Forms /\ Top.k = "module"
               /\ \E xs \in NameLists : Declarable(xs) /\ Put(Plain("export", xs, {}, <<>>))
WriteVar == /\ Room /\ "var" \in Forms /\ Put(Plain("var", <<"v">>, {}, <<>>))
WriteSet == /\ Room /\ "set" \in Forms /\ \E xs \in NameLists, p \in Patterns : Put(Plain("set", xs, {p}, <<>>))
WriteThrow == /\ Room /\ "throw" \in Forms /\ Put(Plain("throw", <<>>, {}, <<>>))
WriteBreak == /\ Room /\ "break" \in Forms /\ Inside({"while", "for", "switch", "label"})
              /\ Put(Plain("break", <<>>, {}, <<>>))

(* A return, of a call's value or of nothing.                              *)
Guarded == \E i \in Within + 1 .. Len(open) :
             open[i].k = "try" /\ "finally" \in open[i].has
WriteReturn ==
  /\ Room /\ "return" \in Forms /\ open[Within].k = "fun" /\ "static" \notin open[Within].has
  /\ Top.k = "label" => "labelled return" \in Edges
  /\ Guarded => "guarded return" \in Edges
  /\ \E parts \in {<<>>, <<<<Node("ext", count + 1, <<>>, {}, <<>>, 0)>>>>} :
       Put(Plain("return", <<>>, {}, parts))

WriteSuper == /\ Room /\ "derived" \in open[Within].has
              /\ \A i \in Within .. Len(open) :
                   \A j \in DOMAIN open[i].list : VarNames(<<open[i].list[j]>>) = {} /\ open[i].list[j].k \in {"ext", "let"}
              /\ \A i \in Within .. Len(open) : open[i].parts = <<>> /\ open[i].k \in {"fun", "if", "block"}
              /\ Put(Plain("super", <<>>, {}, <<>>))

(* `() => ext()`                                                           *)
WriteConcise ==
  /\ Room /\ "concise" \in Calls
  /\ \E place \in Places : \E xs \in {<<>>} \cup {<<x>> : x \in Locals \cap {"x"}} :
       LET e == Node("ext", count + 1, <<>>, {}, <<>>, 0)
           body == <<Node("return", count + 1, <<>>, {}, <<<<e>>>>, 0)>>
       IN  Put(Node("fun", count + 1 + MaxNodes, xs, {"concise", place}, <<body>>, 0))

Begin(k, xs, has) == /\ open' = Append(open, Open(k, count + 1, xs, has))
                     /\ count' = count + 1
                     /\ UNCHANGED <<phase, source, output, ran>>
OpenPlain == /\ Room
             /\ \E k \in Forms \cap {"while", "switch", "label", "block"} : Begin(k, <<>>, {})
OpenFor == /\ Room /\ "for" \in Forms /\ \E x \in Locals : Begin("for", <<x>>, {})
OpenIf == /\ Room /\ "if" \in Forms /\ \E has \in {{}, {"else"}, {"elseif"}} : Begin("if", <<>>, has)
OpenTry == /\ Room /\ "try" \in Forms
           /\ \E has \in {{"catch"}, {"finally"}, {"catch", "finally"}} :
                \E xs \in {<<>>} \cup {<<x>> : x \in IF "catch" \in has THEN Locals \cap {"x"} ELSE {}} :
                  Begin("try", xs, has)
OpenFunction ==
  /\ Room
  /\ \E kind \in Calls \ {"concise"}, place \in Places :
       \E xs \in {<<>>} \cup {<<x>> : x \in IF kind = "static" THEN {} ELSE Locals \cap {"x"}} :
         Begin("fun", xs, {kind, place})

(* The next clause of an if, a switch or a try.                            *)
Clauses == CASE Top.k = "if" -> IF Top.has = {} THEN 1 ELSE 2
             [] Top.k = "try" -> 3
             [] Top.k = "switch" -> 2
             [] OTHER -> 1
NextClause ==
  /\ phase = "written" /\ Len(Top.parts) + 1 < Clauses
  /\ Top.list # <<>> \/ Top.k = "try"
  /\ Top.k = "switch" /\ "shadowed later" \notin Edges => LetNames(Top.list) = {}
  /\ LET moved == [Top EXCEPT !.parts = Append(@, Top.list), !.list = <<>>]
         skips == Top.k = "try" /\ Len(Top.parts) = 0 /\ "catch" \notin Top.has
     IN  open' = [open EXCEPT ![Len(open)] = IF skips THEN [moved EXCEPT !.parts = Append(@, <<>>)] ELSE moved]
  /\ UNCHANGED <<count, phase, source, output, ran>>

(* `else if`: the clause is the inner if itself.                           *)
OpenElseIf ==
  /\ phase = "written" /\ count < MaxNodes
  /\ Top.k = "if" /\ "elseif" \in Top.has /\ Len(Top.parts) = 1 /\ Top.list = <<>>
  /\ \E has \in {{}, {"else"}} : Begin("if", <<>>, has)

Close ==
  /\ phase = "written" /\ Len(open) > 1
  /\ Len(Top.parts) + 1 = Clauses \/ (Top.k = "try" /\ Len(Top.parts) = 1 /\ Top.has = {"catch"})
       \/ (Top.k = "switch" /\ Top.parts = <<>>)
  /\ Top.list # <<>> \/ (Top.k = "try" /\ Top.parts # <<>>)
  /\ LET parts == Append(Top.parts, Top.list)
         whole == IF Top.k = "try" /\ Len(parts) = 2 THEN Append(parts, <<>>) ELSE parts
         n == Node(Top.k, Top.id, Top.xs, Top.has, whole, 0)
     IN  open' = [Front(open) EXCEPT ![Len(open) - 1].list = Append(@, n)]
  /\ UNCHANGED <<count, phase, source, output, ran>>

(* ---- It is transformed and run ---------------------------------------------- *)

Instrument ==
  /\ phase = "written" /\ Len(open) = 1 /\ Top.list # <<>>
  /\ phase' = "instrumented"
  /\ source' = Top.list
  /\ output' = TransformModule(Top.list, ComputeStepLocals(Top.list))
  /\ open' = <<>>
  /\ UNCHANGED <<count, ran>>

Nothing == [told |-> <<>>, how |-> "normal"]
Run ==
  /\ phase = "instrumented"
  /\ phase' = "ran"
  /\ \E choices \in [1 .. MaxChoices -> {0, 1}] :
       ran' = [plain |-> RunOf(source, choices), recorded |-> RunOf(output, choices)]
  /\ source' = <<>> /\ output' = <<>>
  /\ UNCHANGED <<open, count>>

InstrumentInit ==
  /\ open = <<Open("module", 0, <<>>, {})>>
  /\ count = 0 /\ phase = "written" /\ source = <<>> /\ output = <<>>
  /\ ran = [plain |-> Nothing, recorded |-> Nothing]

InstrumentNext ==
  \/ WriteCall \/ WriteDirective \/ WriteLet \/ WriteExport \/ WriteVar \/ WriteSet \/ WriteThrow
  \/ WriteBreak \/ WriteReturn \/ WriteSuper \/ WriteConcise
  \/ OpenPlain \/ OpenFor \/ OpenIf \/ OpenTry \/ OpenFunction \/ NextClause \/ OpenElseIf \/ Close
  \/ Instrument \/ Run

InstrumentSpec == InstrumentInit /\ [][InstrumentNext]_vars

(* ---- Properties -------------------------------------------------------------- *)

InstrumentTypeOK ==
  /\ phase \in {"written", "instrumented", "ran"}
  /\ count \in 0 .. MaxNodes
  /\ phase = "written" => open # <<>> /\ source = <<>> /\ output = <<>>
  /\ phase = "instrumented" => source # <<>> /\ output # <<>>
  /\ ran.recorded.how \in {"normal", "throw"} /\ ran.plain.how \in {"normal", "throw"}

Told == ran.recorded.told
Seen(told) == SelectSeq(told, LAMBDA e : e.e \in {"ext", "stored", "exported", "strict", "super"})
Bare(told) == [i \in DOMAIN Seen(told) |-> <<Seen(told)[i].e, Seen(told)[i].id, Seen(told)[i].vals>>]

(* Recording never changes what the program does: the instrumented module  *)
(* makes the same calls, stores the same values and ends the same way.     *)
(* A step that reads a name too early throws, an entry before a directive  *)
(* undoes it, and either does so in the program being recorded.            *)
SameBehaviour ==
  /\ Bare(ran.plain.told) = Bare(ran.recorded.told)
  /\ ran.plain.how = ran.recorded.how

(* The frames the recording has open after some of its events: a return    *)
(* that is not of the innermost leaves the mark -1.                        *)
FramesAfter(told) ==
  FoldLeft(LAMBDA fs, e : CASE e.e = "enter" -> Append(fs, e.id)
                            [] e.e = "ret" -> IF fs # <<>> /\ Last(fs) = e.id THEN Front(fs) ELSE Append(fs, -1)
                            [] OTHER -> fs,
           <<>>, told)
Unwound(told) == \E i \in DOMAIN told : told[i].e = "unwound"

(* A call that returns, by a return or by falling off its end, closes the  *)
(* frame it opened and no other, so a module that ends leaves none open.   *)
(* (No event tells that an exception left a call: its frame stays open.)   *)
FramesBalanced ==
  ~Unwound(Told) => /\ -1 \notin Rng(FramesAfter(Told))
                    /\ phase = "ran" /\ ran.recorded.how = "normal" => FramesAfter(Told) = <<>>

(* Every statement of a list that runs is stepped just before it does, in  *)
(* the frame of the call that runs it, and nothing else is stepped, up to  *)
(* the first exception that leaves a call.                                 *)
StepsInFrame ==
  \A i \in DOMAIN Told :
    ~Unwound(SubSeq(Told, 1, i)) =>
      /\ Told[i].e = "at" =>
           /\ i > 1 /\ Told[i - 1].e = "step" /\ Told[i - 1].id = Told[i].id
           /\ FramesAfter(SubSeq(Told, 1, i)) = Told[i].stack
      /\ Told[i].e = "step" => i < Len(Told) /\ Told[i + 1].e = "at" /\ Told[i + 1].id = Told[i].id

(* A step tells the value of every name of the call that the statement can *)
(* read (of a `var`, once its declaration is behind), each with the value  *)
(* it has, until there are too many.  (The statement of an export is       *)
(* stepped without names.)                                                 *)
Exports == {Told[i].id : i \in {j \in DOMAIN Told : Told[j].e = "exported"}}
CapturesTheScope ==
  \A i \in DOMAIN Told : Told[i].e = "step" /\ i < Len(Told) /\ Told[i].id \notin Exports =>
    LET told == Rng(Told[i].vals)
        readable == Rng(Told[i + 1].vals)
    IN  /\ told \subseteq readable
        /\ Cardinality(told) < MaxStepLocals => \A b \in readable : b[1] # "v" => b \in told

(* What a declaration or an assignment stores is written as soon as it has *)
(* run, name by name, with the value stored.                               *)
WritesFollow ==
  \A i \in DOMAIN Told : Told[i].e = "stored" =>
    \A j \in DOMAIN Told[i].vals :
      /\ i + j \in DOMAIN Told /\ Told[i + j].e = "write" /\ Told[i + j].id = Told[i].id
      /\ Told[i + j].vals = <<Told[i].vals[j]>>
=============================================================================
