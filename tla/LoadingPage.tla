----------------------------- MODULE LoadingPage ------------------------------
(***************************************************************************)
(* A page as it loads: the document the browser's parser builds, the       *)
(* scripts and listeners whose code runs meanwhile, and the position       *)
(* DocumentProgress measures                                               *)
(* (packages/boundary-shim/src/browser/document-progress.ts), which the    *)
(* recorder and the replay share.                                          *)
(*                                                                         *)
(* A page is a sequence of tokens and the code of its callbacks.  Code is  *)
(* a sequence of operations: "read" a value from outside, "insert" an      *)
(* element at the document's end, set a "timer", "listen" for an input,    *)
(* "await" (what follows runs as a microtask), or "throw".  An owner of    *)
(* code is a script, named by its token's number, or a callback.           *)
(***************************************************************************)
EXTENDS Integers, Sequences, FiniteSets, SequencesExt

CONSTANTS
  Pages,     \* the pages that may be recorded
  MaxTokens  \* bound: the tokens of a page

(* The callbacks, numbered apart from the scripts. *)
OnDcl == -1
OnLoad == -2
OnTimer == -3
OnInput == -4
Callbacks == {OnDcl, OnLoad, OnTimer, OnInput}
TokenTypes == {"text", "element", "inline", "block", "async", "defer"}
External == {"block", "async", "defer"}
Operations == {"read", "insert", "timer", "listen", "await", "throw"}

ASSUME PagesAssumption ==
  \A p \in Pages :
    /\ Len(p.tokens) <= MaxTokens
    /\ \A i \in DOMAIN p.tokens : /\ p.tokens[i].type \in TokenTypes
                                  /\ p.tokens[i].code \in Seq(Operations)
    /\ \A c \in Callbacks : p.callbacks[c] \in Seq(Operations)

-----------------------------------------------------------------------------
(* The document: how far the parser is (`parsed` tokens; `inText` halfway  *)
(* through a run of text; `unrun`, an inline script in the document that   *)
(* has not run), its elements in tree order (a token's number, or 0 for    *)
(* one the page inserted), the external scripts that have settled, and the *)
(* phase: LOADING_PHASE, or 4 once loaded.                                 *)
NewDocument ==
  [parsed |-> 0, inText |-> FALSE, unrun |-> FALSE, elements |-> <<>>,
   settled |-> {}, phase |-> 1]

TypeOf(page, k) == page.tokens[k].type
CodeOf(page, owner) ==
  IF owner < 0 THEN page.callbacks[owner] ELSE page.tokens[owner].code

ScriptsOf(page, type) == {k \in DOMAIN page.tokens : TypeOf(page, k) = type}
IsInline(page, e) == e > 0 /\ TypeOf(page, e) = "inline"

(* The external scripts in the document that have not settled. *)
PendingScripts(page, d) ==
  {k \in 1..d.parsed : TypeOf(page, k) \in External} \ d.settled

(* The length of the text parsed; a run of text is two characters, and a   *)
(* script's own text, which counts when the script does, is left out.      *)
TextOf(page, d) ==
  2 * Cardinality({k \in 1..d.parsed : TypeOf(page, k) = "text"})
    - (IF d.inText THEN 1 ELSE 0)

(* Mutated: the position leaves the text out. *)
PositionWithoutText(page, d) ==
  LET n == Len(d.elements)
      trailing == d.phase = 1 /\ n > 0 /\ IsInline(page, d.elements[n])
      inline == Cardinality({i \in 1..n : IsInline(page, d.elements[i])})
      uncounted == IF trailing THEN 1 ELSE 0
  IN [phase |-> d.phase, elements |-> n - uncounted,
      scripts |-> Cardinality(d.settled) + inline - uncounted, text |-> 0]

(* position: while the document is parsed, an inline script that is its    *)
(* last element is not counted, since it may not have run.                 *)
Position(page, d) ==
  LET n == Len(d.elements)
      trailing == d.phase = 1 /\ n > 0 /\ IsInline(page, d.elements[n])
      inline == Cardinality({i \in 1..n : IsInline(page, d.elements[i])})
      uncounted == IF trailing THEN 1 ELSE 0
  IN [phase |-> d.phase,
      elements |-> n - uncounted,
      scripts |-> Cardinality(d.settled) + inline - uncounted,
      text |-> IF d.phase = 1 THEN TextOf(page, d) ELSE 0]

(* What a checkpoint hashes, and what the page's code finds: dom-v1 leaves *)
(* every script out.                                                       *)
Seen(page, d) ==
  <<SelectSeq(d.elements, LAMBDA e : e = 0 \/ TypeOf(page, e) = "element"),
    TextOf(page, d)>>

-----------------------------------------------------------------------------
(* The browser (external).                                                 *)

(* The parser is not in the middle of a token, nor waits for a script. *)
AtBoundary(page, d) ==
  /\ d.phase = 1 /\ ~d.inText /\ ~d.unrun
  /\ \A k \in PendingScripts(page, d) : TypeOf(page, k) # "block"

(* The parser's next step: the rest of a run of text, the next token, or   *)
(* the end of the document.                                                *)
ParserMoves(page, d) ==
  LET next == d.parsed + 1
  IN IF d.inText THEN [d EXCEPT !.inText = FALSE]
     ELSE IF next > Len(page.tokens) THEN [d EXCEPT !.phase = 2]
     ELSE [d EXCEPT !.parsed = next,
                    !.inText = TypeOf(page, next) = "text",
                    !.unrun = TypeOf(page, next) = "inline",
                    !.elements = IF TypeOf(page, next) = "text" THEN @
                                 ELSE Append(@, next)]

(* An external script that has arrived may run: one the parser waits for,  *)
(* an async one at once, a deferred one in turn once the document is       *)
(* parsed.                                                                 *)
MayRun(page, d, k) ==
  /\ k \in PendingScripts(page, d)
  /\ TypeOf(page, k) = "defer" =>
       d.phase = 2 /\ \A j \in ScriptsOf(page, "defer") : j < k => j \in d.settled

(* DOMContentLoaded waits for the deferred scripts, load for every script. *)
MayFireDcl(page, d) == d.phase = 2 /\ ScriptsOf(page, "defer") \subseteq d.settled
MayFireLoad(page, d) == d.phase = 3 /\ PendingScripts(page, d) = {}
===============================================================================
