----------------------------- MODULE PageMarkup -----------------------------
(***************************************************************************)
(* What is put into a page's source: the record bootstrap, by the deploy   *)
(* step (boundary-shim/src/placement.ts), and the replay's gates, by the   *)
(* replay runner (boundary-replay/src/gates.ts), both at positions the     *)
(* tokenizer they share (html-scan.ts) finds.  The recorded page is the    *)
(* deployed one; the archive holds it without the bootstrap; the replayed  *)
(* page is the archived one with gates, one standing in for the bootstrap. *)
(*                                                                         *)
(* A page is a sequence of HtmlTree's tokens, each complete; position i is *)
(* right after token i.  Templates, foreign content, framesets, plaintext  *)
(* and a document that ends inside a token are left out.                   *)
(***************************************************************************)
EXTENDS HtmlTree, FiniteSets, FiniteSetsExt

CONSTANTS Tokens,      \* the tokens pages are made of
          MaxTokens,   \* bound: the length of a page
          Edges        \* source the code's scanner is known to misjudge

VARIABLES page,        \* the page as its author wrote it
          deployed,    \* with the bootstrap
          level,       \* the protocol level it was recorded at
          asked,       \* which gates the log asks for (GateOptions)
          served       \* the replayed page

vars == <<page, deployed, level, asked, served>>

-----------------------------------------------------------------------------
(* scanTags: what a boundary knows of the tokens before it.                *)
NoTokens == [headMade |-> FALSE, inColumnGroup |-> FALSE, afterBody |-> FALSE,
             afterStartTag |-> "none"]
Scan(b, token) ==
  CASE token \in White -> [b EXCEPT !.afterStartTag = "none"]
    [] token = "comment" -> [b EXCEPT !.afterStartTag = "none"]
    [] token = "text" ->
         [headMade |-> TRUE, inColumnGroup |-> FALSE, afterBody |-> FALSE,
          afterStartTag |-> "none"]
    [] token \in EndTags ->
         [b EXCEPT !.inColumnGroup = @ /\ token \notin {"/colgroup", "/table"},
                   !.afterBody = @ \/ token \in {"/body", "/html"},
                   !.afterStartTag = "none"]
    [] token \in StartTags ->
         [headMade |-> b.headMade \/ token # "html",
          inColumnGroup |-> token \in {"colgroup", "col"},
          afterBody |-> FALSE,
          afterStartTag |-> IF token \in {"script", "title"} THEN "none" ELSE token]
scanTags(source, i) == FoldLeft(Scan, NoTokens, SubSeq(source, 1, i))
Next(source, i) == IF i = Len(source) THEN "eof" ELSE source[i + 1]

(* A boundary: where a token, or the run of text after one, starts.        *)
IsBoundary(source, i) == i > 0 \/ Next(source, i) \notin Runs \cup {"eof"}

-----------------------------------------------------------------------------
(* placement.ts.                                                           *)
FirstAt(source, from, S) ==
  LET found == {i \in from..Len(source) : source[i] \in S}
  IN IF found = {} THEN Len(source) + 1 ELSE Min(found)
leadKind(token) ==
  CASE token = "charset" -> "declaration"
    [] token \in {"name", "title"} -> "inert"
    [] OTHER -> "none"
MakesHead == (StartTags \ {"html"}) \cup HeadEnds \cup {"text"}
Passed == White \cup {"comment", "name", "title"}

Bytes(token) == CASE token \in {"text", "script"} -> 600
                  [] token \in {"bootstrap", "bootstrap charset"} -> 40000
                  [] OTHER -> 20
PRESCAN_WINDOW_BYTES == 1024
utf8Length(source, i) == FoldLeft(LAMBDA n, token : n + Bytes(token), 0, SubSeq(source, 1, i))
pageDeclaration(source) == FirstAt(source, 1, {"charset"})

bootstrapPlacement(source) ==
  LET n == Len(source)
      maker == FirstAt(source, 1, MakesHead)
      head == IF maker > n THEN n
              ELSE IF source[maker] = "head" THEN maker ELSE maker - 1
      lead == IF maker > n \/ source[maker] \in Runs \cup EndTags THEN n + 1
              ELSE FirstAt(source, head + 1, (StartTags \cup EndTags \cup {"text"}) \ Passed)
      afterDeclaration == lead <= n /\ leadKind(source[lead]) = "declaration"
      position == IF afterDeclaration THEN lead ELSE head
      declaration == pageDeclaration(source)
  IN [at |-> position,
      copy |-> /\ ~afterDeclaration
               /\ declaration <= n /\ declaration > position
               /\ utf8Length(source, declaration) <= PRESCAN_WINDOW_BYTES]

splice(source, i, tokens) == SubSeq(source, 1, i) \o tokens \o SubSeq(source, i + 1, Len(source))
placeBootstrap(source) ==
  LET placement == bootstrapPlacement(source)
  IN splice(source, placement.at,
            IF placement.copy THEN <<"charset", "bootstrap charset">> ELSE <<"bootstrap">>)

(* Mutated: the copy of the encoding declaration stays.                    *)
ScriptOnly(source, i) == source[i] \in {"bootstrap", "bootstrap charset"}
(* bootstrapRanges, withoutBootstraps.                                     *)
InBootstrap(source, i) ==
  \/ source[i] \in {"bootstrap", "bootstrap charset"}
  \/ source[i] = "charset" /\ Next(source, i) = "bootstrap charset"
withoutBootstraps(source) ==
  LET kept == {i \in DOMAIN source : ~InBootstrap(source, i)}
      order == SetToSortSeq(kept, <)
  IN [k \in 1..Len(order) |-> source[order[k]]]
injectBoundaryShim(source) == placeBootstrap(withoutBootstraps(source))

-----------------------------------------------------------------------------
(* gates.ts.                                                               *)
commentInBodyMode(source, i) ==
  LET stops == {j \in i..Len(source) :
                  \/ j > i /\ ~scanTags(source, j).afterBody
                  \/ Next(source, j) \in StartTags \cup {"comment", "eof", "/body", "/html"}}
  IN \E j \in stops : /\ \A k \in stops : j <= k
                      /\ Next(source, j) = "comment"
                      /\ j > i => scanTags(source, j).afterBody
(* Mutated: a gate may follow a pre's start tag.                           *)
GatesInPre(source, i, standIn) ==
  LET b == scanTags(source, i)
      next == Next(source, i)
  IN /\ IsBoundary(source, i)
     /\ b.headMade \/ (standIn.given /\ i >= standIn.at)
     /\ next \notin {"html", "head", "col"}
     /\ IF b.inColumnGroup THEN next \in StartTags \cup {"eof"}
        ELSE b.afterBody => ~commentInBodyMode(source, i)
gateGoesAt(source, i, standIn) ==
  LET b == scanTags(source, i)
      next == Next(source, i)
  IN /\ IsBoundary(source, i)
     /\ b.headMade \/ (standIn.given /\ i >= standIn.at)
     /\ b.afterStartTag # "pre"
     /\ next \notin {"html", "head", "col"}
     /\ IF b.inColumnGroup THEN next \in StartTags \cup {"eof"}
        ELSE b.afterBody => ~commentInBodyMode(source, i)
insertGates(source, options) ==
  LET standIn == options.bootstrap
      inserts == (IF standIn.given THEN {standIn.at} ELSE {})
                 \cup {i \in 0..Len(source) : options.parser /\ gateGoesAt(source, i, standIn)}
      at(i) == IF i \notin inserts THEN <<>>
               ELSE IF standIn.given /\ i = standIn.at /\ standIn.copy THEN <<"charset", "gate">>
               ELSE <<"gate">>
      gated == at(0) \o FoldLeft(LAMBDA done, i : done \o <<source[i]>> \o at(i), <<>>,
                                 [i \in DOMAIN source |-> i])
      event(wanted) == IF wanted THEN <<"gate">> ELSE <<>>
  IN gated \o event(options.domContentLoaded) \o event(options.load)
     \o event(options.domContentLoaded \/ options.load)

-----------------------------------------------------------------------------
(* The page is written, deployed (twice, perhaps) and replayed.            *)
MisjudgedMode(source) ==
  \E i \in DOMAIN source : source[i] = "html" /\
     LET b == scanTags(source, i - 1) IN b.afterBody \/ b.inColumnGroup
EndsInRun(source) == source # <<>> /\ Last(source) \in Runs
Write ==
  /\ deployed = <<>> /\ Len(page) < MaxTokens
  /\ \E token \in Tokens :
       /\ ~(token \in Runs /\ EndsInRun(page))
       /\ page' = Append(page, token)
       /\ MisjudgedMode(page') => "html again" \in Edges
  /\ UNCHANGED <<deployed, level, asked, served>>
Deploy ==
  /\ deployed = <<>> /\ page # <<>>
  /\ deployed' = injectBoundaryShim(page)
  /\ UNCHANGED <<page, level, asked, served>>
DeployAgain ==
  /\ deployed # <<>> /\ served = <<>>
  /\ deployed' = injectBoundaryShim(deployed)
  /\ UNCHANGED <<page, level, asked, served>>
Serve ==
  /\ deployed # <<>> /\ served = <<>>
  /\ \E atLevel \in {0, 1}, parser, dcl \in BOOLEAN :
       LET archived == withoutBootstraps(deployed)
           placement == bootstrapPlacement(archived)
       IN /\ level' = atLevel
          /\ asked' = [parser |-> parser, domContentLoaded |-> dcl, load |-> dcl]
          /\ served' = insertGates(archived,
               [parser |-> parser, domContentLoaded |-> dcl, load |-> dcl,
                bootstrap |-> [given |-> atLevel = 0, at |-> placement.at,
                               copy |-> placement.copy]])
  /\ UNCHANGED <<page, deployed>>

MarkupInit == /\ page = <<>> /\ deployed = <<>> /\ served = <<>> /\ level = 0
              /\ asked = [parser |-> FALSE, domContentLoaded |-> FALSE, load |-> FALSE]
MarkupNext == Write \/ Deploy \/ DeployAgain \/ Serve
MarkupSpec == MarkupInit /\ [][MarkupNext]_vars

-----------------------------------------------------------------------------
MarkupTypeOK ==
  /\ page \in Seq(Tokens) /\ level \in {0, 1}
  /\ \A i \in DOMAIN deployed : deployed[i] \in Tokens \cup Ours
  /\ \A i \in DOMAIN served : served[i] \in Tokens \cup {"gate", "charset"}

Declaration(source) ==
  pageDeclaration(source) <= Len(source)
    /\ utf8Length(source, pageDeclaration(source)) <= PRESCAN_WINDOW_BYTES
Bootstrap(source) == FirstAt(source, 1, {"bootstrap", "bootstrap charset"})

(* The deployed page is the author's but for the bootstrap: the browser    *)
(* builds the same tree (plus the copy of the encoding declaration), finds *)
(* the encoding it found, and runs no script and applies no policy before  *)
(* the bootstrap; taking the bootstrap out gives the author's page back,   *)
(* however often it was deployed (placement.ts, stripBoundaryShim).        *)
DeploysThePage ==
  deployed # <<>> =>
    LET built == Tree(deployed)
        copied == Tree(page)
    IN /\ \/ built = copied
          \/ /\ bootstrapPlacement(page).copy
             /\ \E i \in DOMAIN built : built[i][1] = "charset" /\ RemoveAt(built, i) = copied
       /\ Declaration(deployed) <=> Declaration(page)
       /\ \A i \in 1..(Bootstrap(deployed) - 1) : deployed[i] \notin {"script", "csp"}
       /\ withoutBootstraps(deployed) = page
       /\ Bootstrap(deployed) <= Len(deployed)

(* The gates leave no trace: the tree of the replayed page is the recorded *)
(* one's, whatever gates the log asks for ("so that the gated document is  *)
(* the recorded one once the gates are gone", gates.ts).                   *)
GatesKeepTheTree ==
  served # <<>> => Tree(served) = Tree(IF level = 0 THEN deployed ELSE page)
=============================================================================
