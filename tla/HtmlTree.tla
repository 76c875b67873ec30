------------------------------ MODULE HtmlTree ------------------------------
(***************************************************************************)
(* What a browser's tree builder makes of a document's tokens: the         *)
(* insertion modes of the HTML standard's "tree construction" for the tags *)
(* the boundary recorder's placement and the replay's gates depend on, in  *)
(* standards mode.  A document is a sequence of tokens; a raw text element *)
(* (script, title) is one token, and so is a run of character data ("ws",  *)
(* white space; "nl", white space with a newline first; "text").  The tree *)
(* is the list of what was inserted, each with the ordinal of its parent   *)
(* among the elements with content.                                        *)
(***************************************************************************)
EXTENDS Integers, Sequences, SequencesExt

Runs == {"ws", "nl", "text"}
White == {"ws", "nl"}
Ours == {"gate", "bootstrap", "bootstrap charset"}    \* never counted
Scripts == Ours \cup {"script"}
HeadThings == Scripts \cup {"title", "name", "csp", "charset"}
HeadEnds == {"/head", "/body", "/html", "/br"}
EndTags == HeadEnds \cup {"/table", "/colgroup", "/p"}
StartTags == HeadThings \cup {"html", "head", "body", "table", "colgroup", "col", "pre", "p"}

NoTree == [mode |-> "before html", stack |-> <<>>, made |-> <<>>, pushed |-> 0, head |-> 0,
           foster |-> FALSE, newline |-> FALSE]

Top(t) == Last(t.stack)
Opened(t, names) == \E i \in DOMAIN t.stack : t.stack[i].name \in names
Document == 0
\* A parent's id, or the negated id of the table the node is put before.
Place(t) == IF t.stack = <<>> THEN Document
            ELSE IF t.foster /\ Top(t).name = "table" THEN -Top(t).id ELSE Top(t).id
PutAt(t, what, place) ==
  IF what \in Ours THEN t ELSE [t EXCEPT !.made = Append(@, <<what, place>>)]
Put(t, what) == PutAt(t, what, Place(t))
Push(t, what) ==
  [Put(t, what) EXCEPT !.stack = Append(@, [name |-> what, id |-> t.pushed + 1]),
                       !.pushed = @ + 1]
Pop(t) == [t EXCEPT !.stack = Front(@)]
PopThrough(t, what) ==
  LET i == CHOOSE i \in DOMAIN t.stack :
             t.stack[i].name = what /\ \A j \in DOMAIN t.stack : j > i => t.stack[j].name # what
  IN [t EXCEPT !.stack = SubSeq(@, 1, i - 1)]
PopTo(t, what) ==
  LET u == PopThrough(t, what)
  IN [u EXCEPT !.stack = Append(@, t.stack[Len(u.stack) + 1])]
To(t, mode) == [t EXCEPT !.mode = mode]
Merge(t, what) ==
  [t EXCEPT !.made = Append(@, <<IF what = "html" THEN "html again" ELSE "body again", 1>>)]

InScope(t, what) ==
  \E i \in DOMAIN t.stack : /\ t.stack[i].name = what
                            /\ \A j \in DOMAIN t.stack : j > i => t.stack[j].name # "table"
CloseP(t) == IF InScope(t, "p") THEN PopThrough(t, "p") ELSE t

InBody(t, token) ==
  CASE token \in Runs \cup {"comment"} \cup HeadThings -> Put(t, token)
    [] token \in {"html", "body"} -> Merge(t, token)
    [] token \in {"p", "pre"} ->
         [Push(CloseP(t), token) EXCEPT !.newline = token = "pre"]
    [] token = "table" -> To(Push(CloseP(t), "table"), "in table")
    [] token = "/p" -> PopThrough(IF InScope(t, "p") THEN t ELSE Push(t, "p"), "p")
    [] token = "/br" -> Put(t, "br")
    [] token = "/body" -> To(t, "after body")
    [] token = "/html" -> To(t, "after after body")
    [] OTHER -> t

AfterBody(t, token) ==
  CASE token \in White \cup {"html"} -> InBody(t, token)
    [] token = "comment" ->
         PutAt(t, token, IF t.mode = "after body" THEN t.stack[1].id ELSE Document)
    [] token = "/html" /\ t.mode = "after body" -> To(t, "after after body")
    [] OTHER -> InBody(To(t, "in body"), token)

CloseTable(t) == To(PopThrough(t, "table"), "in body")
Fostered(t, token) == [InBody([t EXCEPT !.foster = TRUE], token) EXCEPT !.foster = FALSE]
InTable(t, token) ==
  CASE token \in White /\ Top(t).name = "table" -> Put(t, token)
    [] token \in Scripts \cup {"comment"} -> Put(t, token)
    [] token = "colgroup" -> To(Push(PopTo(t, "table"), "colgroup"), "in column group")
    [] token = "col" ->
         Put(To(Push(PopTo(t, "table"), "colgroup"), "in column group"), "col")
    [] token = "table" -> InBody(CloseTable(t), "table")
    [] token = "/table" -> CloseTable(t)
    [] token \in {"/body", "/html", "/colgroup"} -> t
    [] OTHER -> Fostered(t, token)

InColumnGroup(t, token) ==
  CASE token \in White \cup {"comment", "col"} -> Put(t, token)
    [] token = "html" -> InBody(t, token)
    [] token = "/colgroup" -> To(Pop(t), "in table")
    [] OTHER -> InTable(To(Pop(t), "in table"), token)

AfterHead(t, token) ==
  CASE token \in White \cup {"comment"} -> Put(t, token)
    [] token \in HeadThings -> PutAt(t, token, t.head)
    [] token = "html" -> Merge(t, token)
    [] token = "body" -> To(Push(t, "body"), "in body")
    [] token \in {"head", "/head"} \cup (EndTags \ HeadEnds) -> t
    [] OTHER -> InBody(To(Push(t, "body"), "in body"), token)

InHead(t, token) ==
  CASE token \in White \cup {"comment"} \cup HeadThings -> Put(t, token)
    [] token = "html" -> Merge(t, token)
    [] token = "/head" -> To(Pop(t), "after head")
    [] token \in {"head"} \cup (EndTags \ HeadEnds) -> t
    [] OTHER -> AfterHead(To(Pop(t), "after head"), token)

MakeHead(t) == LET u == Push(t, "head") IN [To(u, "in head") EXCEPT !.head = u.pushed]
BeforeHead(t, token) ==
  CASE token \in White -> t
    [] token = "comment" -> Put(t, token)
    [] token = "html" -> Merge(t, token)
    [] token = "head" -> MakeHead(t)
    [] token \in EndTags \ HeadEnds -> t
    [] OTHER -> InHead(MakeHead(t), token)

MakeHtml(t) == To(Push(t, "html"), "before head")
BeforeHtml(t, token) ==
  CASE token \in White -> t
    [] token = "comment" -> Put(t, token)
    [] token = "html" -> MakeHtml(t)
    [] token \in EndTags \ HeadEnds -> t
    [] OTHER -> BeforeHead(MakeHtml(t), token)

Build(t, token) ==
  LET u == [t EXCEPT !.newline = FALSE]
  IN CASE t.newline /\ token = "nl" -> u
       [] t.mode = "before html" -> BeforeHtml(u, token)
       [] t.mode = "before head" -> BeforeHead(u, token)
       [] t.mode = "in head" -> InHead(u, token)
       [] t.mode = "after head" -> AfterHead(u, token)
       [] t.mode = "in body" -> InBody(u, token)
       [] t.mode = "in table" -> InTable(u, token)
       [] t.mode = "in column group" -> InColumnGroup(u, token)
       [] t.mode \in {"after body", "after after body"} -> AfterBody(u, token)

(* The end of the document implies what is missing.                        *)
AtEof(t) ==
  CASE t.mode = "before html" -> Push(Pop(MakeHead(MakeHtml(t))), "body")
    [] t.mode = "before head" -> Push(Pop(MakeHead(t)), "body")
    [] t.mode = "in head" -> Push(Pop(t), "body")
    [] t.mode = "after head" -> Push(t, "body")
    [] OTHER -> t
Tree(tokens) == AtEof(FoldLeft(Build, NoTree, tokens)).made
=============================================================================
