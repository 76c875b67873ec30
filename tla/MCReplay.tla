------------------------------ MODULE MCReplay --------------------------------
(* Pages for the runs of ReplayRuntime. *)
EXTENDS ReplayRuntime

CONSTANTS
  Tokens,   \* what a page's document is made of
  OnEvents, \* the code of its callbacks
  MaxCode   \* bound: the tokens of a page that run code

Token(type, code) == [type |-> type, code |-> code]
Text == Token("text", <<>>)
Element == Token("element", <<>>)

Read == <<"read">>
Silent == <<>>
Sets == <<"timer", "read">>
Listens == <<"insert", "listen", "read">>
Inserts == <<"insert", "read">>
Awaits == <<"insert", "await", "read">>
Throws == <<"throw">>

BaseTokens ==
  {Text, Element, Token("inline", Sets), Token("block", Inserts), Token("block", Awaits),
   Token("async", Read), Token("defer", Listens)}
ExternalTokens ==
  {Token("inline", Sets), Token("inline", Throws), Token("block", Awaits),
   Token("async", Read), Token("defer", Inserts)}
BaseEvents == [c \in Callbacks |-> IF c = OnLoad THEN Silent ELSE Read]

CodeIn(ts) == {i \in DOMAIN ts : ts[i].code # <<>>}
Documents == UNION {[1..n -> Tokens] : n \in 1..MaxTokens}
MCPages == {[tokens |-> ts, callbacks |-> OnEvents] :
              ts \in {d \in Documents : Cardinality(CodeIn(d)) <= MaxCode}}
================================================================================
