--------------------------- MODULE MCSensitiveInput ---------------------------
(* The pages SensitiveInput is checked with. *)
EXTENDS SensitiveInput

MCFact(name, credential, freeText, attr, root, host) ==
  [name |-> name, credential |-> credential, freeText |-> freeText, attr |-> attr,
   tabindex |-> FALSE, root |-> root, host |-> host]

(* A password field, a number field, and a custom element that hosts a     *)
(* closed root the parser attached, with a free-text field in it.          *)
MCElems == {"pin", "count", "widget", "inner"}
MCPage == [e \in MCElems |->
  CASE e = "pin" -> MCFact("input", TRUE, TRUE, "none", "none", NoElem)
    [] e = "count" -> MCFact("input", FALSE, FALSE, "none", "none", NoElem)
    [] e = "widget" -> [MCFact("div", FALSE, FALSE, "none", "unseen", NoElem)
                          EXCEPT !.tabindex = TRUE]
    [] e = "inner" -> MCFact("input", FALSE, TRUE, "none", "none", "widget")]
MCDeclares == {<<"widget", "public">>}

(* The second key is used only while the custom element is not, and the    *)
(* page holds no value it read.                                            *)
OneKeyElse ==
  /\ captured = NoValue /\ focus \in {"pin", "count"}
  /\ marks["widget"] = "none" /\ length["inner"] = 0
SecondKey == down["b"] # "up" \/ InFlight("b") \/ lastMasked = "b" \/ stroke.key = "b"
(* A session is followed to the first value forgotten, and no further:     *)
(* what is forgotten may be sent.                                          *)
MCNext == Next /\ ~lost /\ (SecondKey' => OneKeyElse')
MCSpec == Init /\ [][MCNext]_vars
=============================================================================
