----------------------------- MODULE SensitiveInput -----------------------------
(***************************************************************************)
(* Sensitive fields (packages/runtime-browser/src/sensitive.ts): which     *)
(* fields are sensitive, the masking of what is typed into them            *)
(* (recordInput, packages/boundary-shim/src/browser/seams-dom.ts), the     *)
(* holing of their values, and the replay of what the recorder wrote       *)
(* (applyScrubbed and watchMaskedProps, replay/sensitive.ts; inject,       *)
(* replay/dom.ts).                                                         *)
(*                                                                         *)
(* The browser dispatches the events of a keystroke one by one, each at    *)
(* the element focused by then, and the page's own code runs between them: *)
(* it moves the focus, cancels the keystroke, declares fields, reads their *)
(* values and sends them.  Several keys may be down at once.  The replay   *)
(* follows the log record by record, and the page's own steps happen there *)
(* as they did on record.                                                  *)
(*                                                                         *)
(* No field leaves the document, so `seen` is kept of the fields of shadow *)
(* trees alone: the scan finds the others.                                 *)
(*                                                                         *)
(* A field's value is its length, and a secret is a character of a         *)
(* keystroke made at a sensitive field.                                    *)
(***************************************************************************)
EXTENDS Integers, Sequences, FiniteSets, SequencesExt

CONSTANTS
  Elems, Page,      \* the document's elements, and what each is: see Facts
  Keys, TextKeys,   \* the physical keys, and those that may produce text
  Declares,         \* bound: the declarations the page makes while it runs
  MaxLength,        \* bound: the longest value typed
  MaxKeysInFlight,  \* MAX_KEYS_IN_FLIGHT
  MinHoled,         \* MIN_HOLED_LENGTH
  MaxRemembered     \* MAX_REMEMBERED

NoElem == "nobody"
NoKey == "no key"
Modes == {"none", "open", "tracked", "unseen"}
Facts == [name: {"input", "textarea", "editable", "button", "div", "body"},
          credential: BOOLEAN,  \* a password, a one-time code, a card
          freeText: BOOLEAN,    \* of a free-text input type
          attr: {"none", "public", "sensitive"},
          tabindex: BOOLEAN,
          root: Modes,          \* the shadow root it hosts
          host: Elems \cup {NoElem}]  \* of the shadow tree it is in

(* Only an element that takes no text itself may host a tree; and a key or *)
(* an element is none of the words the model has of its own.               *)
ASSUME PageAssumption ==
  /\ Elems \cap {NoElem, "up", "clear"} = {} /\ Page \in [Elems -> Facts]
  /\ \A e \in Elems : Page[e].host # NoElem => Page[Page[e].host].root # "none"
  /\ \A e \in Elems : Page[e].root # "none" => Page[e].name \in {"div", "body"}
ASSUME KeysAssumption == TextKeys \subseteq Keys /\ NoKey \notin Keys
ASSUME SizesAssumption ==
  /\ MaxLength \in Nat /\ MinHoled \in Nat \ {0}
  /\ MaxKeysInFlight \in Nat \ {0} /\ MaxRemembered \in Nat \ {0}

VARIABLES
  focus,        \* the focused element
  down,         \* per key: up, or held, and the field its character is a secret of
  stroke,       \* the keystroke being dispatched: its key and what comes next
  length, holds, \* per field: its value's length, and whether a secret is in it
  marks,        \* state.marks
  seen, remembered, keysInFlight, lastMasked, tainted,  \* of SensitiveState
  captured,     \* a value the page read and kept
  wrote,        \* the records the last step wrote
  lost,         \* ghost: something remembered was forgotten at its bound
  rTainted, rLength, replay  \* the replay's fields, and whether it goes on

platform == <<focus, down, stroke>>
fields == <<length, holds>>
shim == <<seen, remembered, keysInFlight, lastMasked, tainted, lost>>
replayed == <<rTainted, rLength, replay>>
vars == <<platform, fields, marks, shim, captured, wrote, replayed>>

NoStroke == [key |-> NoKey, next |-> "none"]
NoValue == <<NoElem, 0>>

-----------------------------------------------------------------------------
(* Which fields are sensitive. *)
Field(e) == Page[e].name \in {"input", "textarea", "editable"}
Control(e) == Page[e].name \in {"input", "textarea"}
isFreeTextField(e) == Field(e) /\ Page[e].freeText

isSensitive(e, taints) ==
  \/ Page[e].credential
  \/ e \in taints
  \/ marks[e] = "sensitive"
  \/ /\ marks[e] = "none"
     /\ \/ Page[e].attr = "sensitive"
        \/ Page[e].attr = "none" /\ isFreeTextField(e)

declaredPublic(e) ==
  \/ marks[e] = "public"
  \/ marks[e] = "none" /\ Page[e].attr = "public"

focusableItself(e) == Page[e].name # "div" \/ Page[e].tabindex
mayHostUnseenShadowRoot(e) ==
  Page[e].name \in {"div", "body"} /\ Page[e].root \in {"none", "unseen"}
  /\ (Page[e].name = "body" => Page[e].root = "unseen")

isEditingEvent(type) == type \in {"beforeinput", "input"}
isTextEvent(type) == isEditingEvent(type) \/ type \in {"keydown", "keypress", "keyup"}

textEventMaskedAt(type, e) ==
  /\ isTextEvent(type) /\ ~Field(e)
  /\ \/ isEditingEvent(type)
     \/ ~focusableItself(e)
     \/ mayHostUnseenShadowRoot(e) /\ ~declaredPublic(e)

(* What the window's listeners see of an event at e: its target, and the   *)
(* field found through the composed path or the tracked roots.             *)
Target(e) == IF Page[e].host = NoElem THEN e ELSE Page[e].host
eventField(type, e) ==
  LET mode == IF Page[e].host = NoElem THEN "none" ELSE Page[Page[e].host].root
  IN IF mode \in {"none", "open"} \/ (mode = "tracked" /\ isTextEvent(type))
     THEN e ELSE Page[e].host
EventSensitive(type, e) ==
  LET f == eventField(type, e)
  IN isSensitive(f, tainted) \/ textEventMaskedAt(type, f)

-----------------------------------------------------------------------------
(* A keystroke is masked as a whole. *)
Without(keys, k) ==
  LET at == {i \in DOMAIN keys : keys[i] = k}
  IN IF at = {} THEN keys ELSE RemoveAt(keys, CHOOSE i \in at : TRUE)
InFlight(k) == \E i \in DOMAIN keysInFlight : keysInFlight[i] = k

keystrokeMasked(type, k, found, repeat) ==
  CASE type = "keydown" -> found \/ (repeat /\ InFlight(k))
    [] type \in {"keypress", "keyup"} -> found \/ InFlight(k)
    [] OTHER -> found

(* What is remembered of the keys: the oldest of too many is forgotten.    *)
KeysAfter(type, k, masked) ==
  LET rest == Without(keysInFlight, k)
      all == IF masked /\ k \in TextKeys THEN Append(rest, k) ELSE rest
  IN CASE type = "keydown" -> IF Len(all) > MaxKeysInFlight THEN Tail(all) ELSE all
       [] type = "keyup" -> rest
       [] OTHER -> keysInFlight
LastAfter(type, k, masked) ==
  CASE type = "keydown" -> IF masked /\ k \in TextKeys THEN k ELSE NoKey
    [] type = "keyup" /\ lastMasked = k -> NoKey
    [] OTHER -> lastMasked

(* Mutated: only a keypress taints. *)
keystrokeTaintsOnPress(type, f, sensitive, masked) ==
  ~sensitive /\ Field(f) /\ type = "keypress" /\ masked

keystrokeTaints(type, f, sensitive, masked) ==
  /\ ~sensitive /\ Field(f)
  /\ \/ type = "keypress" /\ masked
     \/ isEditingEvent(type) /\ lastMasked # NoKey /\ InFlight(lastMasked)

-----------------------------------------------------------------------------
DocumentFields == {e \in Elems : Field(e) /\ Page[e].host = NoElem}

(* Mutated: nothing is ever forgotten. *)
rememberUnbounded(e, n, had) ==
  IF n < MinHoled THEN had ELSE had \cup {<<e, n>>}

(* The values holed wherever the page sends them.  When there are too many *)
(* the first in the list, a longest, is forgotten.                         *)
rememberSensitive(e, n, had) ==
  IF n < MinHoled \/ <<e, n>> \in had THEN had
  ELSE IF Cardinality(had) < MaxRemembered THEN had \cup {<<e, n>>}
  ELSE LET longest == CHOOSE v \in had : \A u \in had : u[2] <= v[2]
       IN (had \ {longest}) \cup {<<e, n>>}
currentSensitiveValues ==
  remembered \cup
  {<<e, length[e]>> : e \in {e \in Elems :
     /\ Field(e) /\ isSensitive(e, tainted)
     /\ e \in DocumentFields \cup seen}}

-----------------------------------------------------------------------------
(* The record of one event, and what replay makes of it. *)
Scrubbed(name, n) == [record |-> "Scrubbed", target |-> name, n |-> n, secret |-> FALSE,
                      type |-> "none", masked |-> TRUE]
DomEffect(name, n, secret) == [record |-> "DomEffect", target |-> name, n |-> n,
                               secret |-> secret, type |-> "none", masked |-> FALSE]
Input(type, name, secret, masked) == [record |-> "Input", target |-> name, n |-> 0,
                                      secret |-> secret, type |-> type, masked |-> masked]

(* targetOf names a field in a shadow tree by a path no document lookup    *)
(* reaches.                                                                *)
resolveTarget(name) == IF Page[name].host = NoElem THEN name ELSE NoElem

(* The records of an event at field f: at a sensitive one a Scrubbed stands *)
(* for the value; n is the value's length now, and secret what it holds.   *)
ScrubsText(type, f, taints) ==
  \/ type = "input" /\ Page[f].name = "editable"
  \/ taints /\ type # "input"
domEffects(type, e) == Control(Target(e)) /\ type \in {"input", "change"}
Written(type, e, sensitive, taints, n, holding) ==
  LET f == eventField(type, e)
  IN (IF sensitive /\ Field(f) /\ ScrubsText(type, f, taints)
        THEN <<Scrubbed(f, n)>> ELSE <<>>)
     \o (IF ~domEffects(type, e) THEN <<>>
         ELSE IF sensitive THEN <<Scrubbed(Target(e), n)>>
         ELSE <<DomEffect(Target(e), n, holding)>>)

(* apply and applyScrubbed, over the effects before an Input. *)
Effects(records) == {i \in DOMAIN records : records[i].record # "Input"}
(* Mutated: the placeholder is put, and the field is not made sensitive. *)
AppliedUntainted(records) ==
  IF replay # "running" THEN UNCHANGED replayed
  ELSE /\ replay' = replay /\ rTainted' = rTainted
       /\ rLength' = [f \in Elems |->
            IF \E i \in Effects(records) : records[i].target = f
            THEN (CHOOSE r \in {records[i] : i \in Effects(records)} : r.target = f).n
            ELSE rLength[f]]

Applied(records) ==
  LET bad == \E i \in Effects(records) : resolveTarget(records[i].target) = NoElem
      scrubbed == {records[i].target : i \in {i \in Effects(records) :
                     records[i].record = "Scrubbed"}}
  IN IF replay # "running" THEN UNCHANGED replayed
     ELSE IF bad THEN replay' = "failed" /\ UNCHANGED <<rTainted, rLength>>
     ELSE /\ replay' = replay
          /\ rTainted' = rTainted \cup
                         {f \in scrubbed : ~isSensitive(f, rTainted)}
          /\ rLength' = [f \in Elems |->
               IF \E i \in Effects(records) : records[i].target = f
               THEN (CHOOSE r \in {records[i] : i \in Effects(records)} :
                       r.target = f).n
               ELSE rLength[f]]

(* recordInput for an event of `type` at e, of key k, whose field's value  *)
(* is now n characters long; `char` says that the event carries a secret.  *)
recordInput(type, e, k, repeat, n, holding, char) ==
  LET f == eventField(type, e)
      found == EventSensitive(type, e)
      masked0 == keystrokeMasked(type, k, found, repeat)
      taints == keystrokeTaints(type, f, found, masked0)
      sensitive == found \/ taints
      masked == masked0 \/ taints
      records == Written(type, e, sensitive, taints, n, holding)
      remembers == sensitive /\ Field(f)
  IN /\ keysInFlight' = KeysAfter(type, k, masked0)
     /\ lastMasked' = LastAfter(type, k, masked0)
     /\ tainted' = IF taints THEN tainted \cup {f} ELSE tainted
     /\ seen' = IF remembers THEN seen \cup ({f} \ DocumentFields) ELSE seen
     /\ remembered' = IF remembers THEN rememberSensitive(f, n, remembered)
                                   ELSE remembered
     /\ lost' = \/ lost \/ ~(remembered \subseteq remembered')
                \/ ~(ToSet(Without(keysInFlight, k)) \subseteq ToSet(keysInFlight'))
     /\ wrote' = Append(records, Input(type, Target(e), char, masked))
     /\ Applied(records)

-----------------------------------------------------------------------------
(* The browser.  The keydown of a key goes to the focused element; its     *)
(* keypress and the editing events follow, each at the element focused by  *)
(* then, before another key's.                                             *)
Secret(k) == down[k] \in Elems
(* The shim cannot see into the tree of e.                                 *)
Unseen(e) == Page[e].host # NoElem /\ Page[Page[e].host].root = "unseen"
(* What the visitor typed into: a host the page declared public answers    *)
(* for the closed tree it hosts.                                           *)
TypedSecret(e) ==
  isSensitive(e, tainted) /\ ~(Unseen(e) /\ declaredPublic(Page[e].host))

KeyDown(k) ==
  /\ stroke = NoStroke
  /\ down' = [down EXCEPT ![k] = IF Secret(k) THEN @
                                 ELSE IF k \in TextKeys /\ TypedSecret(focus) THEN focus
                                 ELSE "clear"]
  /\ recordInput("keydown", focus, k, down[k] # "up",
                 length[focus], holds[focus], down'[k] \in Elems)
  /\ stroke' = IF k \in TextKeys THEN [key |-> k, next |-> "keypress"] ELSE NoStroke
  /\ UNCHANGED <<focus, fields, marks, captured>>

KeyPress ==
  /\ stroke.next = "keypress"
  /\ recordInput("keypress", focus, stroke.key, FALSE, length[focus], holds[focus],
                 Secret(stroke.key))
  /\ stroke' = IF Field(focus) THEN [stroke EXCEPT !.next = "beforeinput"] ELSE NoStroke
  /\ UNCHANGED <<focus, down, fields, marks, captured>>

(* A virtual keyboard, or an input method, sends no keypress. *)
BeforeInput ==
  /\ stroke.next \in {"keypress", "beforeinput"} /\ Field(focus)
  /\ recordInput("beforeinput", focus, stroke.key, FALSE, length[focus], holds[focus],
                 Secret(stroke.key))
  /\ stroke' = [stroke EXCEPT !.next = "input"]
  /\ UNCHANGED <<focus, down, fields, marks, captured>>

(* The character is put into the field, and then the event dispatched. *)
InsertText ==
  /\ stroke.next = "input" /\ Field(focus) /\ length[focus] < MaxLength
  /\ length' = [length EXCEPT ![focus] = @ + 1]
  /\ holds' = [holds EXCEPT ![focus] = @ \/ Secret(stroke.key)]
  /\ recordInput("input", focus, stroke.key, FALSE, length[focus] + 1, holds'[focus],
                 Secret(stroke.key))
  /\ stroke' = NoStroke
  /\ UNCHANGED <<focus, down, marks, captured>>

KeyUp(k) ==
  /\ stroke = NoStroke /\ down[k] # "up"
  /\ recordInput("keyup", focus, k, FALSE, length[focus], holds[focus], Secret(k))
  /\ down' = [down EXCEPT ![k] = "up"]
  /\ UNCHANGED <<focus, stroke, fields, marks, captured>>

Quiet == wrote' = <<>> /\ UNCHANGED <<shim, replayed>>

(* The window loses focus with the key held: its keyup never comes. *)
KeyUpLost(k) ==
  /\ stroke = NoStroke /\ down[k] # "up"
  /\ down' = [down EXCEPT ![k] = "up"]
  /\ Quiet /\ UNCHANGED <<focus, stroke, fields, marks, captured>>

(* The focus moves, by the visitor or by the page, and a change is         *)
(* dispatched at the field left.                                           *)
MoveFocus(e) ==
  /\ e # focus
  /\ focus' = e
  /\ IF Field(focus) /\ length[focus] > 0
       THEN recordInput("change", focus, NoKey, FALSE, length[focus], holds[focus], FALSE)
       ELSE Quiet
  /\ UNCHANGED <<down, stroke, fields, marks, captured>>

(* The page, or the field, does not take the character. *)
Cancel ==
  /\ stroke # NoStroke /\ stroke' = NoStroke
  /\ Quiet /\ UNCHANGED <<focus, down, fields, marks, captured>>

(* ct.public, which throws at a credential field, and ct.sensitive.  What  *)
(* was typed into a field declared public is no secret any more.  The page *)
(* declares no field of a tree the shim cannot see into.                   *)
Declare(e, mark) ==
  /\ <<e, mark>> \in Declares /\ marks[e] # mark /\ (mark = "public" => ~Page[e].credential)
  /\ ~Unseen(e)
  /\ marks' = [marks EXCEPT ![e] = mark]
  /\ IF mark = "public"
       THEN /\ holds' = [holds EXCEPT ![e] = FALSE]
            /\ down' = [k \in Keys |-> IF down[k] = e THEN "clear" ELSE down[k]]
       ELSE UNCHANGED <<holds, down>>
  /\ Quiet /\ UNCHANGED <<focus, stroke, length, captured>>

(* rememberShadowFieldReads: the read of a sensitive form control's value  *)
(* inside a shadow tree is remembered.  The text of an editable is read    *)
(* through no accessor the shim patches.                                   *)
RemembersRead(e) == Control(e) /\ Page[e].host # NoElem /\ isSensitive(e, tainted)
(* The page reads a value that holds a secret and keeps it.                *)
Capture(e) ==
  /\ holds[e] /\ captured = NoValue
  /\ captured' = <<e, length[e]>>
  /\ IF RemembersRead(e)
       THEN /\ seen' = seen \cup {e}
            /\ remembered' = rememberSensitive(e, length[e], remembered)
            /\ lost' = (lost \/ ~(remembered \subseteq remembered'))
       ELSE UNCHANGED <<seen, remembered, lost>>
  /\ wrote' = <<>>
  /\ UNCHANGED <<platform, fields, marks, keysInFlight, lastMasked, tainted, replayed>>

(* The page empties a field.                                               *)
Clear(e) ==
  /\ length[e] > 0
  /\ length' = [length EXCEPT ![e] = 0] /\ holds' = [holds EXCEPT ![e] = FALSE]
  /\ rLength' = [rLength EXCEPT ![e] = 0]
  /\ wrote' = <<>>
  /\ UNCHANGED <<platform, marks, shim, captured, rTainted, replay>>

(* It sends it: what is holed is not in the record. *)
Send ==
  /\ captured # NoValue
  /\ wrote' = <<[record |-> "Outbound", target |-> captured[1], n |-> captured[2],
                 secret |-> TRUE, type |-> "none",
                 masked |-> captured \in currentSensitiveValues]>>
  /\ captured' = NoValue
  /\ UNCHANGED <<platform, fields, marks, shim, replayed>>

Init ==
  /\ focus \in Elems
  /\ down = [k \in Keys |-> "up"] /\ stroke = NoStroke
  /\ length = [e \in Elems |-> 0] /\ holds = [e \in Elems |-> FALSE]
  /\ marks = [e \in Elems |-> "none"]
  /\ seen = {} /\ remembered = {} /\ keysInFlight = <<>> /\ lastMasked = NoKey
  /\ tainted = {} /\ lost = FALSE
  /\ captured = NoValue /\ wrote = <<>>
  /\ rTainted = {} /\ rLength = [e \in Elems |-> 0] /\ replay = "running"

Next ==
  \/ \E k \in Keys : KeyDown(k) \/ KeyUp(k) \/ KeyUpLost(k)
  \/ KeyPress \/ BeforeInput \/ InsertText \/ Cancel \/ Send
  \/ \E e \in Elems :
       \/ MoveFocus(e) \/ Capture(e) \/ Clear(e)
       \/ \E mark \in {"public", "sensitive"} : Declare(e, mark)

Spec == Init /\ [][Next]_vars

-----------------------------------------------------------------------------
(* The types of the variables (SensitiveState, sensitive.ts): the keys in  *)
(* flight and the values remembered are within their bounds.               *)
TypeOK ==
  /\ focus \in Elems
  /\ down \in [Keys -> {"up", "clear"} \cup Elems]
  /\ length \in [Elems -> 0..MaxLength] /\ holds \in [Elems -> BOOLEAN]
  /\ marks \in [Elems -> {"none", "public", "sensitive"}]
  /\ Len(keysInFlight) <= MaxKeysInFlight
  /\ \A i, j \in DOMAIN keysInFlight :
       keysInFlight[i] \in TextKeys /\ (i # j => keysInFlight[i] # keysInFlight[j])
  /\ lastMasked \in TextKeys \cup {NoKey}
  /\ Cardinality(remembered) <= MaxRemembered
  /\ replay \in {"running", "failed"}

(* A field of a tree the shim cannot see into, whose value it is not told  *)
(* of even as the page reads it: an editable, or one that is not sensitive *)
(* by itself.                                                              *)
Untold(e) == Unseen(e) /\ ~RemembersRead(e)

(* No record carries in clear a character of a keystroke made at a         *)
(* sensitive field, nor a value that holds one: not in the rest of the     *)
(* keystroke's events at another element, not in the value of the field it *)
(* was put into, and not in what the page sends later; unless that is too  *)
(* short to hole, or of a field the shim is never told of                  *)
(* (recordInput, holeText, rememberShadowFieldReads).                      *)
NoSecretInClear ==
  \A i \in DOMAIN wrote :
    wrote[i].secret /\ ~wrote[i].masked =>
      \/ lost
      \/ /\ wrote[i].record = "Outbound"
         /\ wrote[i].n < MinHoled \/ Untold(wrote[i].target)

(* The replay holds the same fields for sensitive as the recorder did when *)
(* it wrote the event, and its form controls hold as many characters:      *)
(* the records before the event say all of it.                             *)
Plain(e) == Page[e].host = NoElem
ReplayAlike ==
  replay = "running" /\ wrote # <<>> /\ wrote[Len(wrote)].record = "Input" =>
    /\ \A e \in Elems : Plain(e) => (e \in tainted <=> e \in rTainted)
    /\ \A e \in Elems : (Plain(e) /\ Control(e) /\ wrote[Len(wrote)].type = "input"
                          /\ wrote[Len(wrote)].target = e) => rLength[e] = length[e]

(* Mutated: only a field found sensitive is watched. *)
WatchedAtField(type, name) == isSensitive(name, rTainted)

(* What was masked on record is watched on replay: the page's read of a    *)
(* masked property is reported as a raw read of a sensitive value          *)
(* (watchMaskedProps).                                                     *)
Watched(type, name) ==
  \/ isSensitive(name, rTainted)
  \/ ~Field(name)
  \/ type \in {"keydown", "keypress", "keyup"}
MaskedIsWatched ==
  \A i \in DOMAIN wrote :
    wrote[i].record = "Input" /\ wrote[i].masked /\ isTextEvent(wrote[i].type)
      /\ replay = "running" => Watched(wrote[i].type, wrote[i].target)

(* The replay masks what the record masked: from the same fields, with the *)
(* same lengths, and watching what it withholds from the page.             *)
MasksAlike == ReplayAlike /\ MaskedIsWatched
=============================================================================
