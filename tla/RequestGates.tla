---------------------------- MODULE RequestGates ----------------------------
(***************************************************************************)
(* The replay's network (runner.ts, serve; gates.ts): every request of the *)
(* replayed page is answered from the build, but those of the scripts and  *)
(* resources the log has a task of are held until the page's scheduler     *)
(* comes to that task, so that they run and load in the order of the log.  *)
(*                                                                         *)
(* The page is a list of elements [kind, url]: scripts the parser inserts  *)
(* ("parser", each behind a gate), scripts the page inserts ("inserted"),  *)
(* modules a script imports ("module"), images ("image") and style sheets  *)
(* ("style").  `log` is the document tasks of the session, by element.     *)
(***************************************************************************)
EXTENDS Integers, Sequences, FiniteSets, SequencesExt

CONSTANTS
  Kinds, Urls,   \* of the elements a page may have
  MaxElements,   \* elements of a page
  Levels,        \* protocol levels: at 0 the shim logged every execution
  Edges          \* what else a session may be; see below

VARIABLES
  level, page, log,
  scripts, resources,  \* runner: executions and events still to be held, by logged URL
  keys,                \* runner: HeldResources, by key
  requests,            \* the requests made, and where each is
  parser,              \* how far the document is parsed
  inserted,            \* elements the page has inserted
  at,                  \* scheduler: tasks of the log it has let go
  awaiting,            \* scheduler: whether the last of them has yet to run
  early,               \* events the platform dispatched before their task
  ran                  \* what ran: elements, as their scripts and events did

vars == <<level, page, log, scripts, resources, keys, requests, parser, inserted,
          at, awaiting, early, ran>>

(* The edges:                                                              *)
(*   "one URL twice"      two elements of one URL, which one key holds     *)
(*   "nothing to hold"    a log with no task of its document               *)
(*   "module of a script" a module imported from the URL of a held script  *)

Scripts == {"parser", "inserted"}
Logged == Scripts \cup {"image", "style"}
Requested == {page[i].url : i \in DOMAIN page}

(* A URL's secrets are scrubbed from the log: s1 and s2 are one there.     *)
Scrubbed(u) == IF u \in {"s1", "s2"} THEN "s*" ELSE u
UrlMatches(logged, u) == Scrubbed(u) = logged
LoggedSrc(i) == Scrubbed(page[i].url)
IsScript(i) == page[i].kind \in Scripts

(* ---- gates.ts: the plan and the keys ------------------------------------ *)

TasksOf(pg, l, kinds, u) == Cardinality({i \in DOMAIN l : pg[l[i]].kind \in kinds /\ Scrubbed(pg[l[i]].url) = u})
Srcs == {"a", "b", "s*"}
Holds == log # <<>>

(* `resolveLoggedUrl`: the URL itself if the log has it, or the one it     *)
(* matches, or itself.                                                     *)
LoggedUrls == {LoggedSrc(log[i]) : i \in DOMAIN log}
LoggedUrl(u) == CASE u \in LoggedUrls -> u
                  [] \E v \in LoggedUrls : UrlMatches(v, u) -> CHOOSE v \in LoggedUrls : UrlMatches(v, u)
                  [] OTHER -> u

ScriptKey(u) == "script:" \o u
ResourceKey(u) == "resource:" \o u
GateKey(i) == "gate/" \o ToString(i)
NoEntry == [waiting |-> {}, credit |-> 0]
EntryOf(key) == IF key \in DOMAIN keys THEN keys[key] ELSE NoEntry
SetEntry(key, e) == [k \in DOMAIN keys \cup {key} |-> IF k = key THEN e ELSE keys[k]]

(* `hold`: a key let go before its request came answers that request.      *)
Hold(r, key) ==
  LET e == EntryOf(key)
  IN  IF e.credit > 0
      THEN /\ keys' = SetEntry(key, [e EXCEPT !.credit = @ - 1])
           /\ requests' = [requests EXCEPT ![r].state = "let go"]
      ELSE /\ keys' = SetEntry(key, [e EXCEPT !.waiting = @ \cup {r}])
           /\ requests' = [requests EXCEPT ![r].state = "held"]

(* `open`: every request waiting at the key, or the next one to come.      *)
OpenKey(key) ==
  LET e == EntryOf(key)
  IN  /\ keys' = SetEntry(key, IF e.waiting = {} THEN [e EXCEPT !.credit = @ + 1] ELSE [e EXCEPT !.waiting = {}])
      /\ requests' = [r \in DOMAIN requests |->
                        IF r \in e.waiting THEN [requests[r] EXCEPT !.state = "let go"] ELSE requests[r]]

(* ---- The page asks ---------------------------------------------------------- *)

(* Scripts of the page that have not settled: `pendingScripts`.            *)
AtScript(i) == parser.at = i /\ parser.part = "script"
Pending(i) == i \notin Range(ran) /\ (IF page[i].kind = "parser" THEN AtScript(i) ELSE IsScript(i) /\ i \in inserted)
LOCAL RequestsOf(i) == {r \in DOMAIN requests : requests[r].of = i}
Send(i) == requests' = Append(requests, [of |-> i, state |-> "sent"])
Loading == parser.part # "end"
ParserScripts == {i \in DOMAIN page : page[i].kind = "parser"}
NextScript == IF \E i \in ParserScripts : i > parser.at
              THEN CHOOSE i \in ParserScripts : i > parser.at /\ \A j \in ParserScripts : j > parser.at => i <= j
              ELSE 0

(* The parser goes on to the gate before its next script, past the gate    *)
(* once it has been answered, and past the script once it has run.         *)
ReachesGate ==
  /\ parser.part = "between"
  /\ parser' = IF NextScript = 0 THEN [parser EXCEPT !.part = "end"] ELSE [at |-> NextScript, part |-> "gate"]
  /\ UNCHANGED <<level, page, log, scripts, resources, keys, requests, inserted, at, awaiting, early, ran>>
GateOpened == parser.part = "gate" /\ EntryOf(GateKey(parser.at)).credit > 0
ReachesScript ==
  /\ GateOpened
  /\ parser' = [parser EXCEPT !.part = "script"]
  /\ IF RequestsOf(parser.at) = {} THEN Send(parser.at) ELSE UNCHANGED requests
  /\ UNCHANGED <<level, page, log, scripts, resources, keys, inserted, at, awaiting, early, ran>>

(* The preload scanner asks for a script the parser has not reached.       *)
Preloads ==
  /\ \E i \in ParserScripts : i > parser.at /\ RequestsOf(i) = {} /\ Send(i)
  /\ UNCHANGED <<level, page, log, scripts, resources, keys, parser, inserted, at, awaiting, early, ran>>

(* The page inserts an element of its own, or imports a module.            *)
Inserts ==
  /\ \E i \in DOMAIN page \ (inserted \cup ParserScripts) : inserted' = inserted \cup {i} /\ Send(i)
  /\ UNCHANGED <<level, page, log, scripts, resources, keys, parser, at, awaiting, early, ran>>

(* ---- runner.ts: serve --------------------------------------------------------- *)

TypeOf(i) == IF page[i].kind \in Scripts \cup {"module"} THEN "script" ELSE page[i].kind
Key(i) == LoggedUrl(page[i].url)
Left(counts, u) == IF u \in DOMAIN counts THEN counts[u] ELSE 0
Take(counts, u) == [counts EXCEPT ![u] = @ - 1]
AnswerNow(r) == requests' = [requests EXCEPT ![r].state = "let go"] /\ UNCHANGED keys

(* Mutated: a script the log has no execution of is answered.              *)
ServeUnlogged(r, i) ==
  IF Left(scripts, Key(i)) > 0
  THEN scripts' = Take(scripts, Key(i)) /\ Hold(r, ScriptKey(Key(i))) /\ UNCHANGED resources
  ELSE AnswerNow(r) /\ UNCHANGED <<scripts, resources>>
(* A script the log has an execution of is held, and at level 0 one the    *)
(* parser inserts; of another the page is asked whether it is an element.  *)
ServeScript(r, i) ==
  CASE Left(scripts, Key(i)) > 0 ->
         scripts' = Take(scripts, Key(i)) /\ Hold(r, ScriptKey(Key(i))) /\ UNCHANGED resources
    [] Left(scripts, Key(i)) = 0 /\ level = 0 /\ Holds /\ page[i].url \in {page[j].url : j \in ParserScripts} ->
         Hold(r, ScriptKey(Key(i))) /\ UNCHANGED <<scripts, resources>>
    [] Left(scripts, Key(i)) = 0 /\ level = 0 /\ Holds ->
         requests' = [requests EXCEPT ![r].state = "asking"] /\ UNCHANGED <<keys, scripts, resources>>
    [] OTHER -> AnswerNow(r) /\ UNCHANGED <<scripts, resources>>

(* Mutated: a style sheet is held too.                                     *)
ServeAllHeld(r, i) ==
  IF Left(resources, Key(i)) > 0
  THEN resources' = Take(resources, Key(i)) /\ Hold(r, ResourceKey(Key(i))) /\ UNCHANGED scripts
  ELSE AnswerNow(r) /\ UNCHANGED <<scripts, resources>>
(* A resource the log has an event of is held, but not a style sheet while *)
(* the document is parsed, which would hold the parser.                    *)
ServeResource(r, i) ==
  IF ~(TypeOf(i) = "style" /\ Loading) /\ Left(resources, Key(i)) > 0
  THEN resources' = Take(resources, Key(i)) /\ Hold(r, ResourceKey(Key(i))) /\ UNCHANGED scripts
  ELSE AnswerNow(r) /\ UNCHANGED <<scripts, resources>>

Serve ==
  /\ \E r \in DOMAIN requests :
       /\ requests[r].state = "sent"
       /\ IF TypeOf(requests[r].of) = "script" THEN ServeScript(r, requests[r].of) ELSE ServeResource(r, requests[r].of)
  /\ UNCHANGED <<level, page, log, parser, inserted, at, awaiting, early, ran>>

(* `pageScriptElement`: the page's answer, some time after.                *)
PendingScriptElement(u) == \E i \in DOMAIN page : Pending(i) /\ (UrlMatches(LoggedSrc(i), u) \/ page[i].url = u)
Asked ==
  /\ \E r \in DOMAIN requests :
       /\ requests[r].state = "asking"
       /\ LET i == requests[r].of
          IN  IF PendingScriptElement(page[i].url) THEN Hold(r, ScriptKey(Key(i))) ELSE AnswerNow(r)
  /\ UNCHANGED <<level, page, log, scripts, resources, parser, inserted, at, awaiting, early, ran>>

(* ---- What is answered runs and loads ---------------------------------------------- *)

Due(i) == awaiting /\ page[log[at]].kind \in (IF IsScript(i) THEN Scripts ELSE {page[i].kind})
          /\ LoggedSrc(log[at]) = LoggedSrc(i)
Ran(i) == ran' = Append(ran, i)

(* A script runs as soon as it is there; a parser's at its place, and not  *)
(* while a style sheet asked for is not there.                             *)
Blocked(i) == page[i].kind = "parser"
              /\ \E r \in DOMAIN requests : page[requests[r].of].kind = "style" /\ requests[r].state # "answered"
ScriptRuns ==
  /\ \E r \in DOMAIN requests :
       LET i == requests[r].of
       IN  /\ requests[r].state = "let go" /\ IsScript(i) /\ Pending(i) /\ ~Blocked(i)
           /\ requests' = [requests EXCEPT ![r].state = "answered"]
           /\ Ran(i)
           /\ awaiting' = (awaiting /\ ~Due(i))
           /\ parser' = IF AtScript(i) THEN [parser EXCEPT !.part = "between"] ELSE parser
  /\ UNCHANGED <<level, page, log, scripts, resources, keys, inserted, at, early>>

(* A module runs as part of the graph of what imported it.                 *)
ModuleRuns ==
  /\ \E r \in DOMAIN requests :
       /\ requests[r].state = "let go" /\ page[requests[r].of].kind = "module"
       /\ requests' = [requests EXCEPT ![r].state = "answered"]
  /\ UNCHANGED <<level, page, log, scripts, resources, keys, parser, inserted, at, awaiting, early, ran>>

(* Mutated: the page has an event of the log as the platform dispatches it. *)
LoadsAtOnce ==
  /\ \E r \in DOMAIN requests :
       LET i == requests[r].of
       IN  /\ requests[r].state = "let go" /\ page[i].kind \in {"image", "style"} /\ i \in Range(log)
           /\ requests' = [requests EXCEPT ![r].state = "answered"]
           /\ Ran(i)
           /\ awaiting' = (awaiting /\ ~(Due(i) /\ log[at] = i))
  /\ UNCHANGED <<level, page, log, scripts, resources, keys, parser, inserted, at, early>>

(* An event the scheduler waits for is the page's; one before its task is  *)
(* kept from it until then.                                                *)
ResourceLoads ==
  /\ \E r \in DOMAIN requests :
       LET i == requests[r].of
       IN  /\ requests[r].state = "let go" /\ page[i].kind \in {"image", "style"}
           /\ requests' = [requests EXCEPT ![r].state = "answered"]
           /\ IF Due(i) /\ log[at] = i
              THEN Ran(i) /\ awaiting' = FALSE /\ UNCHANGED early
              ELSE early' = early \cup {i} /\ UNCHANGED <<ran, awaiting>>
  /\ UNCHANGED <<level, page, log, scripts, resources, keys, parser, inserted, at>>

(* ---- The scheduler (`letDocTaskGo`) ----------------------------------------------------- *)

(* An event is told by its element, which must be in the page by then.     *)
LetEventGo(i) ==
  /\ i \in inserted
  /\ IF i \in early
     THEN /\ early' = early \ {i} /\ Ran(i) /\ UNCHANGED <<awaiting, keys, requests>>
     ELSE /\ awaiting' = TRUE /\ OpenKey(ResourceKey(LoggedSrc(i))) /\ UNCHANGED <<early, ran>>

(* A script the page has no pending element of is past the parser's gate.  *)
LetScriptGo(i) ==
  LET inDocument == \E j \in DOMAIN page : Pending(j) /\ LoggedSrc(j) = LoggedSrc(i)
      past == ~inDocument /\ parser.part = "gate"
      key == ScriptKey(LoggedSrc(i))
      e == EntryOf(key)
      opened == SetEntry(key, IF e.waiting = {} THEN [e EXCEPT !.credit = @ + 1] ELSE [e EXCEPT !.waiting = {}])
  IN  /\ awaiting' = TRUE
      /\ IF past
         THEN /\ keys' = [k \in DOMAIN opened \cup {GateKey(parser.at)} |->
                            IF k = GateKey(parser.at) THEN [waiting |-> {}, credit |-> 1] ELSE opened[k]]
              /\ requests' = [r \in DOMAIN requests |->
                                IF r \in e.waiting THEN [requests[r] EXCEPT !.state = "let go"] ELSE requests[r]]
         ELSE OpenKey(key)
      /\ UNCHANGED <<early, ran>>

(* The next task of the log, once the one before has run.  (A script of    *)
(* the page's own has been inserted by then: it waits for the page's work.)*)
LetDocTaskGo ==
  /\ ~awaiting /\ at < Len(log)
  /\ LET i == log[at + 1]
     IN  /\ page[i].kind = "inserted" => i \in inserted
         /\ page[i].kind = "parser" => parser.part \in {"gate", "script"}
         /\ IF IsScript(i) THEN LetScriptGo(i) ELSE LetEventGo(i)
  /\ at' = at + 1
  /\ UNCHANGED <<level, page, log, scripts, resources, parser, inserted>>

(* The log has the page work where the parser was further on: it is let    *)
(* past its gate.                                                          *)
MoveDocumentOn ==
  /\ ~awaiting /\ parser.part = "gate" /\ ~GateOpened
  /\ OpenKey(GateKey(parser.at))
  /\ UNCHANGED <<level, page, log, scripts, resources, parser, inserted, at, awaiting, early, ran>>

(* ---- Sessions ------------------------------------------------------------------------------ *)

Elements == [kind : Kinds, url : Urls]
Orders(S) == {s \in UNION {[1 .. n -> S] : n \in 0 .. Cardinality(S)} :
                Cardinality({s[i] : i \in DOMAIN s}) = Len(s)}
InOrder(pg, l) ==
  \A i, j \in DOMAIN l : pg[l[i]].kind = "parser" /\ pg[l[j]].kind = "parser" /\ i < j => l[i] < l[j]
AllBefore(pg, l) ==  \* a parser script runs after those before it
  \A i \in DOMAIN l : pg[l[i]].kind = "parser" =>
    \A j \in 1 .. l[i] - 1 : pg[j].kind = "parser" => j \in {l[k] : k \in 1 .. i}
Twice(pg) == \E i, j \in DOMAIN pg : i < j /\ (pg[i].kind \in Scripts) = (pg[j].kind \in Scripts)
                                      /\ "module" \notin {pg[i].kind, pg[j].kind}
                                      /\ Scrubbed(pg[i].url) = Scrubbed(pg[j].url)
Shared(pg) == \E i, j \in DOMAIN pg : pg[i].kind = "module" /\ pg[j].kind \in Scripts
                                       /\ Scrubbed(pg[i].url) = Scrubbed(pg[j].url)

RequestInit ==
  /\ level \in Levels
  /\ page \in UNION {[1 .. n -> Elements] : n \in 1 .. MaxElements}
  /\ Twice(page) => "one URL twice" \in Edges
  /\ Shared(page) => "module of a script" \in Edges
  /\ log \in Orders({i \in DOMAIN page : page[i].kind \in Logged})
  /\ InOrder(page, log) /\ AllBefore(page, log)
  /\ log = <<>> => "nothing to hold" \in Edges
  /\ scripts = [u \in Srcs |-> TasksOf(page, log, Scripts, u)]
  /\ resources = [u \in Srcs |-> TasksOf(page, log, {"image", "style"}, u)]
  /\ keys = <<>> /\ requests = <<>> /\ parser = [at |-> 0, part |-> "between"]
  /\ inserted = {} /\ at = 0 /\ awaiting = FALSE /\ early = {} /\ ran = <<>>

RequestNext ==
  \/ ReachesGate \/ ReachesScript \/ Preloads \/ Inserts \/ Serve \/ Asked
  \/ ScriptRuns \/ ModuleRuns \/ ResourceLoads \/ LetDocTaskGo \/ MoveDocumentOn

RequestSpec == RequestInit /\ [][RequestNext]_vars

-----------------------------------------------------------------------------
RequestTypeOK ==
  /\ at \in 0 .. Len(log)
  /\ \A r \in DOMAIN requests : requests[r].state \in {"sent", "asking", "held", "let go", "answered"}
  /\ \A k \in DOMAIN keys : keys[k].credit \in Nat /\ keys[k].waiting \subseteq DOMAIN requests
  /\ parser.part \in {"between", "gate", "script", "end"}
  /\ \A u \in Srcs : scripts[u] \in Nat /\ resources[u] \in Nat

(* At level 0 the shim logged every script that ran: one the log does not  *)
(* have does not run on replay, whoever inserted it and whenever its       *)
(* request comes.                                                          *)
RunsOnlyWhatRan ==
  level = 0 => \A i \in Range(ran) : i \in Range(log)

(* The scripts of the log run, and its resources' events are dispatched,   *)
(* in the order of the log, however the requests and answers interleave.   *)
RunsInLogOrder ==
  IsPrefix(SelectSeq(ran, LAMBDA i : i \in Range(log)), log)

(* Nothing waits for what waits for it: the replay stops only once all the *)
(* log has run.                                                            *)
NeverStalls == ENABLED RequestNext \/ (at = Len(log) /\ ~awaiting)
=============================================================================
