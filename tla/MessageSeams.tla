----------------------------- MODULE MessageSeams -----------------------------
(***************************************************************************)
(* The messages a page posts to itself, on record                          *)
(* (packages/boundary-shim/src/browser/seams-message.ts) and on replay     *)
(* (replay/message.ts): posts on the ports of its channels, ports moved by *)
(* them, posts to its own window, messages from elsewhere, and the storage *)
(* events of another document.                                             *)
(*                                                                         *)
(* The platform keeps the messages of each port in order, and delivers     *)
(* those of any port the page has whenever it likes.  A port that is moved *)
(* arrives as a new one, with the messages that waited at it.  On replay   *)
(* it does so at other times, and its deliveries are held.                 *)
(***************************************************************************)
EXTENDS SeamSession, SequencesExt

CONSTANTS
  MaxChannels, MaxForeign,  \* bounds: channels made, messages and events from elsewhere
  MovesBusy   \* whether the page moves a port that messages wait at, and posts to one in transit

Ports == 1..(2 * MaxChannels + MaxOps)
Window == 0
Receivers == Ports \cup {Window}

VARIABLES
  ports,     \* the platform's, per port: its mate, whether the page has it, its messages
  made, sent,  \* how many ports were made and messages posted
  peers, queues,  \* the shim's: each port's peer, and the posts not delivered, per receiver
  foreign,   \* what came from elsewhere so far
  \* the replay's:
  handlers,  \* the posts registered: per task, the receiver and the ports moved
  boxOf, boxes,  \* each receiver's inbox, and what arrived in each
  waiting,   \* the task released whose delivery has not arrived, or NoPost
  windowPosts

platform == <<ports, made, sent>>
recorder == <<peers, queues, foreign>>
replayer == <<handlers, boxOf, boxes, waiting, windowPosts>>
vars == <<session, platform, recorder, replayer>>

NoPort == [mate |-> 0, has |-> FALSE, inbox |-> <<>>]
NoBox == -1
NoPost == [id |-> 0, receiver |-> Window, moved |-> <<>>]

-----------------------------------------------------------------------------
(* The platform, on record as on replay. *)

Free(p) == p \in Ports /\ ports[p].has
Fresh(moved) == [i \in DOMAIN moved |-> made + i]

(* Its messages, with the ports they carry: in transit the page has none.  *)
WithMessage(receiver, moved) ==
  [p \in DOMAIN ports |->
    CASE p = receiver -> [ports[p] EXCEPT
           !.inbox = Append(@, [n |-> sent + 1, moved |-> moved, ports |-> Fresh(moved)])]
      [] p \in ToSet(moved) -> [ports[p] EXCEPT !.has = FALSE]
      [] OTHER -> ports[p]]

MakesChannel ==
  /\ made + 2 <= 2 * MaxChannels
  /\ ports' = [ports EXCEPT ![made + 1] = [NoPort EXCEPT !.mate = made + 2, !.has = TRUE],
                            ![made + 2] = [NoPort EXCEPT !.mate = made + 1, !.has = TRUE]]
  /\ made' = made + 2 /\ sent' = sent
Posts(receiver, moved) ==
  /\ ports' = WithMessage(receiver, moved)
  /\ made' = made + Len(moved) /\ sent' = sent + 1

(* The oldest message of a receiver leaves it, and the ports it carries    *)
(* replace those moved.                                                    *)
Renamed(m, p) ==
  IF \E i \in DOMAIN m.moved : m.moved[i] = p
  THEN m.ports[CHOOSE i \in DOMAIN m.moved : m.moved[i] = p] ELSE p
Taken(receiver) ==
  LET m == Head(ports[receiver].inbox)
      left == [ports EXCEPT ![receiver].inbox = Tail(@)]
  IN [p \in DOMAIN ports |->
       CASE p \in ToSet(m.ports) ->
              LET old == left[m.moved[CHOOSE i \in DOMAIN m.ports : m.ports[i] = p]]
              IN [old EXCEPT !.has = TRUE, !.mate = Renamed(m, @)]
         [] p \in ToSet(m.moved) -> NoPort
         [] OTHER -> [left[p] EXCEPT !.mate = Renamed(m, @)]]
Deliverable(receiver) ==
  ports[receiver].inbox # <<>> /\ (receiver = Window \/ ports[receiver].has)

(* What a post moves: nothing, or another port of the page's.              *)
Moves(port) ==
  {<<>>} \cup {<<q>> : q \in {r \in Ports \ {port, ports[port].mate} :
                 /\ Free(r) /\ made < 2 * MaxChannels + MaxOps
                 /\ MovesBusy \/ ports[r].inbox = <<>>
                 /\ MovesBusy \/ Free(ports[r].mate)}}

-----------------------------------------------------------------------------
(* Recording. *)

(* The ports a port's delivery brought are followed: their peers talk to   *)
(* them, and what waited at the old ones waits there.                      *)
Follow(table, m) ==
  [p \in DOMAIN table |->
    IF p \in ToSet(m.ports)
    THEN Renamed(m, table[m.moved[CHOOSE i \in DOMAIN m.ports : m.ports[i] = p]])
    ELSE Renamed(m, table[p])]
Moved(table, m) ==
  [p \in DOMAIN table |->
    IF p \in ToSet(m.ports)
    THEN table[m.moved[CHOOSE i \in DOMAIN m.ports : m.ports[i] = p]] ELSE table[p]]

Channel ==
  /\ PageRuns /\ MakesChannel
  /\ peers' = [peers EXCEPT ![made + 1] = made + 2, ![made + 2] = made + 1]
  /\ Does(<<"channel", 0, <<>>>>, made, <<>>, 0)
  /\ UNCHANGED <<queues, foreign, replayer>>

(* The post a delivery at a receiver is of: the oldest not delivered.      *)
deliver(queue) == Head(queue)

post(receiver, id) == queues' = [queues EXCEPT ![receiver] = Append(@, id)]
Post ==
  /\ PageRuns
  /\ \E port \in {p \in Ports : Free(p) /\ (MovesBusy \/ Free(ports[p].mate))} :
     \E moved \in Moves(port) :
       /\ Posts(ports[port].mate, moved)
       /\ post(peers[port], nextTask)
       /\ Does(<<"post", port, moved>>, None, <<TaskReg(nextTask, "message")>>, 1)
  /\ UNCHANGED <<peers, foreign, replayer>>

(* A post to the page's own window is minted a task at its delivery. *)
PostToWindow ==
  /\ PageRuns /\ Posts(Window, <<>>)
  /\ Does(<<"window", 0, <<>>>>, None, <<>>, 0)
  /\ UNCHANGED <<recorder, replayer>>

(* Mutated: a delivery is not written.                                     *)
deliveredNot(id) == <<>>
delivered(id) == <<Task(id, "message")>>
Deliver ==
  /\ PlatformActs
  /\ \E port \in Ports :
       /\ Deliverable(port) /\ queues[port] # <<>>
       /\ LET m == Head(ports[port].inbox)
              id == deliver(queues[port])
              rest == [queues EXCEPT ![port] = SelectSeq(@, LAMBDA q : q # id)]
          IN /\ Begins(id, "message", <<port, m.n, m.ports>>, delivered(id), 0)
             /\ peers' = Follow(peers, m) /\ queues' = Moved(rest, m)
             /\ ports' = Taken(port)
  /\ UNCHANGED <<made, sent, foreign, replayer>>
DeliverAtWindow ==
  /\ PlatformActs /\ Deliverable(Window)
  /\ LET m == Head(ports[Window].inbox)
     IN Begins(nextTask, "message", <<Window, m.n, <<>>>>, delivered(nextTask), 1)
  /\ ports' = Taken(Window)
  /\ UNCHANGED <<made, sent, recorder, replayer>>

(* A message the page did not post: refused at its first delivery. *)
DeliverForeign ==
  /\ PlatformActs /\ foreign < MaxForeign /\ foreign' = foreign + 1
  /\ Begins(0, "foreign", None,
            IF Refusal \in ToSet(log) THEN <<>> ELSE <<Refusal>>, 0)
  /\ UNCHANGED <<platform, peers, queues, replayer>>
(* Another document changed the storage. *)
StorageEvent ==
  /\ PlatformActs /\ foreign < MaxForeign /\ foreign' = foreign + 1
  /\ Begins(nextTask, "storage", <<Window, foreign, <<>>>>,
            <<Task(nextTask, "storage"), Rec("Input", nextTask, "storage", foreign)>>, 1)
  /\ UNCHANGED <<platform, peers, queues, replayer>>

EndTurn == TurnOver /\ UNCHANGED <<platform, recorder, replayer>>
Start == [p \in Receivers |-> NoPort]
StopRecording ==
  /\ Stop /\ ports' = Start /\ made' = 0 /\ sent' = 0
  /\ peers' = [p \in Ports |-> 0]
  /\ UNCHANGED <<queues, foreign, replayer>>

-----------------------------------------------------------------------------
(* Replay. *)
ChannelAgain ==
  /\ PageReplays(<<"channel", 0, <<>>>>) /\ MakesChannel /\ Replays(<<>>, made, 0)
  /\ peers' = [peers EXCEPT ![made + 1] = made + 2, ![made + 2] = made + 1]
  /\ UNCHANGED <<queues, foreign, replayer>>

PostAgain ==
  /\ Replaying /\ turn /\ HasOp /\ ThisOp.op[1] = "post"
  /\ LET port == ThisOp.op[2]
         moved == ThisOp.op[3]
         asked == <<TaskReg(nextTask, "message")>>
     IN IF Matches(asked)
        THEN /\ Replays(asked, None, 1) /\ Posts(ports[port].mate, moved)
             /\ handlers' = handlers \cup
                  {[id |-> nextTask, receiver |-> peers[port], moved |-> moved]}
             /\ UNCHANGED <<peers, queues, foreign, boxOf, boxes, waiting, windowPosts>>
        ELSE Diverges(asked) /\ UNCHANGED <<platform, recorder, replayer>>
PostToWindowAgain ==
  /\ PageReplays(<<"window", 0, <<>>>>) /\ Posts(Window, <<>>) /\ Replays(<<>>, None, 0)
  /\ windowPosts' = windowPosts + 1
  /\ UNCHANGED <<recorder, handlers, boxOf, boxes, waiting>>

(* What arrived in an inbox is handed to the page, at the port the post    *)
(* was made to; the ports it brought are followed.                         *)
Follows(table, m) ==
  [p \in DOMAIN table |->
    IF p \in ToSet(m.ports)
    THEN LET old == table[m.moved[CHOOSE i \in DOMAIN m.ports : m.ports[i] = p]]
         IN IF old = NoBox THEN table[p] ELSE old
    ELSE table[p]]
release(p, box, arrived, taken) ==
  LET m == Head(arrived)
  IN /\ BeginsAgain(p.id, "message", <<p.receiver, m.n, m.ports>>, taken, 0)
     /\ peers' = Follow(peers, m) /\ boxOf' = Follows(boxOf, m)
     /\ boxes' = [boxes EXCEPT ![box] = Tail(arrived)]
     /\ ports' = [q \in DOMAIN ports |->
          IF q \in ToSet(m.ports) THEN [ports[q] EXCEPT !.has = TRUE] ELSE ports[q]]
     /\ waiting' = NoPost
InboxOf(receiver) == IF boxOf[receiver] = NoBox THEN receiver ELSE boxOf[receiver]

(* A released post waits for its delivery. *)
releaseOrWait(p) ==
  LET box == InboxOf(p.receiver)
  IN IF boxes[box] # <<>> THEN release(p, box, boxes[box], 1)
     ELSE /\ waiting' = p /\ at' = at + 1
          /\ boxOf' = [boxOf EXCEPT ![p.receiver] = box]
          /\ UNCHANGED <<phase, log, nextTask, script, turn, turnNo, opNo, verdict,
                         ports, peers, boxes>>

(* Mutated: an inbox holds one delivery.                                   *)
holdOne(receiver, m) == [boxes EXCEPT ![InboxOf(receiver)] = <<m>>]
hold(receiver, m) == [boxes EXCEPT ![InboxOf(receiver)] = Append(@, m)]

(* Mutated: whatever arrives is taken for a post to the window.            *)
stillPostedAny(r) == windowPosts - 1
stillPosted(r) == IF r = Window THEN windowPosts - 1 ELSE windowPosts

(* The platform delivers: stopped, and held for its task, which may wait.  *)
(* The ports a message carries are the page's only when it is handed on.   *)
Arrive ==
  /\ Replaying /\ ~turn
  /\ \E r \in Receivers :
       /\ Deliverable(r)
       /\ LET m == Head(ports[r].inbox)
              box == InboxOf(r)
              arrived == hold(r, m)[box]
              carried == [p \in DOMAIN ports |->
                IF p \in ToSet(m.ports) THEN [Taken(r)[p] EXCEPT !.has = FALSE] ELSE Taken(r)[p]]
          IN /\ windowPosts' = stillPosted(r)
             /\ IF waiting # NoPost /\ InboxOf(waiting.receiver) = box
                THEN /\ BeginsAgain(waiting.id, "message",
                                    <<waiting.receiver, m.n, m.ports>>, 0, 0)
                     /\ peers' = Follow(peers, m) /\ ports' = Taken(r)
                     /\ boxOf' = Follows([boxOf EXCEPT ![r] = box], m)
                     /\ boxes' = [boxes EXCEPT ![box] = Tail(arrived)]
                     /\ waiting' = NoPost
                ELSE /\ ports' = carried /\ boxes' = [boxes EXCEPT ![box] = arrived]
                     /\ boxOf' = [boxOf EXCEPT ![r] = box]
                     /\ UNCHANGED <<session, peers, waiting>>
  /\ UNCHANGED <<made, sent, queues, foreign, handlers>>

Scheduling == PageIdle /\ waiting = NoPost
AtEnd ==
  /\ Scheduling /\ Terminated /\ Ends(Terminal)
  /\ UNCHANGED <<platform, recorder, replayer>>
RunPost ==
  /\ Scheduling /\ Cursor.rec = "Task"
  /\ \E p \in handlers :
       p.id = Cursor.id /\ handlers' = handlers \ {p} /\ releaseOrWait(p)
  /\ UNCHANGED <<made, sent, queues, foreign, windowPosts>>

(* A task the browser dispatched, whose id was minted there: claimTaskId.  *)
Unregistered == Cursor.rec = "Task" /\ \A p \in handlers : p.id # Cursor.id
claimTaskId == Cursor.id = nextTask
RunWindowPost ==
  /\ Scheduling /\ Unregistered /\ Cursor.query = "message"
  /\ LET arrived == boxes[Window]
     IN IF ~claimTaskId \/ (arrived = <<>> /\ windowPosts = 0)
        THEN Ends("diverged") /\ UNCHANGED <<boxes, waiting>>
        ELSE IF arrived = <<>>
        THEN /\ waiting' = [NoPost EXCEPT !.id = Cursor.id] /\ at' = at + 1
             /\ nextTask' = nextTask + 1
             /\ UNCHANGED <<phase, log, script, turn, turnNo, opNo, verdict, boxes>>
        ELSE /\ boxes' = [boxes EXCEPT ![Window] = Tail(arrived)]
             /\ BeginsAgain(Cursor.id, "message", <<Window, Head(arrived).n, <<>>>>, 1, 1)
             /\ UNCHANGED waiting
  /\ UNCHANGED <<platform, recorder, handlers, boxOf, windowPosts>>
RunStorageEvent ==
  /\ Scheduling /\ Unregistered /\ Cursor.query = "storage"
  /\ IF claimTaskId
     THEN BeginsAgain(Cursor.id, "storage", <<Window, log[at + 1].value, <<>>>>, 2, 1)
     ELSE Ends("diverged")
  /\ UNCHANGED <<platform, recorder, replayer>>
MissingRead ==
  /\ Scheduling /\ ~Terminated /\ Cursor.rec # "Task" /\ Ends("diverged")
  /\ UNCHANGED <<platform, recorder, replayer>>
EndTurnAgain == TurnOverAgain /\ UNCHANGED <<platform, recorder, replayer>>

-----------------------------------------------------------------------------
SeamInit ==
  /\ ports = Start /\ made = 0 /\ sent = 0 /\ foreign = 0
  /\ peers = [p \in Ports |-> 0] /\ queues = [p \in Ports |-> <<>>]
  /\ handlers = {} /\ waiting = NoPost /\ windowPosts = 0
  /\ boxOf = [r \in Receivers |-> NoBox] /\ boxes = [r \in Receivers |-> <<>>]
Init == SessionInit /\ SeamInit

Record ==
  \/ Channel \/ Post \/ PostToWindow \/ Deliver \/ DeliverAtWindow \/ DeliverForeign
  \/ StorageEvent \/ EndTurn \/ StopRecording
Replay ==
  \/ ChannelAgain \/ PostAgain \/ PostToWindowAgain \/ EndTurnAgain \/ AtEnd
  \/ RunPost \/ RunWindowPost \/ RunStorageEvent \/ Arrive \/ MissingRead
Finished == Over /\ UNCHANGED vars
Next == Record \/ Replay \/ Finished
Spec == Init /\ [][Next]_vars
=============================================================================
