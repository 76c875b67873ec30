------------------------------ MODULE MCSeams ------------------------------
(***************************************************************************)
(* The two families of seams, checked in one run: a session is of a page   *)
(* that uses the one or the other.  The properties of PlatformSeams that   *)
(* are about the session they share hold of both: of the messages they say *)
(* that each the page posted to itself reaches it on replay in the turn,   *)
(* at the port and with the ports it did on record (replay/message.ts).    *)
(***************************************************************************)
EXTENDS PlatformSeams, TLC

CONSTANTS MaxChannels, MaxForeign, MovesBusy

VARIABLES part, ports, made, sent, peers, queues, foreign, posts, boxOf, boxes,
          waiting, windowPosts

Messages == INSTANCE MessageSeams WITH handlers <- posts

messages == <<ports, made, sent, peers, queues, foreign, posts, boxOf, boxes,
              waiting, windowPosts>>

MCInit ==
  /\ SessionInit /\ SeamInit /\ Messages!SeamInit
  /\ \/ part = "platform" /\ page \in Uses
     \/ part = "messages" /\ page = {}
OnPlatform == part = "platform" /\ Next /\ UNCHANGED <<part, messages>>
OnMessages == part = "messages" /\ Messages!Next /\ UNCHANGED <<part, recorder, replayer>>
MCNext == OnPlatform \/ OnMessages
MCSpec == MCInit /\ [][MCNext]_<<part, vars, messages>>

Alike == Permutations(Values)
=============================================================================
