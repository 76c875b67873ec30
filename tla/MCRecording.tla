----------------------------- MODULE MCRecording -----------------------------
(***************************************************************************)
(* The recorder, and the network that is recorded through it, in one run:  *)
(* a session is of calls to the recorder that throw or are called back, or *)
(* of a page that uses fetch, XMLHttpRequest, or connections and beacons.  *)
(* Each part has its bounds; all but one stay as they begin.               *)
(***************************************************************************)
EXTENDS Recorder

CONSTANT Edges  \* the cases outside what is replayed that may happen all the same

VARIABLES part,
  phase, records, nextTask, script, turn, at, turnNo, opNo, verdict,  \* SeamSession
  page, requests, owed, held, went, x, s, more, doing, nextReq, conns, closing  \* of the modules of the network

Fetch == INSTANCE FetchSeams WITH log <- records,
  Pages <- {<<"signal">>, <<"timeout">>, <<"unreadable">>},
  MaxPieces <- 2, MaxTurns <- 4, MaxOps <- 6
TwoFetches == INSTANCE FetchSeams WITH log <- records,
  Pages <- {<<"timeout", "plain">>}, MaxPieces <- 1, MaxTurns <- 3, MaxOps <- 4
Xhr == INSTANCE XhrSeams WITH log <- records,
  Pages <- {{"async"}, {"async", "upload"}, {"sync"}},
  MaxPieces <- 2, MaxProgress <- 1, MaxTurns <- 6, MaxOps <- 3
Sockets == INSTANCE SocketSeams WITH log <- records,
  Apis <- {"webSocket", "eventSource"}, MaxConns <- 2, MaxEvents <- 3, MaxBeacons <- 1,
  MaxTurns <- 4, MaxOps <- 3
fetching == <<requests, owed, held, went>>
requesting == <<x, s, more, doing>>
connected == <<nextReq, conns, closing>>
session == <<phase, records, nextTask, script, turn, at, turnNo, opNo, verdict>>
network == <<session, page, fetching, requesting, connected>>

MCInit ==
  /\ Init /\ Fetch!SessionInit /\ Fetch!Idle /\ Sockets!SeamInit
  /\ x = Xhr!Unsent /\ s = Xhr!newState /\ more = <<>> /\ doing = <<>>
  /\ \/ part = "fetch" /\ Fetch!SeamInit
     \/ part = "two fetches" /\ TwoFetches!SeamInit
     \/ part = "xhr" /\ Xhr!SeamInit
     \/ part \in {"recorder", "sockets"} /\ page = <<>>

OnRecorder == part = "recorder" /\ Next /\ UNCHANGED <<part, network>>
(* A session of the recorder may end; nothing else in this run just stops. *)
Rests == part = "recorder" /\ state # "recording" /\ UNCHANGED <<vars, part, network>>
OnFetch ==
  /\ \/ part = "fetch" /\ Fetch!Next
     \/ part = "two fetches" /\ TwoFetches!Next
  /\ UNCHANGED <<vars, part, requesting, connected>>
OnXhr == part = "xhr" /\ Xhr!Next /\ UNCHANGED <<vars, part, fetching, connected>>
OnSockets ==
  /\ part = "sockets" /\ Sockets!Next
  /\ UNCHANGED <<vars, part, page, fetching, requesting>>

MCNext == OnRecorder \/ Rests \/ OnFetch \/ OnXhr \/ OnSockets
MCSpec == MCInit /\ [][MCNext]_<<vars, part, network>>

OfFetch == part \in {"fetch", "two fetches"}
-----------------------------------------------------------------------------
(* Every part keeps its types.                                             *)
NetTypeOK ==
  /\ part = "fetch" => Fetch!TypeOK
  /\ part = "two fetches" => TwoFetches!TypeOK
  /\ part = "xhr" => Xhr!TypeOK
  /\ part = "sockets" => Sockets!TypeOK

(* The network is replayed to the page in the turns, and where in them, it *)
(* was given on record: the heads, pieces, ends and failures of fetches    *)
(* (stream-body.ts, fetch-cancellation.ts, replay/net.ts), every event of  *)
(* an XMLHttpRequest with the state, status and text the page could read   *)
(* then (seams-net.ts, replay/xhr.ts), and what connections tell, in the   *)
(* state they were in (listenStream, replayWebSocket).  Every part keeps   *)
(* its types.                                                              *)
NetReplayed ==
  /\ NetTypeOK
  /\ OfFetch => Fetch!FetchReplayed
  /\ part = "xhr" => Xhr!XhrReplayed
  /\ part = "sockets" => Sockets!SocketsReplayed

(* A replay that ends with the log ran all the page did with the network.  *)
NetFollowed ==
  /\ OfFetch => Fetch!FetchFollowed
  /\ part = "xhr" => Xhr!XhrFollowed
  /\ part = "sockets" => Sockets!SocketsFollowed

(* Whatever raced, a response ends once in the log: no piece of a body     *)
(* after its end, no second end, nothing of a socket after its close.      *)
ResponsesEndOnce ==
  /\ part = "fetch" => Fetch!BodiesEndOnce
  /\ part = "two fetches" => TwoFetches!BodiesEndOnce
  /\ part = "xhr" => Xhr!XhrEndsOnce
  /\ part = "sockets" => Sockets!ClosedOnce
=============================================================================
