------------------------------ MODULE BoundaryLog ------------------------------
(***************************************************************************)
(* What a boundary log promises whoever replays it, whatever stops the     *)
(* session and whatever the callbacks of its recorder do: Header, then     *)
(* Env, then records numbered from one without a hole, the checkpoints     *)
(* among them numbered from zero; then at most one record that says why    *)
(* the log stops, End with the last number used or the recorder's own      *)
(* refusal with the next one, and nothing after it.                        *)
(***************************************************************************)
EXTENDS Integers, Sequences, FiniteSets

VARIABLES log, phase

Numbered(l) == {i \in DOMAIN l : l[i].kind \notin {"Header", "Env", "End"}}
Checkpoints(l) == {i \in DOMAIN l : l[i].kind = "Checkpoint"}
LastSeq(l) == Cardinality(Numbered(l))

(* A record that continues the log l. *)
Continues(l, r) ==
  CASE Len(l) = 0 -> r.kind = "Header"
    [] Len(l) = 1 -> r.kind = "Env"
    [] OTHER -> /\ r.kind \notin {"Header", "Env", "End", "Fault"}
                /\ r.seq = LastSeq(l) + 1
                /\ r.kind = "Checkpoint" => r.n = Cardinality(Checkpoints(l))

(* A record that says why l stops. *)
Stops(l, r) == \/ r.kind = "Fault" /\ r.seq = LastSeq(l) + 1
               \/ r.kind = "End" /\ r.n = LastSeq(l)

Added == log'[Len(log')]
OneMore == Len(log') = Len(log) + 1 /\ SubSeq(log', 1, Len(log)) = log

Init == log = <<>> /\ phase = "open"

Write == phase = "open" /\ phase' = "open" /\ OneMore /\ Continues(log, Added)
Close == phase = "open" /\ phase' = "closing" /\ log' = log
Stop == /\ phase \in {"open", "closing"} /\ phase' = "closed"
        /\ log' = log \/ (OneMore /\ Stops(log, Added))

Next == Write \/ Close \/ Stop
Spec == Init /\ [][Next]_<<log, phase>>
===============================================================================
