------------------------------ MODULE RecordFate ------------------------------
(***************************************************************************)
(* What a session's upload promises about each record, whatever the        *)
(* network, the ingest and the page do: a record is taken once; it waits,  *)
(* until it is sent or dropped; a dropped record is reported and never     *)
(* sent; a sent record is never taken back, only given up for dropped; and *)
(* records are sent in the order they were taken.  A transport that turns  *)
(* off forgets what it held, for good, and sends nothing more.             *)
(***************************************************************************)
EXTENDS Integers

CONSTANT MaxSeq
VARIABLES fate, on

Fates == {"unwritten", "held", "sent", "dropped", "reported", "forgotten"}

(* Where a record may go in one step of a transport that is on: one step   *)
(* may be several moves, since a handler may drop, send and report.        *)
Moves ==
  [unwritten |-> Fates \ {"forgotten"},
   held      |-> {"held", "sent", "dropped", "reported"},
   sent      |-> {"sent", "dropped", "reported"},
   dropped   |-> {"dropped", "reported"},
   reported  |-> {"reported", "dropped"},
   forgotten |-> {"forgotten"}]

Init == /\ fate = [n \in 1..MaxSeq |-> "unwritten"]
        /\ on \in BOOLEAN

(* Records are taken and sent in order. *)
Ordered(f) ==
  \A m, n \in 1..MaxSeq : m < n =>
    /\ f[m] = "unwritten" => f[n] = "unwritten"
    /\ f[m] = "held" => f[n] # "sent"

Progress ==
  /\ on /\ on' = on
  /\ fate' \in [1..MaxSeq -> Fates]
  /\ \A n \in 1..MaxSeq : fate'[n] \in Moves[fate[n]]
  /\ Ordered(fate')

(* Turning off, and off: records are only forgotten, for good. *)
Forget ==
  /\ ~on'
  /\ fate' \in [1..MaxSeq -> Fates]
  /\ \A n \in 1..MaxSeq :
       fate'[n] = fate[n] \/ (fate[n] # "unwritten" /\ fate'[n] = "forgotten")

Next == Progress \/ Forget
Spec == Init /\ [][Next]_<<fate, on>>
===============================================================================
