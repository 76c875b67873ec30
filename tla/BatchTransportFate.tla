-------------------------- MODULE BatchTransportFate --------------------------
(***************************************************************************)
(* BatchTransport implements RecordFate: the fate of a record is read off  *)
(* the place the transport keeps it in.                                    *)
(***************************************************************************)
EXTENDS BatchTransport

FateOf(n) ==
  CASE n > written - 2 -> "unwritten"
    [] n <= written - 2 /\ ShippedBy(n) # {} -> "sent"
    [] n <= written - 2 /\ ShippedBy(n) = {} /\ ReportedBy(n) # {} -> "reported"
    [] OTHER -> CASE t.state = "off" -> "forgotten"
                  [] t.state # "off" /\ DropHeld(n) # {} -> "dropped"
                  [] OTHER -> "held"

Fate == INSTANCE RecordFate WITH fate <- [n \in 1..MaxSeq |-> FateOf(n)],
                                 on <- t.state # "off"

(* Every record has the life RecordFate promises it, under retries, refusals, *)
(* eviction, leaving the page and turning off.                                *)
KeepsFates == Fate!Spec
===============================================================================
