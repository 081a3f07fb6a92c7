-------------------------------- MODULE Fifo --------------------------------
(***************************************************************************)
(* What a serial buffer promises: a bounded queue.  Bytes leave it in the  *)
(* order in which they entered, none twice; a byte that finds no room does *)
(* not enter.  The receive buffer can also be emptied (serial.c).          *)
(***************************************************************************)
EXTENDS Naturals, Sequences

CONSTANTS Byte,      \* what the queue holds
          Capacity   \* how many of them

VARIABLE q

Init  == q = <<>>
Put   == Len(q) < Capacity /\ \E b \in Byte : q' = Append(q, b)
Get   == q # <<>> /\ q' = Tail(q)
Flush == q' = <<>>

Spec        == Init /\ [][Put \/ Get]_q
FlushedSpec == Init /\ [][Put \/ Get \/ Flush]_q
=============================================================================
