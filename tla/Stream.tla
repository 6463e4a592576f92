------------------------------- MODULE Stream -------------------------------
(***************************************************************************)
(* What a stream socket promises: the reader gets what was written, once and *)
(* in order.                                                                *)
(***************************************************************************)
EXTENDS Naturals, Sequences

VARIABLES sent,  \* how many packets were written
          read   \* the packets read

Init == sent = 0 /\ read = <<>>

Write == sent' = sent + 1 /\ UNCHANGED read

Read == \E n \in 1..(sent - Len(read)) :
            read' = read \o [i \in 1..n |-> Len(read) + i] /\ UNCHANGED sent

Next == Write \/ Read

Spec == Init /\ [][Next]_<<sent, read>>
=============================================================================
