------------------------------ MODULE SendQueue ------------------------------
(***************************************************************************)
(* What the sender's buffer of UDT promises (the comments of                 *)
(* udt/src/buffer.h): messages are a queue of packets, read in order the     *)
(* first time, read again by their place, and forgotten from the front.      *)
(***************************************************************************)
EXTENDS Naturals, Sequences

VARIABLES queue,  \* packets, each with its message number and its place in the message
          sent,   \* how many of them have been read
          ret     \* what the last read returned

\* The place behind the message that holds place i.
Behind(i) == CHOOSE j \in i..Len(queue) : /\ \A k \in i..j : queue[k].no = queue[i].no
                                          /\ j = Len(queue) \/ queue[j + 1].no # queue[i].no

\* "Insert a user buffer into the sending list."
Add(m) == queue' = queue \o m /\ UNCHANGED <<sent, ret>>

\* "Find data position to pack a DATA packet from the furthest reading point."
ReadNew == /\ sent < Len(queue)
           /\ ret' = queue[sent + 1] /\ sent' = sent + 1
           /\ UNCHANGED queue

\* "Find data position to pack a DATA packet for a retransmission."
ReadAgain(i) == ret' = queue[i] /\ UNCHANGED <<queue, sent>>

\* The same for a message whose time is over: none of it is read from now on.
Expire(i) == LET j == Behind(i) IN
             /\ sent' = IF sent < j THEN j ELSE sent
             /\ ret' = [no |-> queue[i].no, dropped |-> j - i + 1]
             /\ UNCHANGED queue

\* "Update the ACK point and may release/unmap/return the user data."
Forget(n) == /\ queue' = SubSeq(queue, n + 1, Len(queue)) /\ sent' = sent - n
             /\ UNCHANGED ret
=============================================================================
