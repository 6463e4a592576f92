------------------------------ MODULE LossSet ------------------------------
(***************************************************************************)
(* What the two loss lists of UDT promise (the comments of udt/src/list.h):  *)
(* each is a set of sequence numbers inside one window, and says of every    *)
(* change what it did.                                                      *)
(***************************************************************************)
EXTENDS UDTSeqNo

VARIABLES lost,  \* the numbers in the list
          ret    \* what the last call returned

Earliest(S) == CHOOSE s \in S : \A t \in S : SeqOff(s, t) >= 0
Boolean(p) == IF p THEN 1 ELSE 0

\* "number of packets that are not in the list previously"
Insert(R) == lost' = lost \cup R /\ ret' = Cardinality(R \ lost)

\* "Remove ALL the seq. no. that are not greater than the parameter"
RemoveUpTo(s) == /\ lost' = {t \in lost : SeqOff(s, t) > 0}
                 /\ UNCHANGED ret

\* "Remove a loss seq. no."; "if the packet is removed"
RemoveOne(s) == lost' = lost \ {s} /\ ret' = Boolean(s \in lost)

\* "Remove all packets between seqno1 and seqno2"
RemoveRange(R) == lost' = lost \ R /\ ret' = 1

\* "Read the first (smallest) loss seq. no. in the list and remove it"
TakeFirst == IF lost = {} THEN ret' = None /\ UNCHANGED lost
             ELSE ret' = Earliest(lost) /\ lost' = lost \ {Earliest(lost)}

\* "Read the first (smallest) seq. no."
First == ret' = (IF lost = {} THEN None ELSE Earliest(lost)) /\ UNCHANGED lost

\* "any lost packets whose sequence number falling seqno1 and seqno2"
Find(R) == ret' = Boolean(lost \cap R # {}) /\ UNCHANGED lost
=============================================================================
