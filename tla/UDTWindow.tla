------------------------------ MODULE UDTWindow ------------------------------
(***************************************************************************)
(* udt/src/window.cpp: the circular array of acknowledgements that wait for  *)
(* their answer (CACKWindow), and the windows of arrival intervals from      *)
(* which the receiver estimates its speed and the bandwidth                  *)
(* (CPktTimeWindow).                                                        *)
(***************************************************************************)
EXTENDS Integers, Sequences, FiniteSets

CONSTANTS Size,      \* m_iSize
          MaxSeq,    \* acknowledgement numbers, counted round
          Payload,   \* what an acknowledgement carries
          AWSize,    \* m_iAWSize, and m_iPWSize of the probes
          Intervals, \* the intervals between two packets, in microseconds
          Second     \* 1000000, smaller in a small instance

\* As nth_element needs of the window of arrivals.
Sizes == /\ {Size, MaxSeq, Second} \subseteq Nat \ {0} /\ Intervals \subseteq Nat
         /\ AWSize \in Nat /\ AWSize > 2

VARIABLES seqNo, ack,   \* m_piACKSeqNo, m_piACK
          head, tail,
          last,         \* the last number given to an acknowledgement
          ret,          \* what the last acknowledge found
          arrivals, ptr \* m_piPktWindow, m_iPktWindowPtr

ackVars == <<seqNo, ack, head, tail, last, ret>>
vars == <<ackVars, arrivals, ptr>>

Init == /\ seqNo = [i \in 0..(Size - 1) |-> -1] /\ ack = [i \in 0..(Size - 1) |-> -1]
        /\ head = 0 /\ tail = 0 /\ last = 0 /\ ret = -1
        /\ arrivals = [i \in 0..(AWSize - 1) |-> Second] /\ ptr = 0
-----------------------------------------------------------------------------
(* CACKWindow *)

\* Mutant: the oldest entry is not given up when the array is full.
store_Full(seq, a) == /\ seqNo' = [seqNo EXCEPT ![head] = seq] /\ ack' = [ack EXCEPT ![head] = a]
                      /\ head' = (head + 1) % Size
                      /\ UNCHANGED <<tail, ret>>

store(seq, a) == /\ seqNo' = [seqNo EXCEPT ![head] = seq] /\ ack' = [ack EXCEPT ![head] = a]
                 /\ head' = (head + 1) % Size
                 /\ tail' = IF head' = tail THEN (tail + 1) % Size ELSE tail
                 /\ UNCHANGED ret

\* The entries from the tail to the head, round the end of the array if it must be.
Length == (head - tail + Size) % Size
Place(i) == (tail + i) % Size

\* An answer to the last entry of an array that has not come round resets it.
acknowledge(seq) ==
    LET hits == {i \in 0..(Length - 1) : seqNo[Place(i)] = seq} IN
    IF hits = {} THEN ret' = -1 /\ UNCHANGED <<seqNo, ack, head, tail>>
    ELSE LET i == CHOOSE i \in hits : \A j \in hits : i <= j IN
         /\ ret' = ack[Place(i)] /\ UNCHANGED ack
         /\ IF head >= tail /\ Place(i) + 1 = head
            THEN tail' = 0 /\ head' = 0 /\ seqNo' = [seqNo EXCEPT ![0] = -1]
            ELSE tail' = (Place(i) + 1) % Size /\ UNCHANGED <<head, seqNo>>

\* sendCtrl numbers the acknowledgements; answers come late, twice or not at all.
AckStep == /\ \/ \E seq \in 0..(MaxSeq - 1) : acknowledge(seq) /\ UNCHANGED last
              \/ /\ last' = (last + 1) % MaxSeq
                 /\ \E a \in Payload : store(last', a)
           /\ UNCHANGED <<arrivals, ptr>>
-----------------------------------------------------------------------------
(* CPktTimeWindow *)

onPktArrival(t) == /\ arrivals' = [arrivals EXCEPT ![ptr] = t] /\ ptr' = (ptr + 1) % AWSize

\* The middle of all but the last interval of the array.
Median == LET places == 0..(AWSize - 2)
              Below(i) == {j \in places : \/ arrivals[j] < arrivals[i]
                                          \/ arrivals[j] = arrivals[i] /\ j < i}
          IN arrivals[CHOOSE i \in places : Cardinality(Below(i)) = AWSize \div 2]

Regular == {i \in 0..(AWSize - 1) : arrivals[i] < Median * 8 /\ arrivals[i] > Median \div 8}

\* The sum of them, place by place.
Total == LET sum[n \in 0..AWSize] ==
               IF n = 0 THEN 0 ELSE sum[n - 1] + (IF n - 1 \in Regular THEN arrivals[n - 1] ELSE 0)
         IN sum[AWSize]

Enough == Cardinality(Regular) > AWSize \div 2
Mean == Total \div Cardinality(Regular)

\* The packets of a second, rounded up, or 0 if there is no regular interval.
getPktRcvSpeed == IF ~Enough THEN 0
                  ELSE Second \div Mean + (IF Second % Mean = 0 THEN 0 ELSE 1)

ArrivalStep == (\E t \in Intervals : onPktArrival(t)) /\ UNCHANGED ackVars

Next == AckStep \/ ArrivalStep
Spec == Init /\ [][Next]_vars
-----------------------------------------------------------------------------
(* What CACKWindow promises (the comments of udt/src/window.h): it remembers *)
(* the last acknowledgements sent, one less than the array has entries, and an *)
(* answer to one of them is the last word on the older ones.                *)

\* <<number, data>> of the acknowledgements remembered, oldest first.
Pending == [i \in 1..Length |-> <<seqNo[Place(i - 1)], ack[Place(i - 1)]>>]

Remember(seq, a) == LET all == Append(Pending, <<seq, a>>) IN
                    /\ Pending' = IF Len(all) < Size THEN all ELSE Tail(all)
                    /\ UNCHANGED ret

Answer(seq) == LET at == {i \in DOMAIN Pending : Pending[i][1] = seq} IN
               IF at = {} THEN ret' = -1 /\ UNCHANGED Pending
               ELSE LET i == CHOOSE i \in at : \A j \in at : i <= j
                    IN /\ ret' = Pending[i][2]
                       /\ Pending' = SubSeq(Pending, i + 1, Len(Pending))

\* The array with its head and tail, which come round, are reset, and give up entries,
\* remembers exactly the last acknowledgements in order.
KeepsLog == \A seq \in 0..(MaxSeq - 1) :
              /\ acknowledge(seq) => Answer(seq)
              /\ seq = last' => \A a \in Payload : store(seq, a) => Remember(seq, a)

\* The receiver's speed is estimated without a division by zero, from packets that arrive
\* within a microsecond or after a long pause, and lies between those of the regular
\* intervals.
SpeedIsSound == Enough => /\ Mean > 0
                          /\ \E i \in Regular : arrivals[i] <= Mean
                          /\ \E i \in Regular : arrivals[i] >= Mean
=============================================================================
