---------------------------- MODULE UDTSndBuffer ----------------------------
(***************************************************************************)
(* CSndBuffer (udt/src/buffer.cpp): a ring of blocks that grows, between     *)
(* three marks, and a count of its own.  The caller of send adds messages    *)
(* while the worker that packs packets reads and the worker that receives    *)
(* acknowledges; only the count is changed under the lock.                   *)
(***************************************************************************)
EXTENDS Integers, Sequences, FiniteSets

CONSTANTS UnitSize,   \* m_iSize of a new buffer, and by how much it grows
          MaxSize,    \* bound: blocks the ring may have
          MaxLen,     \* bound: packets of a message
          MaxMsgNo    \* CMsgNo::m_iMaxMsgNo: more than MaxSize + 1, so that a number comes
                      \* round only when no block holds it any more

VARIABLES block,   \* the blocks, in the order they were made: content and m_pNext
          first,   \* m_pFirstBlock
          curr,    \* m_pCurrBlock
          last,    \* m_pLastBlock
          count,   \* m_iCount
          adding,  \* packets the caller has put in and not counted yet
          msgNo,   \* m_iNextMsgNo
          ret

vars == <<block, first, curr, last, count, adding, msgNo, ret>>

\* What the bounds must be to each other.
Bounds == /\ {UnitSize, MaxSize, MaxLen, MaxMsgNo} \subseteq Nat \ {0}
          /\ UnitSize <= MaxSize /\ MaxLen <= 2 * UnitSize /\ MaxSize + 1 < MaxMsgNo

\* Bound to no message: a block never used.  (Most of these numbers are never
\* initialized; they are taken for numbers no message has.)
Unused == [no |-> 0, part |-> 0, last |-> FALSE]

NewBlock(next) == [data |-> Unused, next |-> next]

Init == /\ block = [b \in 1..UnitSize |-> NewBlock((b % UnitSize) + 1)]
        /\ first = 1 /\ curr = 1 /\ last = 1
        /\ count = 0 /\ adding = 0 /\ msgNo = 1 /\ ret = <<>>

NextOf(b) == block[b].next

\* The block n places behind b, by the links of blk.
AheadIn(blk, b, n) == LET f[i \in 0..n] == IF i = 0 THEN b ELSE blk[f[i - 1]].next IN f[n]

Ahead(b, n) == AheadIn(block, b, n)

\* How far c is ahead of b.
Distance(b, c) == CHOOSE n \in 0..Len(block) : /\ Ahead(b, n) = c
                                               /\ \A k \in 0..(n - 1) : Ahead(b, k) # c
-----------------------------------------------------------------------------

\* New blocks between the last one and the one behind it.
Increased(blk) ==
    LET n == Len(blk)
        new == [i \in 1..UnitSize |->
                  NewBlock(IF i = UnitSize THEN blk[last].next ELSE n + i + 1)]
    IN [blk EXCEPT ![last].next = n + 1] \o new

\* Room for n packets, so that one block stays free.
Grown(n) == IF n + count >= Len(block)
            THEN LET once == Increased(block)
                 IN IF n + count >= Len(once) THEN Increased(once) ELSE once
            ELSE block

Message(n) == [i \in 1..n |-> [no |-> msgNo, part |-> i, last |-> i = n]]

\* addBuffer before it counts: the message, and the mark behind it.
addBuffer(n) ==
    LET grown == Grown(n)
        at(i) == AheadIn(grown, last, i - 1)
    IN /\ adding = 0 /\ Len(grown) <= MaxSize
       /\ block' = [b \in DOMAIN grown |->
                      IF \E i \in 1..n : at(i) = b
                      THEN [grown[b] EXCEPT !.data = Message(n)[CHOOSE i \in 1..n : at(i) = b]]
                      ELSE grown[b]]
       /\ last' = at(n + 1)
       /\ adding' = n
       /\ UNCHANGED <<first, curr, count, msgNo, ret>>

addBufferCounts == /\ adding > 0
                   /\ count' = count + adding /\ adding' = 0
                   /\ msgNo' = IF msgNo + 1 = MaxMsgNo THEN 1 ELSE msgNo + 1
                   /\ UNCHANGED <<block, first, curr, last, ret>>

\* readData of the next packet never sent.
readNew == /\ curr # last
           /\ ret' = block[curr].data /\ curr' = NextOf(curr)
           /\ UNCHANGED <<block, first, last, count, adding, msgNo>>

\* Blocks on from b that hold the same message.
SameMsg(b) == CHOOSE n \in 1..Len(block) :
                 /\ \A k \in 0..(n - 1) : block[Ahead(b, k)].data.no = block[b].data.no
                 /\ block[Ahead(b, n)].data.no # block[b].data.no

\* Mutant: the mark moves to the end of the message even when it was behind it.
Reached_Always(b) == Ahead(b, SameMsg(b))

\* The next packet to send, once the message at b is over.
Reached(b) == IF \E k \in 1..(SameMsg(b) - 1) : Ahead(b, k) = curr
              THEN Ahead(b, SameMsg(b)) ELSE curr

\* readData of a packet sent before, or of a message that is too old.
readAgain(offset) == /\ offset < Distance(first, curr)
                     /\ ret' = block[Ahead(first, offset)].data
                     /\ UNCHANGED <<block, first, curr, last, count, adding, msgNo>>

readExpired(offset) == LET b == Ahead(first, offset) IN
                       /\ offset < Distance(first, curr)
                       /\ ret' = [no |-> block[b].data.no, dropped |-> SameMsg(b)]
                       /\ curr' = Reached(b)
                       /\ UNCHANGED <<block, first, last, count, adding, msgNo>>

ackData(n) == /\ n <= Distance(first, curr)
              /\ first' = Ahead(first, n)
              /\ count' = count - n
              /\ UNCHANGED <<block, curr, last, adding, msgNo, ret>>

Next == \/ \E n \in 1..MaxLen : addBuffer(n)
        \/ addBufferCounts \/ readNew
        \/ \E i \in 0..(MaxSize - 1) : readAgain(i) \/ readExpired(i) \/ ackData(i + 1)

Spec == Init /\ [][Next]_vars
-----------------------------------------------------------------------------
Sent == Distance(first, curr)

Held == [i \in 1..Distance(first, last) |-> block[Ahead(first, i - 1)].data]

\* What send waits for is the number of packets in the buffer, however its parts
\* interleave with acknowledgements; it is short only of what is being added.
CountsPackets == count + adding = Len(Held)

\* The ring is one ring, and a block of it stays free to tell full from empty.
RingIsWhole == /\ {Ahead(1, n) : n \in 0..(Len(block) - 1)} = 1..Len(block)
               /\ Len(Held) < Len(block)

\* What the marks enclose is a queue to every call, through growing, through going
\* round, and when a message expires while it is half sent.
Q == INSTANCE SendQueue WITH queue <- Held, sent <- Sent

KeepsQueue ==
    /\ \A n \in 1..MaxLen : addBuffer(n) => Q!Add(Message(n))
    /\ addBufferCounts => UNCHANGED <<Held, Sent>>
    /\ readNew => Q!ReadNew
    /\ \A i \in 0..(MaxSize - 1) : /\ readAgain(i) => Q!ReadAgain(i + 1)
                                   /\ readExpired(i) => Q!Expire(i + 1)
                                   /\ ackData(i + 1) => Q!Forget(i + 1)
=============================================================================
