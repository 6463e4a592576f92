----------------------------- MODULE UDTMessages -----------------------------
(***************************************************************************)
(* A datagram connection of UDT (core.cpp sendmsg, recvmsg): the data path of *)
(* UDTTransfer with messages of one or two packets, some of which have a time *)
(* to live.  A packet that is sent again after that time is not sent: the     *)
(* sender gives its message up and asks the receiver to do so.               *)
(***************************************************************************)
EXTENDS UDTTransfer

CONSTANTS MsgOf,      \* the message each packet belongs to
          Mortal,     \* the messages with a time to live
          Unordered   \* those that may be read out of order

\* Messages are numbered in the order in which they are sent; bound: two packets each.
ASSUME MessagesAssumption ==
    /\ MsgOf \in [1..Packets -> Nat]
    /\ \A c, d \in 1..Packets : c <= d => MsgOf[c] <= MsgOf[d]
    /\ \A d \in 1..(Packets - 2) : MsgOf[d] # MsgOf[d + 2]

VARIABLES dropped,    \* messages the sender has given up
          passed,     \* packets read out of order that are still in the buffer
          inbox       \* what recvmsg has returned

msgVars == <<dropped, passed, inbox>>

Message == {MsgOf[d] : d \in 1..Packets}

IsFirst(d) == d = 1 \/ MsgOf[d - 1] # MsgOf[d]
IsLast(d) == d = Packets \/ MsgOf[d + 1] # MsgOf[d]

\* The last packet of the message of d.
End(d) == IF IsLast(d) THEN d ELSE d + 1

MsgInit == Init /\ dropped = {} /\ passed = {} /\ inbox = <<>>
-----------------------------------------------------------------------------
(* The sender. *)

\* A message is added when the buffer has room for all of it.
sendmsg == /\ sndState = "connected" /\ ~sndBlocked /\ added < Packets
           /\ IF SndBufSize - CurrBufSize >= End(added + 1) - added
              THEN added' = End(added + 1) /\ listed' = TRUE /\ UNCHANGED sndBlocked
              ELSE sndBlocked' = TRUE /\ UNCHANGED <<added, listed>>
           /\ UNCHANGED <<first, next, sndWindow, sndState, peerHealth, receiver, net, msgVars>>

DropRequest(m, a, b) == [type |-> "drop", msg |-> m, from |-> a, to |-> b]

\* Where the request for packet d ends: one behind the message.
RangeEnd(d) == IncSeqBy(taken, End(d) - d + 1)

\* packData of a lost packet: it goes out again, or its message is too old.  The numbers
\* the sender counts by then run ahead of the packets, and the worker stops for now.
SendLostOrDrop ==
    LET d == first + LostOffset
        to == RangeEnd(d)
        request == DropRequest(MsgOf[d], taken, to)
    IN /\ taken # None /\ taken' = None
       /\ LostOffset >= 0 => d <= added   \* bound: see Filled
       /\ \/ /\ LostOffset < 0
             /\ UNCHANGED <<next, sndCurr, sndLoss, listed, net, dropped>>
          \/ /\ LostOffset >= 0 /\ MsgOf[d] \notin dropped
             /\ Put(Data(taken, d)) /\ Sent(Data(taken, d)) /\ listed' = TRUE
             /\ UNCHANGED <<next, sndCurr, sndLoss, dropped>>
          \/ /\ LostOffset >= 0 /\ MsgOf[d] \in Mortal
             /\ Put(request) /\ Sent(request)
             /\ sndLoss' = {s \in sndLoss : After(s, to)}
             /\ sndCurr' = IF After(IncSeq(to), sndCurr) THEN IncSeq(to) ELSE sndCurr
             /\ next' = IF d < next /\ next <= End(d) THEN End(d) + 1 ELSE next
             /\ dropped' = dropped \cup {MsgOf[d]}
             /\ UNCHANGED listed
       /\ UNCHANGED <<added, first, sndLastAck, sndDataAck, window, sndCaller, receiver,
                      passed, inbox>>

\* Bound: packets behind the last one added are not sent or acknowledged.  After a message
\* was given up the sender does so, from blocks that hold nothing.
Filled == first' <= added' + 1
-----------------------------------------------------------------------------
(* The receiver. *)

\* remove(seqno1, seqno2): where the numbers wrap, the greatest is left out.
Removed(a, b) == IF a <= b THEN a..b ELSE (a..(MaxSeqNo - 1)) \cup (0..b)

\* A drop request takes the numbers from its first to its last as if they had come.
\* (dropMsg finds no packet of a message this short, see UDTRcvBuffer.)
ProcessDrop(m, rest) ==
    /\ m.type = "drop" /\ rcvState = "connected" /\ net' = rest
    /\ rcvLoss' = rcvLoss \ Removed(m.from, m.to)
    /\ rcvCurr' = IF ~After(m.from, IncSeq(rcvCurr)) /\ After(m.to, rcvCurr) THEN m.to ELSE rcvCurr
    /\ UNCHANGED <<sender, held, start, rcvLastAck, rcvAckAck, rcvCaller, msgVars>>

\* The places of the buffer, counted from the front.
At(i) == IncSeqBy(start, i)
Packet(i) == (CHOOSE h \in held : h.seq = At(i)).data
Ready_Again(i) == \E h \in held : h.seq = At(i)

Ready(i) == At(i) \notin passed /\ \E h \in held : h.seq = At(i)
Place == 0..(RcvBufSize - 1)
InOrder == RcvDataSize

\* A message starts at place i of which nothing is missing up to the acknowledgement.
Good(i) == /\ Ready(i) /\ IsFirst(Packet(i))
           /\ \E e \in i..(InOrder - 1) : /\ \A k \in i..e : Ready(k)
                                          /\ IsLast(Packet(e)) \/ e = InOrder - 1

\* The front after the bad packets are thrown away.
Front == CHOOSE i \in 0..InOrder : /\ i = InOrder \/ Good(i)
                                   /\ \A k \in 0..(i - 1) : ~Good(k)

\* Packets that came beyond the acknowledgement, and whether there is one past the first.
Beyond == {h \in held : SeqOff(rcvLastAck, h.seq) > 0}
Nothing == InOrder = 0 /\ Beyond = {}

\* The places to look at: up to the last packet that came.
Seen == {i \in Place : i <= InOrder \/ \E h \in Beyond : SeqOff(start, h.seq) >= i}

\* The messages behind the front, from place p to q, that scanMsg would take: they are
\* there, and acknowledged unless they ask for no order.
Found == {pq \in (Seen \X Seen) :
            LET p == pq[1]
                q == pq[2]
            IN /\ ~Nothing /\ p <= q /\ \A k \in p..q : Ready(k)
               /\ IsFirst(Packet(p)) /\ IsLast(Packet(q)) /\ \A k \in (p + 1)..q : ~IsFirst(Packet(k))
               /\ q < InOrder \/ MsgOf[Packet(q)] \in Unordered
               /\ Front <= p}

\* The buffer begins at place i; what was read in front of it is forgotten.
Advance(i, ahead) == /\ start' = At(i)
                     /\ held' = {h \in held : SeqOff(At(i), h.seq) >= 0}
                     /\ passed' = {s \in passed \cup ahead : SeqOff(At(i), s) >= 0}

\* The first message found is read; it makes room if it was read in order.
Read(p, q) == /\ \A other \in Found : q <= other[2]
              /\ inbox' = Append(inbox, [i \in 1..(q - p + 1) |-> Packet(p + i - 1)])
              /\ IF q < InOrder THEN Advance(q + 1, {}) ELSE Advance(Front, {At(i) : i \in p..q})

\* recvmsg waits while there is no message.
recvmsg ==
    /\ rcvState = "connected" /\ ~rcvBlocked
    /\ \/ \E pq \in Found : Read(pq[1], pq[2]) /\ UNCHANGED rcvBlocked
       \/ Found = {} /\ Advance(Front, {}) /\ rcvBlocked' = TRUE /\ UNCHANGED inbox
    /\ UNCHANGED <<sender, rcvWindow, rcvState, rcvFailed, read, net, dropped>>
-----------------------------------------------------------------------------
MsgReceive(m, rest) ==
    \/ ProcessAck(m, rest) /\ Filled /\ UNCHANGED msgVars
    \/ ProcessNak(m, rest) /\ UNCHANGED msgVars
    \/ ProcessData(m, rest) /\ UNCHANGED msgVars
    \/ ProcessAckAck(m, rest) /\ UNCHANGED msgVars
    \/ ProcessDrop(m, rest)

MsgArrives(m) == MsgReceive(m, net \ {m})

Same(A) == A /\ UNCHANGED msgVars

MsgNext == \/ sendmsg \/ SendLostOrDrop \/ recvmsg
           \/ Same(TakeLost) \/ Same(SendNew) \/ Same(Expire) \/ Same(SendAck)
           \/ \E m \in net : Same(Lose(m)) \/ MsgArrives(m)
-----------------------------------------------------------------------------
ReadAt(m) == {i \in DOMAIN inbox : \E k \in DOMAIN inbox[i] : MsgOf[inbox[i][k]] = m}

\* Until a message is given up, a read returns one message, whole, and no message is read
\* twice; a message that asks for order is read after those before it.
MessagesAreWhole ==
    dropped = {} =>
    /\ \A i \in DOMAIN inbox : \E d \in 1..Packets :
          IsFirst(d) /\ inbox[i] = [k \in 1..(End(d) - d + 1) |-> d + k - 1]
    /\ \A m \in Message : Cardinality(ReadAt(m)) <= 1
    /\ \A m \in Message \ Unordered, i \in DOMAIN inbox :
          i \in ReadAt(m) => \A n \in Message : n < m => \E j \in ReadAt(n) : j < i

\* The sender forgets a message without time to live only when the receiver has it: "the
\* message will always be delivered".
AlwaysDelivered ==
    \A d \in 1..Packets :
        first > End(d) /\ MsgOf[d] \notin Mortal =>
            ReadAt(MsgOf[d]) # {} \/ \E h \in held : h.data = d
=============================================================================
