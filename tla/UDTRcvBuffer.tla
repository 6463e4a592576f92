---------------------------- MODULE UDTRcvBuffer ----------------------------
(***************************************************************************)
(* CRcvBuffer (udt/src/buffer.cpp): a circular array of units.  The worker   *)
(* that receives puts a packet at its distance from the acknowledgement      *)
(* point and moves that point; the caller reads bytes from the front         *)
(* (stream) or looks for a whole message (datagram), of which some may be    *)
(* read before all packets in front of them are there.  Packets are numbered *)
(* modulo Packets, more than the buffer can hold.                           *)
(***************************************************************************)
EXTENDS Integers, Sequences, FiniteSets, FiniteSetsExt

CONSTANTS Size,      \* m_iSize
          Bytes,     \* bytes in a packet
          Packets,   \* packet numbers
          MsgOf,     \* the first packet of the message a packet belongs to
          Unordered, \* the messages (first packets) that may be read out of order
          MaxRead    \* bound: bytes one read asks for

VARIABLES unit,      \* m_pUnit: packet number and m_iFlag, or None
          startPos, lastAckPos, maxPos, notch,
          base,      \* the packet at the acknowledgement point
          dropped,   \* packets from base on that the sender has given up, as it says
          given,     \* the packets near base that a read of messages has returned
          ret        \* what the last read returned

vars == <<unit, startPos, lastAckPos, maxPos, notch, base, dropped, given, ret>>

None == [seq |-> -1, flag |-> 0]
Place == 0..(Size - 1)
PacketNo == 0..(Packets - 1)

Init == /\ unit = [p \in Place |-> None]
        /\ startPos = 0 /\ lastAckPos = 0 /\ maxPos = 0 /\ notch = 0
        /\ base = 0 /\ dropped = {} /\ given = {} /\ ret = <<>>

RcvDataSize == (lastAckPos - startPos + Size) % Size
AvailBufSize == Size - RcvDataSize - 1
-----------------------------------------------------------------------------
(* The worker: processData, the acknowledgement, the drop request. *)

addData(offset) == LET pos == (lastAckPos + offset) % Size IN
                   /\ offset < AvailBufSize
                   /\ maxPos' = Max({offset, maxPos})
                   /\ unit' = IF unit[pos] # None THEN unit
                              ELSE [unit EXCEPT ![pos] = [seq |-> (base + offset) % Packets,
                                                          flag |-> 1]]
                   /\ UNCHANGED <<startPos, lastAckPos, notch, base, dropped, given, ret>>

\* The acknowledgement point moves over n packets, none of them missing.
Missing(i) == /\ unit[(lastAckPos + i) % Size] = None
              /\ (base + i) % Packets \notin dropped

ackData(n) == /\ n <= AvailBufSize /\ \A i \in 0..(n - 1) : ~Missing(i)
              /\ lastAckPos' = (lastAckPos + n) % Size
              /\ maxPos' = Max({0, maxPos - n})
              /\ base' = (base + n) % Packets
              /\ dropped' = dropped \ {(base + i) % Packets : i \in 0..(n - 1)}
              /\ given' = given \cap {(base' + i + Packets) % Packets : i \in (1 - Size)..(Size - 1)}
              /\ UNCHANGED <<unit, startPos, notch, ret>>

\* The units dropMsg looks at: the last one that arrived is not among them.
Scanned == {(startPos + i) % Size : i \in 0..(((RcvDataSize + maxPos) % Size) - 1)}

Between(s) == MsgOf[s] # s /\ MsgOf[(s + 1) % Packets] = MsgOf[s]

\* The sender gives up a message of which s is lost: the range of its request ends one
\* packet behind the message.  The number it names is that of packets in the middle of an
\* unordered message only: in the others it stands beside the flags.
dropMsg(s) == LET m == MsgOf[s]
                  lost == (s - base + Packets) % Packets
                  parts == {p \in Place : unit[p].seq >= 0 /\ MsgOf[unit[p].seq] = m}
                  length == Cardinality({t \in PacketNo : MsgOf[t] = m})
              IN /\ lost < AvailBufSize
                 /\ unit' = [p \in Place |->
                               IF p \in Scanned \cap parts /\ Between(unit[p].seq) /\ m \in Unordered
                               THEN [unit[p] EXCEPT !.flag = 3] ELSE unit[p]]
                 /\ dropped' = dropped \cup {t % Packets : t \in s..(m + length)}
                 /\ UNCHANGED <<startPos, lastAckPos, maxPos, notch, base, given, ret>>
-----------------------------------------------------------------------------
(* The caller, on a stream. *)

\* Mutant: what was taken of the first unit is forgotten.
Consume_NoNotch(n) == LET units == n \div Bytes IN
                      /\ unit' = [p \in Place |->
                                    IF (p - startPos + Size) % Size < units THEN None ELSE unit[p]]
                      /\ startPos' = (startPos + units) % Size
                      /\ notch' = (notch + n) % Bytes
                      /\ ret' = [i \in 1..n |->
                                   <<unit[(startPos + (notch + i - 1) \div Bytes) % Size].seq,
                                     ((notch + i - 1) % Bytes) + 1>>]
                      /\ UNCHANGED <<lastAckPos, maxPos, base, dropped, given>>

\* Reading n bytes takes whole units away and leaves a notch in the next.
Consume(n) == LET units == (notch + n) \div Bytes IN
              /\ unit' = [p \in Place |->
                            IF (p - startPos + Size) % Size < units THEN None ELSE unit[p]]
              /\ startPos' = (startPos + units) % Size
              /\ notch' = (notch + n) % Bytes
              /\ ret' = [i \in 1..n |->
                           <<unit[(startPos + (notch + i - 1) \div Bytes) % Size].seq,
                             ((notch + i - 1) % Bytes) + 1>>]
              /\ UNCHANGED <<lastAckPos, maxPos, base, dropped, given>>

InBuffer == RcvDataSize * Bytes - notch

readBuffer(len) == Consume(Min({len, InBuffer}))

\* The file takes k packets and then fails: their bytes are gone from the buffer.
readBufferToFile(len, k) == LET good == k * Bytes - notch IN
                            Consume(IF k = 0 THEN 0 ELSE Min({good, len, InBuffer}))
-----------------------------------------------------------------------------
(* The caller, on messages. *)

IsFirst(s) == MsgOf[s] = s
IsLast(s) == MsgOf[(s + 1) % Packets] # MsgOf[s]

Next1(p) == (p + 1) % Size

Ready(p) == unit[p] # None /\ unit[p].flag = 1

\* A message starts at p of which nothing is missing up to the acknowledgement point.
RECURSIVE Whole(_)
Whole(p) == Ready(p) /\ (IsLast(unit[p].seq) \/ Next1(p) = lastAckPos \/ Whole(Next1(p)))

RECURSIVE Skip(_)
Skip(p) == IF p = lastAckPos \/ (Ready(p) /\ IsFirst(unit[p].seq) /\ Whole(p))
           THEN p ELSE Skip(Next1(p))

\* The first message behind the bad ones: its head p and tail q, if it is there, and
\* whether it lies behind the acknowledgement point; left counts the places to look at.
\* p is -1 where there is no head yet.
RECURSIVE Search(_, _, _, _)
Search(p, q, passack, left) ==
    LET s == unit[q].seq
        head == IF ~Ready(q) THEN -1 ELSE IF IsFirst(s) THEN q ELSE p
        found == /\ Ready(q) /\ IsLast(s) /\ head # -1
                 /\ ~passack \/ MsgOf[s] \in Unordered
    IN IF found THEN [p |-> head, q |-> q, passack |-> passack, found |-> TRUE]
       ELSE IF left = 0
       THEN [p |-> head, q |-> Next1(q), passack |-> passack \/ Next1(q) = lastAckPos,
             found |-> FALSE]
       ELSE Search(head, Next1(q), passack \/ Next1(q) = lastAckPos, left - 1)

Nothing == startPos = lastAckPos /\ maxPos <= 0

scanMsg == LET from == Skip(startPos)
           IN Search(-1, from, from = lastAckPos, maxPos + ((lastAckPos - from + Size) % Size))

\* A message larger than the buffer: its head is right behind the place reached.
TooLarge == ~scanMsg.found /\ scanMsg.p # -1 /\ Next1(scanMsg.q) = scanMsg.p

Parts(m) == [i \in 1..(((m.q - m.p + Size) % Size) + 1) |-> unit[(m.p + i - 1) % Size].seq]

\* Of a message that is too large no unit is read: the loop from its head ends at once.
readMsg ==
    LET from == Skip(startPos)
        m == scanMsg
        length == IF m.found THEN ((m.q - m.p + Size) % Size) + 1 ELSE 0
        bad == {p \in Place : (p - startPos + Size) % Size < (from - startPos + Size) % Size}
        read == {(m.p + i) % Size : i \in 0..(length - 1)}
    IN /\ ret' = IF Nothing THEN <<>>
                 ELSE [i \in 1..length |-> unit[(m.p + i - 1) % Size].seq]
       /\ given' = given \cup {ret'[i] : i \in DOMAIN ret'}
       /\ IF Nothing THEN UNCHANGED <<unit, startPos>>
          ELSE /\ unit' = [p \in Place |->
                             IF p \in bad \/ (p \in read /\ ~m.passack) THEN None
                             ELSE IF p \in read THEN [unit[p] EXCEPT !.flag = 2] ELSE unit[p]]
               /\ startPos' = IF m.found /\ ~m.passack THEN Next1(m.q) ELSE from
       /\ UNCHANGED <<lastAckPos, maxPos, notch, base, dropped>>
-----------------------------------------------------------------------------
Arrive == \/ \E i \in Place : addData(i)
          \/ \E n \in 1..(Size - 1) : ackData(n)

StreamNext == \/ Arrive
              \/ \E n \in 1..MaxRead : readBuffer(n) \/ \E k \in 0..Size : readBufferToFile(n, k)

StreamSpec == Init /\ [][StreamNext]_vars

MessageNext == Arrive \/ readMsg \/ \E s \in PacketNo : dropMsg(s)

MessageSpec == Init /\ [][MessageNext]_vars
-----------------------------------------------------------------------------
\* The bytes of the acknowledged units, without what was read of the first.
InOrder == [i \in 1..InBuffer |->
              <<unit[(startPos + (notch + i - 1) \div Bytes) % Size].seq,
                ((notch + i - 1) % Bytes) + 1>>]

\* A stream is read byte by byte in order, however units arrive, are acknowledged and
\* are given back, and however reads end within a unit or a file fails.
D == INSTANCE Delivery WITH bytes <- InOrder

KeepsBytes == /\ [D!StreamNext]_<<InOrder, base, ret>>
              /\ \A n \in 1..MaxRead : readBuffer(n) => D!Read(Min({n, InBuffer}))

\* A message is read whole and once, in order if it asks for it, though packets of it
\* come late, are given up, or were read ahead of the acknowledgement.
KeepsMessages == [D!MessageNext]_<<given, ret>>
=============================================================================
