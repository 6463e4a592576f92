----------------------------- MODULE UDTTransfer -----------------------------
(***************************************************************************)
(* The data path of a UDT connection (udt/src/core.cpp): one socket sends a  *)
(* stream and closes, the other reads it, over a network that loses, repeats *)
(* and reorders packets.  At the sender run the caller of send and close,    *)
(* the worker that packs packets and the worker that receives; at the        *)
(* receiver the caller of recv and the worker that receives.  A packet's     *)
(* contents are its place in the stream, and the loss lists are sets         *)
(* (LossSet), which UDTSndLossList and UDTRcvLossList implement.                      *)
(***************************************************************************)
EXTENDS UDTSeqNo, Sequences

CONSTANTS ISN,         \* m_iISN of the sender
          Packets,     \* bound: how many packets the caller sends at most
          SndBufSize,  \* m_iSndBufSize
          RcvBufSize,  \* m_iRcvBufSize, one place of which stays empty
          NetSize      \* bound: packets under way

\* A packet may stay on its way for ever: no number comes round while the stream lasts.
ASSUME TransferAssumption ==
    /\ ISN \in SeqNo /\ Packets \in Nat /\ Packets + 2 <= SeqNoTH
    /\ RcvBufSize \in Nat /\ NetSize \in Nat

VARIABLES added,       \* packets given to the send buffer so far
          first,       \* m_pFirstBlock: the first packet in the buffer
          next,        \* m_pCurrBlock: the next packet never sent
          sndCurr,     \* m_iSndCurrSeqNo
          sndLastAck,  \* m_iSndLastAck
          sndDataAck,  \* m_iSndLastDataAck
          window,      \* m_iFlowWindowSize
          sndLoss,     \* m_pSndLossList
          taken,       \* the number packData has taken from it, or None
          listed,      \* on m_pSndUList, or an update waits to put it there
          sndState,    \* connected, lingering in close, closed, abandoned, broken
          sndBlocked,  \* send waits on m_SendBlockCond
          peerHealth,  \* m_bPeerHealth
          held,        \* the packets in m_pRcvBuffer
          start,       \* the number at m_iStartPos
          rcvLastAck,  \* m_iRcvLastAck: the number at m_iLastAckPos
          rcvAckAck,   \* m_iRcvLastAckAck
          rcvCurr,     \* m_iRcvCurrSeqNo
          rcvLoss,     \* m_pRcvLossList
          rcvState,    \* connected or broken
          rcvBlocked,  \* recv waits on m_RecvDataCond
          rcvFailed,   \* recvfile could not write and has returned an error
          read,        \* what recv has returned
          net          \* the packets under way

sndBuffer == <<added, first, next>>
sndWindow == <<sndCurr, sndLastAck, sndDataAck, window, sndLoss, taken>>
sndCaller == <<sndState, sndBlocked, peerHealth>>
sender == <<sndBuffer, sndWindow, listed, sndCaller>>
rcvWindow == <<rcvLastAck, rcvAckAck, rcvCurr, rcvLoss>>
rcvCaller == <<rcvState, rcvBlocked, rcvFailed, read>>
receiver == <<held, start, rcvWindow, rcvCaller>>
vars == <<sender, receiver, net>>

Data(s, d)    == [type |-> "data", seq |-> s, data |-> d]
Ack(s, w)     == [type |-> "ack", ack |-> s, window |-> w]
LiteAck(s)    == [type |-> "liteack", ack |-> s]
AckAck(s)     == [type |-> "ackack", ack |-> s]
Nak(a, b)     == [type |-> "nak", from |-> a, to |-> b]
Shutdown      == [type |-> "shutdown"]
PeerError     == [type |-> "error"]

Init == /\ added = 0 /\ first = 1 /\ next = 1
        /\ sndCurr = ISN - 1 /\ sndLastAck = ISN /\ sndDataAck = ISN
        /\ window = RcvBufSize /\ sndLoss = {} /\ taken = None /\ listed = FALSE
        /\ sndState = "connected" /\ sndBlocked = FALSE /\ peerHealth = TRUE
        /\ held = {} /\ start = ISN /\ rcvLastAck = ISN /\ rcvAckAck = ISN
        /\ rcvCurr = ISN - 1 /\ rcvLoss = {} /\ rcvState = "connected"
        /\ rcvBlocked = FALSE /\ rcvFailed = FALSE /\ read = <<>> /\ net = {}
-----------------------------------------------------------------------------
Earliest(S) == CHOOSE s \in S : \A t \in S : SeqOff(s, t) >= 0
After(a, b) == SeqCmp(a, b) > 0

\* getCurrBufSize, getRcvDataSize, getAvailBufSize
CurrBufSize == added + 1 - first
RcvDataSize == SeqOff(start, rcvLastAck)
AvailBufSize == RcvBufSize - RcvDataSize - 1

Alive == sndState \in {"connected", "lingering"}

\* A packet is sent when there is room for it.
Put(m) == m \in net \/ Cardinality(net) < NetSize
Sent(m) == net' = net \cup {m}
-----------------------------------------------------------------------------
(* The sender's caller. *)

\* While the buffer is full send waits, and returns an error if the peer has
\* reported one.
send == /\ sndState = "connected" /\ ~sndBlocked /\ added < Packets
        /\ IF CurrBufSize < SndBufSize
           THEN added' = added + 1 /\ listed' = TRUE /\ UNCHANGED <<sndBlocked, peerHealth>>
           ELSE /\ sndBlocked' = peerHealth /\ peerHealth' = TRUE
                /\ UNCHANGED <<added, listed>>
        /\ UNCHANGED <<first, next, sndWindow, sndState, receiver, net>>

\* close, called when send has returned, waits while the buffer is not empty.
close == /\ sndState = "connected" /\ ~sndBlocked
         /\ sndState' = "lingering"
         /\ UNCHANGED <<sndBuffer, sndWindow, listed, sndBlocked, peerHealth, receiver, net>>

Closed(how) == /\ sndState = "lingering" /\ Put(Shutdown)
               /\ sndState' = how /\ listed' = FALSE /\ Sent(Shutdown)
               /\ UNCHANGED <<sndBuffer, sndWindow, sndBlocked, peerHealth, receiver>>

LingerDone_AllSent == next > added /\ Closed("closed")

LingerDone == CurrBufSize = 0 /\ Closed("closed")

\* m_Linger.l_linger seconds have gone by.
LingerExpires == CurrBufSize > 0 /\ Closed("abandoned")
-----------------------------------------------------------------------------
(* The sender's sending worker: CSndUList::pop and packData. *)

\* A number is taken from the loss list and only then is m_AckLock taken.
TakeLost == /\ Alive /\ listed /\ taken = None /\ sndLoss # {}
            /\ taken' = Earliest(sndLoss) /\ sndLoss' = sndLoss \ {taken'}
            /\ listed' = FALSE
            /\ UNCHANGED <<sndBuffer, sndCurr, sndLastAck, sndDataAck, window, sndCaller,
                           receiver, net>>

\* Where packData looks for a lost packet, counted in blocks from the first.
LostOffset_FromLastAck == SeqOff(sndLastAck, taken)

LostOffset == SeqOff(sndDataAck, taken)

SendLost == LET m == Data(taken, first + LostOffset)
            IN /\ taken # None
               /\ IF LostOffset < 0 THEN UNCHANGED <<listed, net>>
                  ELSE Put(m) /\ Sent(m) /\ listed' = TRUE
               /\ taken' = None
               /\ UNCHANGED <<sndBuffer, sndCurr, sndLastAck, sndDataAck, window, sndLoss,
                              sndCaller, receiver>>

Sendable == window >= SeqLen(sndLastAck, IncSeq(sndCurr)) /\ next <= added

SendNew == /\ Alive /\ listed /\ taken = None /\ sndLoss = {}
           /\ IF Sendable
              THEN /\ Put(Data(IncSeq(sndCurr), next)) /\ Sent(Data(IncSeq(sndCurr), next))
                   /\ sndCurr' = IncSeq(sndCurr) /\ next' = next + 1
                   /\ UNCHANGED listed
              ELSE listed' = FALSE /\ UNCHANGED <<sndCurr, next, net>>
           /\ UNCHANGED <<added, first, sndLastAck, sndDataAck, window, sndLoss, taken,
                          sndCaller, receiver>>
-----------------------------------------------------------------------------
(* The sender's receiving worker: processCtrl and checkTimers. *)

Broken == sndState' = "broken" /\ sndBlocked' = FALSE

\* Acknowledgement; an ACK2 answers it unless one was sent a moment ago.
ProcessAck(m, rest) ==
    /\ m.type = "ack" /\ Alive
    /\ \E answer \in {{}, {AckAck(m.ack)}} : net' = rest \cup answer
    /\ IF After(m.ack, IncSeq(sndCurr))
       THEN Broken /\ UNCHANGED <<sndBuffer, sndWindow, listed>>
       ELSE LET offset == SeqOff(sndDataAck, m.ack)
                newer == SeqCmp(m.ack, sndLastAck) >= 0
            IN /\ window' = IF newer THEN m.window ELSE window
               /\ sndLastAck' = IF newer THEN m.ack ELSE sndLastAck
               /\ IF offset <= 0 THEN UNCHANGED <<first, sndDataAck, sndLoss, listed, sndBlocked>>
                  ELSE /\ first' = first + offset
                       /\ sndDataAck' = m.ack
                       /\ sndLoss' = {s \in sndLoss : SeqOff(m.ack, s) >= 0}
                       /\ sndBlocked' = FALSE /\ listed' = TRUE
               /\ UNCHANGED <<added, next, sndCurr, taken, sndState>>
    /\ UNCHANGED <<peerHealth, receiver>>

ProcessLiteAck(m, rest) ==
    /\ m.type = "liteack" /\ Alive /\ net' = rest
    /\ IF SeqCmp(m.ack, sndLastAck) >= 0
       THEN window' = window - SeqOff(sndLastAck, m.ack) /\ sndLastAck' = m.ack
       ELSE UNCHANGED <<window, sndLastAck>>
    /\ UNCHANGED <<sndBuffer, sndCurr, sndDataAck, sndLoss, taken, listed, sndCaller,
                   receiver>>

ProcessNak(m, rest) ==
    /\ m.type = "nak" /\ Alive /\ net' = rest
    /\ IF After(m.to, sndCurr)
       THEN Broken /\ UNCHANGED <<sndLoss, listed>>
       ELSE /\ sndLoss' = sndLoss \cup
                          (IF SeqCmp(m.from, sndLastAck) >= 0 THEN Between(m.from, m.to)
                           ELSE IF SeqCmp(m.to, sndLastAck) >= 0 THEN Between(sndLastAck, m.to)
                           ELSE {})
            /\ listed' = TRUE /\ UNCHANGED <<sndState, sndBlocked>>
    /\ UNCHANGED <<sndBuffer, sndCurr, sndLastAck, sndDataAck, window, taken, peerHealth, receiver>>

\* The peer's error: nothing wakes a send that waits.
ProcessPeerError(m, rest) ==
    /\ m.type = "error" /\ Alive /\ net' = rest /\ peerHealth' = FALSE
    /\ UNCHANGED <<sndBuffer, sndWindow, listed, sndState, sndBlocked, receiver>>

\* Nothing heard for a while: all that is not acknowledged is lost, unless
\* losses are already known.
Expired_KnownOnly == sndLoss

Expired == IF IncSeq(sndCurr) # sndLastAck /\ sndLoss = {}
           THEN Between(sndLastAck, sndCurr) ELSE sndLoss

Expire == /\ Alive /\ CurrBufSize > 0
          /\ sndLoss' = Expired
          /\ listed' = TRUE
          /\ UNCHANGED <<sndBuffer, sndCurr, sndLastAck, sndDataAck, window, taken, sndCaller,
                         receiver, net>>

\* Sixteen such timers and five seconds in silence.
SndBreaks == /\ Alive /\ Broken
             /\ UNCHANGED <<sndBuffer, sndWindow, listed, peerHealth, receiver, net>>
-----------------------------------------------------------------------------
(* The receiver's worker: processData, processCtrl and checkTimers. *)

ProcessData(m, rest) ==
    LET offset == SeqOff(rcvLastAck, m.seq)
        taken_ == \E h \in held : h.seq = m.seq
        lost == Between(IncSeq(rcvCurr), DecSeq(m.seq))
        gap == After(m.seq, IncSeq(rcvCurr))
    IN /\ m.type = "data" /\ rcvState = "connected"
       /\ IF offset < 0 \/ offset >= AvailBufSize \/ taken_
          THEN net' = rest /\ UNCHANGED <<held, rcvCurr, rcvLoss>>
          ELSE /\ held' = held \cup {[seq |-> m.seq, data |-> m.data]}
               /\ rcvCurr' = IF After(m.seq, rcvCurr) THEN m.seq ELSE rcvCurr
               /\ rcvLoss' = IF gap THEN rcvLoss \cup lost ELSE rcvLoss \ {m.seq}
               /\ net' = rest \cup
                         IF gap THEN {Nak(IncSeq(rcvCurr), DecSeq(m.seq))} ELSE {}
       /\ UNCHANGED <<sender, start, rcvLastAck, rcvAckAck, rcvCaller>>

\* The smallest number missing.
Missing == IF rcvLoss = {} THEN IncSeq(rcvCurr) ELSE Earliest(rcvLoss)

\* sendCtrl(2): the buffer is acknowledged, and the sender told until it says
\* that it has heard.
SendAck == /\ rcvState = "connected" /\ Missing # rcvAckAck
           /\ SeqCmp(Missing, rcvLastAck) >= 0
           /\ rcvLastAck' = Missing
           /\ rcvBlocked' = IF Missing # rcvLastAck THEN FALSE ELSE rcvBlocked
           /\ LET room == RcvBufSize - SeqOff(start, Missing) - 1
                  m == Ack(Missing, IF room < 2 THEN 2 ELSE room)
              IN IF After(Missing, rcvAckAck) THEN Put(m) /\ Sent(m) ELSE UNCHANGED net
           /\ UNCHANGED <<sender, held, start, rcvAckAck, rcvCurr, rcvLoss, rcvState, rcvFailed,
                          read>>

\* Many packets have come since the last acknowledgement.
SendLiteAck == /\ rcvState = "connected" /\ Missing # rcvAckAck
               /\ Put(LiteAck(Missing)) /\ Sent(LiteAck(Missing))
               /\ UNCHANGED <<sender, receiver>>

ProcessAckAck(m, rest) ==
    /\ m.type = "ackack" /\ rcvState = "connected" /\ net' = rest
    /\ rcvAckAck' = IF After(m.ack, rcvAckAck) THEN m.ack ELSE rcvAckAck
    /\ UNCHANGED <<sender, held, start, rcvLastAck, rcvCurr, rcvLoss, rcvCaller>>

ProcessShutdown(m, rest) ==
    /\ m.type = "shutdown" /\ rcvState = "connected" /\ net' = rest
    /\ rcvState' = "broken" /\ rcvBlocked' = FALSE
    /\ UNCHANGED <<sender, held, start, rcvWindow, rcvFailed, read>>

RcvBreaks == /\ rcvState = "connected" /\ rcvState' = "broken" /\ rcvBlocked' = FALSE
             /\ UNCHANGED <<sender, held, start, rcvWindow, rcvFailed, read, net>>
-----------------------------------------------------------------------------
(* The receiver's caller: some of what is acknowledged, also after the       *)
(* connection has ended.                                                    *)
recv == /\ ~rcvBlocked /\ ~rcvFailed
        /\ IF RcvDataSize = 0
           THEN /\ rcvState = "connected" /\ rcvBlocked' = TRUE
                /\ UNCHANGED <<held, start, read>>
           ELSE \E n \in 1..RcvDataSize :
                LET got == [i \in 1..n |-> CHOOSE h \in held : h.seq = IncSeqBy(start, i - 1)] IN
                /\ read' = read \o [i \in 1..n |-> got[i].data]
                /\ held' = held \ {got[i] : i \in 1..n}
                /\ start' = IncSeqBy(start, n)
                /\ UNCHANGED rcvBlocked
        /\ UNCHANGED <<sender, rcvWindow, rcvState, rcvFailed, net>>

\* recvfile finds that the file has failed: it tells the sender and gives up.
RecvFails == /\ rcvState = "connected" /\ ~rcvBlocked /\ ~rcvFailed
             /\ Put(PeerError) /\ Sent(PeerError) /\ rcvFailed' = TRUE
             /\ UNCHANGED <<sender, held, start, rcvWindow, rcvState, rcvBlocked, read>>
-----------------------------------------------------------------------------
(* The network. *)

\* The rest are the packets under way afterwards: a packet may come again.
Receive(m, rest) ==
    \/ ProcessAck(m, rest) \/ ProcessLiteAck(m, rest) \/ ProcessNak(m, rest)
    \/ ProcessPeerError(m, rest)
    \/ ProcessData(m, rest) \/ ProcessAckAck(m, rest) \/ ProcessShutdown(m, rest)

ReceiveLast(m) == Receive(m, net \ {m})
ReceiveCopy(m) == Receive(m, net) /\ Cardinality(net') <= NetSize

\* A packet is lost, or reaches a socket that is not connected any more.
Lose(m) == net' = net \ {m} /\ UNCHANGED <<sender, receiver>>

Next == \/ send \/ close \/ LingerDone \/ LingerExpires
        \/ TakeLost \/ SendLost \/ SendNew \/ Expire \/ SndBreaks
        \/ SendAck \/ SendLiteAck \/ RcvBreaks \/ recv \/ RecvFails
        \/ \E m \in net : ReceiveLast(m) \/ ReceiveCopy(m) \/ Lose(m)

\* The callers and workers go on; they wait for room on the network only because
\* of the bound.  A packet that is sent again and again arrives, and so does an
\* acknowledgement.  Once nothing arrives any more the timer expires.
Arrives(type) == \E m \in net : m.type = type /\ ReceiveLast(m)
DataArrives(d) == \E m \in net : m.type = "data" /\ m.data = d /\ ReceiveLast(m)

Fairness == /\ WF_vars(send) /\ WF_vars(recv) /\ WF_vars(Expire)
            /\ WF_vars(TakeLost) /\ SF_vars(SendLost \/ SendNew) /\ SF_vars(SendAck)
            /\ WF_vars(\E m \in net : Lose(m))
            /\ SF_vars(Arrives("ack"))
            /\ \A d \in 1..Packets : SF_vars(DataArrives(d))

Spec == Init /\ [][Next]_vars /\ Fairness
-----------------------------------------------------------------------------
(* Properties. *)

TypeOK ==
    /\ added \in 0..Packets /\ first \in 1..(Packets + 1) /\ next \in 1..(Packets + 1)
    /\ {sndCurr, rcvCurr} \subseteq SeqNo \cup {ISN - 1}
    /\ {sndLastAck, sndDataAck, rcvLastAck, rcvAckAck, start} \subseteq SeqNo
    /\ sndLoss \subseteq SeqNo /\ rcvLoss \subseteq SeqNo /\ taken \in SeqNo \cup {None}
    /\ window \in Int /\ {listed, sndBlocked, peerHealth, rcvBlocked, rcvFailed} \subseteq BOOLEAN
    /\ sndState \in {"connected", "lingering", "closed", "abandoned", "broken"}
    /\ rcvState \in {"connected", "broken"}
    /\ held \subseteq [seq : SeqNo, data : 1..Packets]
    /\ Cardinality(net) <= NetSize

Number(i) == IncSeqBy(ISN, i - 1)

\* What the sender has released is what the receiver has acknowledged and can give
\* to its caller: a packet may be needed again until then, and the offsets by which
\* packData finds a lost packet count from the first packet kept.
ReleasedIsReceived ==
    /\ sndDataAck = Number(first) /\ IncSeq(sndCurr) = Number(next)
    /\ SeqOff(sndDataAck, sndLastAck) >= 0
    /\ SeqOff(sndLastAck, IncSeq(rcvCurr)) >= 0 /\ SeqOff(sndDataAck, rcvLastAck) >= 0

\* Between the last acknowledgement and the newest number every number is either
\* in the buffer or in the loss list, and before it nothing is missing: recv never
\* meets an empty place.
LossesAreTheGaps ==
    LET Held == {h.seq : h \in held} IN
    /\ rcvLoss \cap Held = {}
    /\ rcvLoss \cup Held = Between(start, rcvCurr)
    /\ rcvLoss = {} \/ SeqOff(rcvLastAck, Earliest(rcvLoss)) >= 0

\* "this should not happen: attack or bug": no report that is under way, however
\* late, names a number that was not sent.
ReportsAreHonest ==
    \A m \in net : /\ m.type = "ack" => ~After(m.ack, IncSeq(sndCurr))
                   /\ m.type = "nak" => ~After(m.to, sndCurr)

\* What both ends believe of each other's windows is true, however late the
\* acknowledgements and the loss reports arrive that tell them.
WindowsAgree == TypeOK /\ ReleasedIsReceived /\ LossesAreTheGaps /\ ReportsAreHonest

\* When close returns before its time is over, the receiver has all that was sent, and
\* it is readable although the connection ends.
CloseDelivers == sndState = "closed" => rcvLastAck = Number(added + 1)

\* Everything that was sent is read at last, also after the sender has closed, unless the
\* connection breaks or an end gives up.
Over == \/ sndState \in {"abandoned", "broken"} \/ rcvFailed
        \/ rcvState = "broken" /\ sndState # "closed"
EverythingArrives == []<>(Len(read) = added \/ Over)

\* The connection is a stream: what is read is what was sent, once and in order.
Abstract == INSTANCE Stream WITH sent <- added
IsStream == Abstract!Spec
=============================================================================
