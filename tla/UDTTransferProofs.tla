------------------------- MODULE UDTTransferProofs -------------------------
(***************************************************************************)
(* A stream over a network that loses, repeats, delays and reorders: what is *)
(* read is what was written, once and in order, what the sender forgets has  *)
(* been received, and a close that returns in time has delivered.            *)
(*                                                                         *)
(* Numbers are followed by their places in the stream: the sequence number   *)
(* of place k is Number(k), and by TransferAssumption all that are compared  *)
(* lie in one window of m_iSeqNoTH numbers.                                  *)
(***************************************************************************)
EXTENDS MCUDTTransfer, FiniteSetTheorems, SequenceTheorems, WellFoundedInduction, TLAPS

Places == 0..(Packets + 1)

\* What is at a place, and the place of a number.
Piece(k) == [seq |-> Number(k), data |-> k]
PlaceOf(s) == SeqOff(ISN, s) + 1

LastAck == PlaceOf(sndLastAck)
Acked   == PlaceOf(rcvLastAck)
Heard   == PlaceOf(rcvAckAck)
Newest  == PlaceOf(rcvCurr)
Base   == PlaceOf(start)
-----------------------------------------------------------------------------
\* Counting up stays among the numbers, and one by one comes to the same (incseq).
LEMMA CountsUp ==
    ASSUME NEW a \in SeqNo, NEW n \in 0..MaxSeqNo
    PROVE  /\ IncSeqBy(a, n) \in SeqNo
           /\ IncSeq(IncSeqBy(a, n)) = IncSeqBy(a, n + 1)
           /\ DecSeq(IncSeq(a)) = a
  BY SeqNoAssumption DEF SeqNo, IncSeqBy, IncSeq, DecSeq

\* In a window of m_iSeqNoTH numbers, wherever it begins and however it wraps, seqcmp is
\* the order in which the numbers are given out, and seqoff and seqlen are how far two of
\* them are apart.  The numbers of a connection that are compared are those on their way,
\* which its flow window bounds.
THEOREM ComparesInWindow ==
    ASSUME NEW a \in SeqNo, NEW m \in 0..(SeqNoTH - 1), NEW n \in 0..(SeqNoTH - 1)
    PROVE  LET x == IncSeqBy(a, m)
               y == IncSeqBy(a, n)
           IN  /\ SeqCmp(x, y) > 0 <=> m > n
               /\ SeqCmp(x, y) = 0 <=> m = n
               /\ SeqOff(x, y) = n - m
               /\ m <= n => SeqLen(x, y) = n - m + 1
<1> DEFINE x == IncSeqBy(a, m)
           y == IncSeqBy(a, n)
<1>1. m <= MaxSeqNo /\ n <= MaxSeqNo /\ m \in Int /\ n \in Int /\ a \in Int
  BY SeqNoAssumption DEF SeqNo
<1>2. x \in 0..MaxSeqNo /\ (x = a + m \/ x = a + m - MaxSeqNo - 1)
  BY <1>1, SeqNoAssumption DEF SeqNo, IncSeqBy
<1>3. y \in 0..MaxSeqNo /\ (y = a + n \/ y = a + n - MaxSeqNo - 1)
  BY <1>1, SeqNoAssumption DEF SeqNo, IncSeqBy
<1> HIDE DEF x, y
<1>4. \/ x - y = m - n /\ Distance(x, y) < SeqNoTH
      \/ m > n /\ x - y = m - n - MaxSeqNo - 1 /\ ~(Distance(x, y) < SeqNoTH) /\ x < y
      \/ m < n /\ x - y = m - n + MaxSeqNo + 1 /\ ~(Distance(x, y) < SeqNoTH) /\ x > y
  BY <1>1, <1>2, <1>3, SeqNoAssumption DEF Distance
<1>5. SeqCmp(x, y) > 0 <=> m > n
  BY <1>1, <1>2, <1>3, <1>4, SeqNoAssumption DEF SeqCmp
<1>6. SeqCmp(x, y) = 0 <=> m = n
  BY <1>1, <1>2, <1>3, <1>4, SeqNoAssumption DEF SeqCmp
<1>7. SeqOff(x, y) = n - m
  BY <1>1, <1>2, <1>3, <1>4, SeqNoAssumption DEF SeqOff
<1>8. m <= n => SeqLen(x, y) = n - m + 1
  BY <1>1, <1>2, <1>3, <1>4, SeqNoAssumption DEF SeqLen
<1> QED
  BY <1>5, <1>6, <1>7, <1>8 DEF x, y
-----------------------------------------------------------------------------
(* Numbers and places.                                                       *)

LEMMA Bounds ==
    /\ MaxSeqNo \in Nat /\ SeqNoTH \in Nat /\ 2 * SeqNoTH <= MaxSeqNo + 1
    /\ ISN \in 0..MaxSeqNo /\ Packets \in Nat /\ Packets + 2 <= SeqNoTH
    /\ RcvBufSize \in Nat /\ NetSize \in Nat
  BY SeqNoAssumption, TransferAssumption DEF SeqNo

LEMMA NumberIs ==
    ASSUME NEW k \in Places
    PROVE  /\ Number(k) \in Int
           /\ \/ Number(k) = ISN + k - 1 /\ ISN + k - 1 <= MaxSeqNo
              \/ Number(k) = ISN + k - 1 - MaxSeqNo - 1 /\ ISN + k - 1 > MaxSeqNo
           /\ k > 0 => Number(k) \in SeqNo
           /\ Number(0) = ISN - 1 /\ Number(1) = ISN
  BY Bounds DEF Number, IncSeqBy, Places, SeqNo

\* Two numbers are as far apart as their places, across the wrap.
LEMMA Apart ==
    ASSUME NEW i \in Places, NEW j \in Places
    PROVE  /\ SeqOff(Number(i), Number(j)) = j - i
           /\ SeqCmp(Number(i), Number(j)) > 0 <=> i > j
           /\ SeqCmp(Number(i), Number(j)) >= 0 <=> i >= j
           /\ i # j => Number(i) # Number(j)
<1> DEFINE x == Number(i)
           y == Number(j)
<1>1. i \in Int /\ j \in Int /\ i - j < SeqNoTH /\ j - i < SeqNoTH
  BY Bounds DEF Places
<1>2. x \in Int /\ (x = ISN + i - 1 \/ x = ISN + i - 1 - MaxSeqNo - 1)
  BY NumberIs
<1>3. y \in Int /\ (y = ISN + j - 1 \/ y = ISN + j - 1 - MaxSeqNo - 1)
  BY NumberIs
<1> HIDE DEF x, y
<1>4. \/ x - y = i - j /\ Distance(x, y) < SeqNoTH
      \/ i > j /\ x - y = i - j - MaxSeqNo - 1 /\ ~(Distance(x, y) < SeqNoTH) /\ x < y
      \/ i < j /\ x - y = i - j + MaxSeqNo + 1 /\ ~(Distance(x, y) < SeqNoTH) /\ x > y
  <2>1. x - y = i - j \/ x - y = i - j - MaxSeqNo - 1 \/ x - y = i - j + MaxSeqNo + 1
    BY <1>1, <1>2, <1>3, Bounds
  <2>2. CASE x - y = i - j
    BY <1>1, <1>2, <1>3, <2>2, Bounds DEF Distance
  <2>3. CASE x - y = i - j - MaxSeqNo - 1
    <3>1. i > j
      BY <1>1, <1>2, <1>3, <2>3, NumberIs, Bounds DEF x, y
    <3> QED
      BY <1>1, <1>2, <1>3, <2>3, <3>1, Bounds DEF Distance
  <2>4. CASE x - y = i - j + MaxSeqNo + 1
    <3>1. i < j
      BY <1>1, <1>2, <1>3, <2>4, NumberIs, Bounds DEF x, y
    <3> QED
      BY <1>1, <1>2, <1>3, <2>4, <3>1, Bounds DEF Distance
  <2> QED
    BY <2>1, <2>2, <2>3, <2>4
<1>5. SeqOff(x, y) = j - i
  BY <1>1, <1>2, <1>3, <1>4, Bounds DEF SeqOff
<1>6. (SeqCmp(x, y) > 0 <=> i > j) /\ (SeqCmp(x, y) >= 0 <=> i >= j)
  BY <1>1, <1>2, <1>3, <1>4, Bounds DEF SeqCmp
<1>7. i # j => x # y
  BY <1>1, <1>2, <1>3, <1>4, Bounds
<1> QED
  BY <1>5, <1>6, <1>7 DEF x, y

LEMMA PlaceIs ==
    ASSUME NEW k \in Places
    PROVE  PlaceOf(Number(k)) = k
<1>1. 1 \in Places /\ Number(1) = ISN /\ k \in Int
  BY NumberIs, Bounds DEF Places
<1> QED
  BY <1>1, Apart DEF PlaceOf

LEMMA Counting ==
    ASSUME NEW k \in 0..Packets
    PROVE  /\ k \in Places /\ k + 1 \in Places
           /\ IncSeq(Number(k)) = Number(k + 1)
           /\ k > 0 => DecSeq(Number(k + 1)) = Number(k)
<1>1. k \in Places /\ k + 1 \in Places /\ k \in Int
  BY Bounds DEF Places
<1>2. IncSeq(Number(k)) = Number(k + 1)
  BY <1>1, NumberIs, Bounds DEF IncSeq
<1>3. k > 0 => DecSeq(Number(k + 1)) = Number(k)
  BY <1>1, NumberIs, Bounds DEF DecSeq
<1> QED
  BY <1>1, <1>2, <1>3

LEMMA Further ==
    ASSUME NEW k \in 1..(Packets + 1), NEW n \in 0..(Packets + 1 - k)
    PROVE  IncSeqBy(Number(k), n) = Number(k + n)
<1>1. k \in Places /\ k + n \in Places /\ k \in Int /\ n \in Int
  BY Bounds DEF Places
<1>2. Number(k) \in SeqNo
  BY <1>1, NumberIs
<1> QED
  BY <1>1, <1>2, NumberIs, Bounds DEF IncSeqBy, SeqNo

LEMMA BetweenIs ==
    ASSUME NEW i \in 1..(Packets + 1), NEW j \in Places
    PROVE  \A s : s \in Between(Number(i), Number(j)) <=> \E k \in i..j : s = Number(k)
<1>1. i \in Places /\ i \in Int /\ j \in Int /\ j <= Packets + 1 /\ Packets \in Int
  BY Bounds DEF Places
<1>2. SeqOff(Number(i), Number(j)) = j - i
  BY <1>1, Apart
<1>3. Between(Number(i), Number(j)) = {IncSeqBy(Number(i), n) : n \in 0..(j - i)}
  BY <1>2 DEF Between
<1>4. ASSUME NEW n \in 0..(j - i) PROVE IncSeqBy(Number(i), n) = Number(i + n) /\ i + n \in i..j
  BY <1>1, Further
<1>5. ASSUME NEW k \in i..j PROVE k - i \in 0..(j - i) /\ IncSeqBy(Number(i), k - i) = Number(k)
  <2>1. k - i \in 0..(j - i) /\ i + (k - i) = k /\ k - i \in 0..(Packets + 1 - i)
    BY <1>1
  <2> QED
    BY <2>1, Further
<1> QED
  BY <1>3, <1>4, <1>5

\* A set of numbers that is not empty has an earliest one.
Less == {p \in Nat \X Nat : p[1] < p[2]}

LEMMA LessWellFounded == IsWellFoundedOn(Less, Nat)
  BY NatLessThanWellFounded, Zenon DEF OpToRel, Less

LEMMA EarliestIs ==
    ASSUME NEW S, S # {}, \A s \in S : \E k \in Places : s = Number(k)
    PROVE  /\ Earliest(S) \in S
           /\ \A t \in S : SeqOff(Earliest(S), t) >= 0
<1> DEFINE P == {k \in Places : Number(k) \in S}
<1>1. P \in SUBSET Nat /\ P # {}
  BY Bounds DEF Places
<1>2. PICK x \in P : \A y \in P : ~(<<y, x>> \in Less)
  BY <1>1, LessWellFounded, WFMin
<1>3. ASSUME NEW y \in P PROVE x <= y
  <2>1. y \in Nat /\ x \in Nat /\ <<y, x>> \in Nat \X Nat /\ <<y, x>>[1] = y /\ <<y, x>>[2] = x
    BY <1>1
  <2>2. ~(y < x)
    BY <1>2, <2>1, Zenon DEF Less
  <2> QED
    BY <2>1, <2>2
<1>4. ASSUME NEW t \in S PROVE SeqOff(Number(x), t) >= 0
  <2>1. PICK k \in Places : t = Number(k)
    OBVIOUS
  <2>2. k \in P /\ x \in Places /\ k \in Int /\ x \in Int
    BY <2>1, <1>1 DEF Places
  <2> QED
    BY <2>1, <2>2, <1>3, Apart
<1>5. \E s \in S : \A t \in S : SeqOff(s, t) >= 0
  BY <1>2, <1>4
<1> QED
  BY <1>5, Zenon DEF Earliest
-----------------------------------------------------------------------------
(* Messages and their packets.                                               *)

LEMMA EndIs ==
    ASSUME NEW d \in 1..Packets
    PROVE  End(d) \in d..Packets /\ End(d) <= d + 1
  BY Bounds DEF End, IsLast
-----------------------------------------------------------------------------
(* The invariant.                                                            *)

\* All numbers before place k have arrived at the receiver.
Present(k) == k \in 1..(Newest + 1) /\ \A j \in 1..(k - 1) : Number(j) \notin rcvLoss

Types == /\ added \in 0..Packets /\ next \in 1..(added + 1) /\ first \in 1..next
         /\ window \in Int /\ {listed, sndBlocked, peerHealth, rcvBlocked, rcvFailed} \subseteq BOOLEAN
         /\ sndState \in {"connected", "lingering", "closed", "abandoned", "broken"}
         /\ rcvState \in {"connected", "broken"}

\* What is acknowledged has arrived; what is lost can still be sent.
SenderOK == /\ sndCurr = Number(next - 1) /\ sndDataAck = Number(first)
            /\ sndLastAck = Number(LastAck) /\ first <= LastAck /\ Present(LastAck)
            /\ \A s \in sndLoss : \E k \in first..(next - 1) : s = Number(k)
            /\ taken = None \/ \E k \in 1..(next - 1) : taken = Number(k)

\* Nothing is lost before the acknowledgement; from the front of the buffer on a packet
\* is in the buffer or lost, and the last place of the buffer stays empty.
ReceiverOK == /\ Newest \in 0..(next - 1) /\ rcvCurr = Number(Newest)
              /\ rcvLastAck = Number(Acked) /\ first <= Acked /\ Present(Acked)
              /\ Heard \in 1..Acked /\ rcvAckAck = Number(Heard)
              /\ Base \in 1..Acked /\ start = Number(Base)
              /\ \A s \in rcvLoss : \E k \in 1..Newest : s = Number(k)
              /\ \A h \in held : \E k \in Base..Newest : h = Piece(k)
              /\ \A k \in Base..Newest : Piece(k) \in held <=> Number(k) \notin rcvLoss
              /\ Newest = Base - 1 \/ Newest + 2 <= Base + RcvBufSize
              /\ sndState = "closed" => Acked = added + 1

\* A packet under way, however old, tells what has come true and stays so.
Honest(m) == \/ \E k \in 1..(next - 1) : m = Data(Number(k), k)
             \/ \E k \in 1..Acked, w \in Int : m = Ack(Number(k), w)
             \/ \E k \in 1..(Newest + 1) : Present(k) /\ m = LiteAck(Number(k))
             \/ \E k \in 1..Acked : m = AckAck(Number(k))
             \/ \E a \in 1..(next - 1) : \E b \in a..(next - 1) : m = Nak(Number(a), Number(b))
             \/ m \in {Shutdown, PeerError}

NetFits == IsFiniteSet(net) /\ Cardinality(net) <= NetSize

Core == Types /\ SenderOK /\ ReceiverOK /\ \A m \in net : Honest(m)

\* What was read of a stream is the stream up to the front of the buffer.
StreamOK == read = [i \in 1..(Base - 1) |-> i]

Inv == Core /\ NetFits /\ StreamOK
-----------------------------------------------------------------------------
LEMMA PlacesAre ==
    ASSUME Core
    PROVE  /\ added \in Int /\ next \in Int /\ first \in Int /\ 1 <= first /\ first <= next
           /\ next <= added + 1 /\ added <= Packets /\ Packets \in Int
           /\ LastAck \in Int /\ first <= LastAck /\ LastAck <= Newest + 1
           /\ Newest \in Int /\ 0 <= Newest /\ Newest < next
           /\ Acked \in Int /\ first <= Acked /\ Acked <= Newest + 1
           /\ Heard \in Int /\ 1 <= Heard /\ Heard <= Acked
           /\ Base \in Int /\ 1 <= Base /\ Base <= Acked
<1>1. Packets \in Nat
  BY Bounds
<1>2. next \in Int /\ first \in Int
  BY <1>1 DEF Core, Types
<1>3. Newest \in 0..(next - 1) /\ Present(Acked) /\ Present(LastAck)
  BY DEF Core, SenderOK, ReceiverOK
<1>4. Newest \in Int /\ Acked \in Int /\ LastAck \in Int /\ Acked <= Newest + 1 /\ LastAck <= Newest + 1
  BY <1>2, <1>3 DEF Present
<1> QED
  BY <1>1, <1>2, <1>3, <1>4 DEF Core, Types, SenderOK, ReceiverOK

LEMMA InPlaces ==
    ASSUME NEW k \in Int, 0 <= k, k <= Packets + 1
    PROVE  k \in Places
  BY Bounds DEF Places

LEMMA Wider ==
    ASSUME NEW a \in Int, NEW b \in Int, a <= b
    PROVE  /\ \A k : k \in 1..a => k \in 1..b
           /\ \A k : k \in 1..(a - 1) => k \in 1..(b - 1)
           /\ \A j \in 1..(a - 1) : \A k \in j..(a - 1) : k \in j..(b - 1)
  OBVIOUS

\* Both ends go forward, and with them what the packets under way may say.
Forward == /\ next' \in Int /\ next <= next' /\ Acked' \in Int /\ Acked <= Acked'
           /\ \A k \in Int : Present(k) => Present(k)'

LEMMA StaysHonest ==
    ASSUME Core, Forward, NEW m, Honest(m)
    PROVE  Honest(m)'
<1>0. /\ next \in Int /\ Acked \in Int /\ Newest \in Int
      /\ next' \in Int /\ next <= next' /\ Acked' \in Int /\ Acked <= Acked'
  BY PlacesAre DEF Forward
<1>1. \A k : k \in 1..(next - 1) => k \in 1..(next' - 1)
  BY <1>0, Wider
<1>2. \A k : k \in 1..Acked => k \in 1..(Acked')
  BY <1>0, Wider
<1>3. \A k : Present(k) => Present(k)'
  BY <1>0 DEF Forward, Present
<1>4. CASE \E k \in 1..(next - 1) : m = Data(Number(k), k)
  BY <1>1, <1>4 DEF Honest
<1>5. CASE \E k \in 1..Acked, w \in Int : m = Ack(Number(k), w)
  BY <1>2, <1>5 DEF Honest
<1>6. CASE \E k \in 1..(Newest + 1) : Present(k) /\ m = LiteAck(Number(k))
  <2>1. PICK k : Present(k) /\ m = LiteAck(Number(k))
    BY <1>6
  <2>2. Present(k)' /\ k \in 1..(Newest' + 1)
    BY <1>3, <2>1 DEF Present
  <2> QED
    BY <2>1, <2>2 DEF Honest
<1>7. CASE \E k \in 1..Acked : m = AckAck(Number(k))
  BY <1>2, <1>7 DEF Honest
<1>8. CASE \E a \in 1..(next - 1) : \E b \in a..(next - 1) : m = Nak(Number(a), Number(b))
  <2>1. PICK a \in 1..(next - 1) : \E b \in a..(next - 1) : m = Nak(Number(a), Number(b))
    BY <1>8
  <2>2. PICK b \in a..(next - 1) : m = Nak(Number(a), Number(b))
    BY <2>1
  <2>3. a \in 1..(next' - 1) /\ b \in a..(next' - 1)
    BY <1>0, Wider
  <2> QED
    BY <2>2, <2>3 DEF Honest
<1>9. CASE m \in {Shutdown, PeerError}
  BY <1>9 DEF Honest
<1> QED
  BY <1>4, <1>5, <1>6, <1>7, <1>8, <1>9 DEF Honest

\* The packets under way afterwards: some of those before, and one that is honest.
LEMMA NetHonest ==
    ASSUME Core, Forward, \A m \in net' : m \in net \/ Honest(m)'
    PROVE  (\A m \in net : Honest(m))'
<1>1. ASSUME NEW m \in net' PROVE Honest(m)'
  BY <1>1, StaysHonest DEF Core
<1> QED
  BY <1>1

\* The receiver stands still.
LEMMA RcvFrame ==
    ASSUME Core, UNCHANGED receiver, next' \in Int, next <= next', first' \in Int, first' <= Acked,
           sndState' = "closed" => Acked = added' + 1
    PROVE  /\ ReceiverOK' /\ Forward
           /\ Acked' = Acked /\ Newest' = Newest /\ \A k : Present(k)' <=> Present(k)
<1>1. /\ Acked' = Acked /\ Newest' = Newest /\ Heard' = Heard /\ Base' = Base
      /\ UNCHANGED <<held, start, rcvLastAck, rcvAckAck, rcvCurr, rcvLoss, read>>
  BY DEF receiver, rcvWindow, rcvCaller, Acked, Newest, Heard, Base
<1>2. \A k : Present(k)' <=> Present(k)
  BY <1>1 DEF Present
<1>3. Forward
  BY <1>1, <1>2, PlacesAre DEF Forward
<1>4. Newest \in 0..(next' - 1)
  BY PlacesAre
<1>5. ReceiverOK'
  BY <1>1, <1>2, <1>4 DEF Core, ReceiverOK
<1> QED
  BY <1>1, <1>2, <1>3, <1>5

\* The sender stands still.
LEMMA SndFrame ==
    ASSUME Core, UNCHANGED sender, Forward
    PROVE  SenderOK'
<1>1. /\ UNCHANGED <<added, first, next, sndCurr, sndLastAck, sndDataAck, sndLoss, taken, sndState>>
      /\ LastAck' = LastAck
  BY DEF sender, sndBuffer, sndWindow, sndCaller, LastAck
<1>2. Present(LastAck)'
  <2>1. LastAck \in Int /\ Present(LastAck)
    BY PlacesAre DEF Core, SenderOK
  <2>2. PICK l \in Int : l = LastAck
    BY <2>1
  <2>3. Present(l)'
    BY <2>1, <2>2 DEF Forward
  <2> QED
    BY <1>1, <2>2, <2>3 DEF Present
<1> QED
  BY <1>1, <1>2 DEF Core, SenderOK

LEMMA InitCore == Init => Core
<1> SUFFICES ASSUME Init PROVE Core
  OBVIOUS
<1>1. /\ Number(0) = ISN - 1 /\ Number(1) = ISN /\ 0 \in Places /\ 1 \in Places
      /\ Packets \in Nat /\ RcvBufSize \in Nat
  BY NumberIs, Bounds DEF Places
<1>2. LastAck = 1 /\ Acked = 1 /\ Heard = 1 /\ Base = 1 /\ Newest = 0
  BY <1>1, PlaceIs DEF Init, LastAck, Acked, Heard, Base, Newest
<1>3. Types
  <2>1. added \in 0..Packets /\ next \in 1..(added + 1) /\ first \in 1..next /\ window \in Int
    BY <1>1 DEF Init
  <2>2. {listed, sndBlocked, peerHealth, rcvBlocked, rcvFailed} \subseteq BOOLEAN
    BY Zenon DEF Init
  <2> QED
    BY <2>1, <2>2 DEF Init, Types
<1>4. \A k : Present(k) <=> k = 1
  BY <1>2 DEF Init, Present
<1>5. SenderOK
  BY <1>1, <1>2, <1>4 DEF Init, SenderOK
<1>6. ReceiverOK
  BY <1>1, <1>2, <1>4 DEF Init, ReceiverOK
<1> QED
  BY <1>3, <1>5, <1>6 DEF Init, Core
-----------------------------------------------------------------------------
(* The sender's actions.                                                     *)

LEMMA CallerCore ==
    ASSUME Core, send \/ sendmsg \/ close \/ LingerDone \/ LingerExpires
    PROVE  Core'
<1> USE PlacesAre
<1>1. /\ UNCHANGED <<first, next, sndCurr, sndLastAck, sndDataAck, window, sndLoss, taken, receiver>>
      /\ added' \in 0..Packets /\ added <= added'
      /\ net' = net \/ net' = net \cup {Shutdown}
  <2>1. CASE sendmsg
    BY <2>1, EndIs DEF sendmsg, sndWindow, Core, Types
  <2>2. CASE send \/ close \/ LingerDone \/ LingerExpires
    BY <2>2 DEF send, close, LingerDone, LingerExpires, Closed, Sent, sndBuffer, sndWindow, Core, Types
  <2> QED
    BY <2>1, <2>2
<1>2. {listed', sndBlocked', peerHealth'} \subseteq BOOLEAN
  BY Zenon DEF send, sendmsg, close, LingerDone, LingerExpires, Closed, sndBuffer, sndWindow, Core, Types
<1>3. {rcvBlocked', rcvFailed'} \subseteq BOOLEAN /\ UNCHANGED rcvState
  BY <1>1, Zenon DEF receiver, rcvCaller, Core, Types
<1>4. /\ sndState' \in {"connected", "lingering", "closed", "abandoned", "broken"}
      /\ sndState' = "closed" => Acked = added' + 1
  <2>1. CASE send \/ sendmsg
    BY <2>1 DEF send, sendmsg, Core, Types, SenderOK, ReceiverOK
  <2>2. CASE close
    BY <2>2 DEF close, sndBuffer, Core, Types, SenderOK, ReceiverOK
  <2>3. CASE LingerDone
    BY <2>3 DEF LingerDone, Closed, CurrBufSize, sndBuffer, Core, Types, SenderOK, ReceiverOK
  <2>4. CASE LingerExpires
    BY <2>4 DEF LingerExpires, Closed, sndBuffer, Core, Types, SenderOK, ReceiverOK
  <2> QED
    BY <2>1, <2>2, <2>3, <2>4
<1>5. Types'
  <2>0. added' \in Int /\ next' = next /\ first' = first /\ window' = window
    BY <1>1, Bounds
  <2>1. next' \in 1..(added' + 1) /\ first' \in 1..next' /\ window' \in Int
    <3>1. added + 1 \in Int /\ added' + 1 \in Int /\ added + 1 <= added' + 1
      BY <1>1, <2>0
    <3> QED
      BY <2>0, <3>1, Wider DEF Core, Types
  <2>2. {listed', sndBlocked', peerHealth', rcvBlocked', rcvFailed'} \subseteq BOOLEAN
    BY <1>2, <1>3, Zenon
  <2> QED
    BY <1>1, <1>3, <1>4, <2>1, <2>2 DEF Core, Types
<1>6. ReceiverOK' /\ Forward /\ \A k : Present(k)' <=> Present(k)
  BY <1>1, <1>4, RcvFrame
<1>7. SenderOK'
  <2>1. LastAck' = LastAck
    BY <1>1 DEF LastAck
  <2> QED
    BY <1>1, <1>4, <1>6, <2>1 DEF Core, SenderOK
<1>8. \A m \in net' : m \in net \/ Honest(m)'
  BY <1>1 DEF Honest, Shutdown
<1> QED
  BY <1>5, <1>6, <1>7, <1>8, NetHonest DEF Core

\* What the sending worker and the timer change: which packets are lost or sent.
LEMMA WorkerCore ==
    ASSUME Core, TakeLost \/ SendLost \/ SendNew \/ Expire \/ SndBreaks
    PROVE  Core'
<1> USE PlacesAre
<1>0. /\ UNCHANGED <<added, first, sndLastAck, sndDataAck, window, receiver>>
      /\ sndState' = sndState \/ sndState' = "broken"
  BY DEF TakeLost, SendLost, SendNew, Expire, SndBreaks, Broken, sndBuffer, sndWindow, sndCaller
<1>1. /\ \A s \in sndLoss : \E k \in Places : s = Number(k)
      /\ sndCurr = Number(next - 1) /\ next - 1 \in 0..Packets /\ IncSeq(sndCurr) = Number(next)
  <2>1. \A k \in first..(next - 1) : k \in Places
    BY InPlaces
  <2>2. next - 1 \in 0..Packets /\ next - 1 + 1 = next
    OBVIOUS
  <2> QED
    BY <2>1, <2>2, Counting DEF Core, SenderOK
<1>2. /\ next' \in 1..(added + 1) /\ next <= next' /\ sndCurr' = Number(next' - 1)
      /\ \A s \in sndLoss' : \E k \in first..(next' - 1) : s = Number(k)
      /\ taken' = None \/ \E k \in 1..(next' - 1) : taken' = Number(k)
      /\ \A m \in net' : m \in net \/ \E k \in 1..(next' - 1) : m = Data(Number(k), k)
  <2>0. /\ \A s \in sndLoss : \E k \in first..(next - 1) : s = Number(k)
        /\ taken = None \/ \E k \in 1..(next - 1) : taken = Number(k)
        /\ next \in 1..(added + 1)
    BY DEF Core, SenderOK, Types
  <2>1. CASE TakeLost
    <3>1. /\ UNCHANGED <<next, sndCurr, net>> /\ sndLoss # {} /\ taken' = Earliest(sndLoss)
          /\ sndLoss' = sndLoss \ {taken'}
      BY <2>1 DEF TakeLost, sndBuffer
    <3>2. taken' \in sndLoss
      BY <1>1, <3>1, EarliestIs
    <3>3. \E k \in 1..(next - 1) : taken' = Number(k)
      BY <2>0, <3>2
    <3> QED
      BY <1>1, <2>0, <3>1, <3>3
  <2>2. CASE SendLost
    <3>1. /\ UNCHANGED <<next, sndCurr, sndLoss>> /\ taken # None /\ taken' = None
          /\ net' = net \/ net' = net \cup {Data(taken, first + LostOffset)}
      BY <2>2 DEF SendLost, sndBuffer, Sent
    <3>2. PICK k \in 1..(next - 1) : taken = Number(k)
      BY <2>0, <3>1
    <3>3. k \in Places /\ first \in Places /\ k \in Int
      BY InPlaces
    <3>4. LostOffset = k - first
      BY <3>2, <3>3, Apart DEF LostOffset, Core, SenderOK
    <3>5. first + LostOffset = k
      BY <3>3, <3>4
    <3> QED
      BY <1>1, <2>0, <3>1, <3>2, <3>5
  <2>3. CASE SendNew
    <3>1. UNCHANGED <<sndLoss, taken>> /\ sndLoss = {}
      BY <2>3 DEF SendNew
    <3>2. CASE Sendable
      <4>1. /\ net' = net \cup {Data(Number(next), next)} /\ sndCurr' = Number(next)
            /\ next' = next + 1 /\ next <= added
        BY <1>1, <2>3, <3>2 DEF SendNew, Sendable, Sent
      <4>2. next' - 1 = next /\ next \in 1..(next' - 1) /\ next' \in 1..(added + 1)
            /\ next' \in Int /\ next <= next'
        BY <4>1
      <4>3. \A k : k \in 1..(next - 1) => k \in 1..(next' - 1)
        BY <4>2, Wider
      <4> QED
        BY <2>0, <3>1, <4>1, <4>2, <4>3
    <3>3. CASE ~Sendable
      BY <1>1, <2>0, <2>3, <3>1, <3>3 DEF SendNew
    <3> QED
      BY <3>2, <3>3
  <2>4. CASE Expire
    <3>1. /\ UNCHANGED <<next, sndCurr, taken, net>>
          /\ sndLoss' = sndLoss \/ sndLoss' = Between(sndLastAck, sndCurr)
      BY <2>4 DEF Expire, Expired, sndBuffer
    <3>2. \A s \in Between(sndLastAck, sndCurr) : \E k \in first..(next - 1) : s = Number(k)
      <4>1. LastAck \in 1..(Packets + 1) /\ next - 1 \in Places
        BY InPlaces
      <4>2. \A s \in Between(sndLastAck, sndCurr) : \E k \in LastAck..(next - 1) : s = Number(k)
        BY <1>1, <4>1, BetweenIs DEF Core, SenderOK
      <4>3. \A k \in LastAck..(next - 1) : k \in first..(next - 1)
        OBVIOUS
      <4> QED
        BY <4>2, <4>3
    <3> QED
      BY <1>1, <2>0, <3>1, <3>2
  <2>5. CASE SndBreaks
    BY <1>1, <2>0, <2>5 DEF SndBreaks, sndBuffer, sndWindow
  <2> QED
    BY <2>1, <2>2, <2>3, <2>4, <2>5
<1>3. Types'
  <2>1. {listed', sndBlocked', peerHealth'} \subseteq BOOLEAN
    BY Zenon DEF TakeLost, SendLost, SendNew, Expire, SndBreaks, Broken, sndBuffer, sndWindow,
                 sndCaller, Core, Types
  <2>2. {rcvBlocked', rcvFailed'} \subseteq BOOLEAN /\ UNCHANGED rcvState
    BY <1>0, Zenon DEF receiver, rcvCaller, Core, Types
  <2>3. {listed', sndBlocked', peerHealth', rcvBlocked', rcvFailed'} \subseteq BOOLEAN
    BY <2>1, <2>2, Zenon
  <2>4. next' \in 1..(added' + 1) /\ first' \in 1..next'
    BY <1>0, <1>2
  <2> QED
    BY <1>0, <2>2, <2>3, <2>4 DEF Core, Types
<1>4. ReceiverOK' /\ Forward /\ \A k : Present(k)' <=> Present(k)
  <2>1. sndState' = "closed" => Acked = added' + 1
    BY <1>0 DEF Core, ReceiverOK
  <2> QED
    BY <1>0, <1>2, <2>1, RcvFrame
<1>5. SenderOK'
  <2>1. LastAck' = LastAck
    BY <1>0 DEF LastAck
  <2> QED
    BY <1>0, <1>2, <1>4, <2>1 DEF Core, SenderOK
<1>6. \A m \in net' : m \in net \/ Honest(m)'
  BY <1>2 DEF Honest
<1> QED
  BY <1>3, <1>4, <1>5, <1>6, NetHonest DEF Core
-----------------------------------------------------------------------------
(* The receiver's actions.                                                   *)

LEMMA MissingIs ==
    ASSUME Core
    PROVE  \E k \in 1..(Newest + 1) : Missing = Number(k) /\ Present(k)
<1> USE PlacesAre
<1>0. \A k \in 0..(Newest + 1) : k \in Places
  BY InPlaces
<1>1. CASE rcvLoss = {}
  <2>1. Newest \in 0..Packets /\ rcvCurr = Number(Newest)
    BY DEF Core, ReceiverOK
  <2>2. Missing = Number(Newest + 1)
    BY <1>1, <2>1, Counting DEF Missing
  <2>3. Present(Newest + 1)
    BY <1>1 DEF Present
  <2> QED
    BY <2>2, <2>3
<1>2. CASE rcvLoss # {}
  <2>1. \A s \in rcvLoss : \E k \in 1..Newest : s = Number(k)
    BY DEF Core, ReceiverOK
  <2>2. Missing \in rcvLoss /\ \A t \in rcvLoss : SeqOff(Missing, t) >= 0
    BY <1>0, <1>2, <2>1, EarliestIs DEF Missing
  <2>3. PICK k \in 1..Newest : Missing = Number(k)
    BY <2>1, <2>2
  <2>4. \A j \in 1..(k - 1) : Number(j) \notin rcvLoss
    <3> SUFFICES ASSUME NEW j \in 1..(k - 1), Number(j) \in rcvLoss PROVE FALSE
      OBVIOUS
    <3>1. SeqOff(Number(k), Number(j)) = j - k
      BY <1>0, Apart
    <3> QED
      BY <2>2, <2>3, <3>1
  <2> QED
    BY <2>3, <2>4 DEF Present
<1> QED
  BY <1>1, <1>2

\* The types, where only the receiver moves.
LEMMA RcvTypes ==
    ASSUME Core, UNCHANGED sender, rcvState' \in {"connected", "broken"},
           {rcvBlocked', rcvFailed'} \subseteq BOOLEAN
    PROVE  Types'
<1>1. UNCHANGED <<added, first, next, window, sndState>>
  BY DEF sender, sndBuffer, sndWindow, sndCaller
<1>2. {listed', sndBlocked', peerHealth', rcvBlocked', rcvFailed'} \subseteq BOOLEAN
  BY Zenon DEF sender, sndBuffer, sndWindow, sndCaller, Core, Types
<1> QED
  BY <1>1, <1>2 DEF Core, Types

LEMMA AcksCore ==
    ASSUME Core, SendAck \/ SendLiteAck \/ RcvBreaks \/ RecvFails
    PROVE  Core'
<1> USE PlacesAre
<1>1. UNCHANGED <<sender, held, start, rcvAckAck, rcvCurr, rcvLoss, read>>
  BY DEF SendAck, SendLiteAck, RcvBreaks, RecvFails, receiver, rcvWindow, rcvCaller
<1>2. Types'
  <2>1. rcvState' \in {"connected", "broken"} /\ {rcvBlocked', rcvFailed'} \subseteq BOOLEAN
    BY Zenon DEF SendAck, SendLiteAck, RcvBreaks, RecvFails, receiver, rcvWindow, rcvCaller, Core, Types
  <2> QED
    BY <1>1, <2>1, RcvTypes
<1>3. PICK k \in 1..(Newest + 1) : Missing = Number(k) /\ Present(k)
  BY MissingIs
<1>4. /\ k \in Places /\ Acked \in Places /\ Base \in Places /\ k \in Int
      /\ rcvLastAck = Number(Acked) /\ start = Number(Base)
  BY InPlaces DEF Core, ReceiverOK
<1>5. /\ rcvLastAck' = rcvLastAck \/ (rcvLastAck' = Number(k) /\ Acked <= k)
      /\ \A m \in net' : \/ m \in net \/ m = PeerError \/ m = LiteAck(Number(k))
                         \/ rcvLastAck' = Number(k) /\ \E w \in Int : m = Ack(Number(k), w)
  <2>1. CASE SendAck
    <3>1. rcvLastAck' = Number(k) /\ SeqCmp(Number(k), Number(Acked)) >= 0
      BY <1>3, <1>4, <2>1 DEF SendAck
    <3>2. Acked <= k
      BY <1>4, <3>1, Apart
    <3>3. SeqOff(start, Missing) \in Int
      BY <1>3, <1>4, Apart
    <3>4. \A m \in net' : m \in net \/ \E w \in Int : m = Ack(Number(k), w)
      <4> DEFINE room == RcvBufSize - SeqOff(start, Missing) - 1
                 w == IF room < 2 THEN 2 ELSE room
      <4>1. w \in Int
        BY <3>3, Bounds
      <4>2. net' = net \/ net' = net \cup {Ack(Number(k), w)}
        BY <1>3, <2>1 DEF SendAck, Sent
      <4> QED
        BY <4>1, <4>2
    <3> QED
      BY <3>1, <3>2, <3>4
  <2>2. CASE SendLiteAck
    BY <1>3, <2>2 DEF SendLiteAck, Sent, receiver, rcvWindow
  <2>3. CASE RcvBreaks
    BY <2>3 DEF RcvBreaks, rcvWindow
  <2>4. CASE RecvFails
    BY <2>4 DEF RecvFails, Sent, rcvWindow
  <2> QED
    BY <2>1, <2>2, <2>3, <2>4
<1>6. /\ Newest' = Newest /\ Heard' = Heard /\ Base' = Base
      /\ UNCHANGED <<added, first, next, sndState>>
  BY <1>1 DEF Newest, Heard, Base, sender, sndBuffer, sndCaller
<1>7. \A q : Present(q)' <=> Present(q)
  BY <1>1, <1>6 DEF Present
<1>8. /\ Acked' \in Int /\ Acked <= Acked' /\ rcvLastAck' = Number(Acked') /\ Present(Acked)'
      /\ rcvLastAck' = Number(k) => Acked' = k
  <2>1. CASE rcvLastAck' = rcvLastAck
    <3>1. Acked' = Acked
      BY <2>1 DEF Acked
    <3>2. Number(k) = Number(Acked) => k = Acked
      BY <1>4, Apart
    <3>3. PICK c \in Int : c = Acked
      OBVIOUS
    <3>4. Present(c)'
      BY <1>7, <3>3 DEF Core, ReceiverOK
    <3>5. Present(Acked)'
      BY <3>1, <3>3, <3>4 DEF Present
    <3> QED
      BY <1>4, <2>1, <3>1, <3>2, <3>5
  <2>2. CASE rcvLastAck' = Number(k) /\ Acked <= k
    <3>1. Acked' = k
      BY <1>4, <2>2, PlaceIs DEF Acked
    <3> QED
      BY <1>3, <1>4, <1>6, <1>7, <2>2, <3>1 DEF Present
  <2> QED
    BY <1>5, <2>1, <2>2
<1>9. Forward
  BY <1>6, <1>7, <1>8 DEF Forward
<1>10. ReceiverOK'
  <2>1. Acked' <= Newest' + 1
    BY <1>8 DEF Present
  <2>2. /\ first' <= Acked' /\ Heard' \in 1..Acked' /\ Base' \in 1..Acked'
        /\ Acked = added + 1 => Acked' = added + 1
    BY <1>6, <1>8, <2>1
  <2> QED
    BY <1>1, <1>6, <1>7, <1>8, <2>2 DEF Core, ReceiverOK
<1>11. \A m \in net' : m \in net \/ Honest(m)'
  <2> SUFFICES ASSUME NEW m \in net', m \notin net PROVE Honest(m)'
    OBVIOUS
  <2>1. CASE m = PeerError
    BY <2>1 DEF Honest
  <2>2. CASE m = LiteAck(Number(k))
    BY <1>3, <1>6, <1>7, <2>2 DEF Honest
  <2>3. CASE rcvLastAck' = Number(k) /\ \E w \in Int : m = Ack(Number(k), w)
    <3>1. k \in 1..Acked'
      BY <1>8, <2>3
    <3> QED
      BY <2>3, <3>1 DEF Honest
  <2> QED
    BY <1>5, <2>1, <2>2, <2>3
<1> QED
  BY <1>1, <1>2, <1>9, <1>10, <1>11, SndFrame, NetHonest DEF Core

\* What is in the buffer at a place.
LEMMA HeldIs ==
    ASSUME Core, NEW j \in Base..Newest, Number(j) \notin rcvLoss
    PROVE  /\ Piece(j) \in held
           /\ (CHOOSE h \in held : h.seq = Number(j)) = Piece(j)
<1> USE PlacesAre
<1>1. \A k \in Base..Newest : k \in Places
  BY InPlaces
<1>2. Piece(j) \in held /\ Piece(j).seq = Number(j)
  BY DEF Core, ReceiverOK, Piece
<1>3. ASSUME NEW h \in held, h.seq = Number(j) PROVE h = Piece(j)
  <2>1. PICK k \in Base..Newest : h = Piece(k)
    BY DEF Core, ReceiverOK
  <2>2. Number(k) = Number(j)
    BY <1>3, <2>1 DEF Piece
  <2>3. k = j
    BY <1>1, <2>2, Apart
  <2> QED
    BY <2>1, <2>3
<1> QED
  BY <1>2, <1>3

\* What recv takes: the next packets of the stream.
LEMMA recvIs ==
    ASSUME Core, recv
    PROVE  /\ UNCHANGED <<sender, rcvWindow, rcvState, rcvFailed, net>>
           /\ \/ UNCHANGED <<held, start, read>> /\ rcvBlocked' = TRUE
              \/ /\ \E n \in 1..(Acked - Base) :
                       /\ read' = read \o [i \in 1..n |-> Base - 1 + i]
                       /\ held' = held \ {Piece(k) : k \in Base..(Base + n - 1)}
                       /\ start' = Number(Base + n)
                 /\ UNCHANGED rcvBlocked
<1> USE PlacesAre
<1>0. \A k \in Base..Acked : k \in Places
  BY InPlaces
<1>1. start = Number(Base) /\ rcvLastAck = Number(Acked) /\ RcvDataSize = Acked - Base
  BY <1>0, Apart DEF Core, ReceiverOK, RcvDataSize
<1>2. UNCHANGED <<sender, rcvWindow, rcvState, rcvFailed, net>>
  BY DEF recv
<1>3. CASE RcvDataSize = 0
  BY <1>2, <1>3 DEF recv
<1>4. CASE RcvDataSize # 0
  <2> DEFINE Got(n) == [i \in 1..n |-> CHOOSE h \in held : h.seq = IncSeqBy(start, i - 1)]
  <2>1. PICK n \in 1..RcvDataSize : /\ read' = read \o [i \in 1..n |-> Got(n)[i].data]
                                    /\ held' = held \ {Got(n)[i] : i \in 1..n}
                                    /\ start' = IncSeqBy(start, n) /\ UNCHANGED rcvBlocked
    BY <1>4 DEF recv
  <2>2. n \in 1..(Acked - Base) /\ n \in Int
    BY <1>1
  <2>3. ASSUME NEW i \in 1..n PROVE Got(n)[i] = Piece(Base - 1 + i) /\ Got(n)[i].data = Base - 1 + i
    <3>1. /\ i \in Int /\ i - 1 \in 0..(Packets + 1 - Base) /\ Base \in 1..(Packets + 1)
          /\ Base + (i - 1) = Base - 1 + i /\ Base - 1 + i \in Base..Newest
          /\ Base - 1 + i \in 1..(Acked - 1)
      BY <2>2
    <3>2. IncSeqBy(start, i - 1) = Number(Base - 1 + i)
      BY <1>1, <3>1, Further
    <3>3. Number(Base - 1 + i) \notin rcvLoss
      BY <3>1 DEF Core, ReceiverOK, Present
    <3>4. Got(n)[i] = Piece(Base - 1 + i)
      BY <3>1, <3>2, <3>3, HeldIs
    <3>5. Piece(Base - 1 + i).data = Base - 1 + i
      BY DEF Piece
    <3> QED
      BY <3>4, <3>5, Zenon
  <2>4. start' = Number(Base + n)
    <3>1. n \in 0..(Packets + 1 - Base) /\ Base \in 1..(Packets + 1)
      BY <2>2
    <3> QED
      BY <1>1, <2>1, <3>1, Further
  <2> HIDE DEF Got
  <2>5. [i \in 1..n |-> Got(n)[i].data] = [i \in 1..n |-> Base - 1 + i]
    BY <2>3
  <2>6. {Got(n)[i] : i \in 1..n} = {Piece(k) : k \in Base..(Base + n - 1)}
    <3>1. ASSUME NEW i \in 1..n PROVE Got(n)[i] \in {Piece(k) : k \in Base..(Base + n - 1)}
      <4>1. Base - 1 + i \in Base..(Base + n - 1)
        BY <2>2
      <4> QED
        BY <2>3, <4>1
    <3>2. ASSUME NEW k \in Base..(Base + n - 1) PROVE Piece(k) \in {Got(n)[i] : i \in 1..n}
      <4>1. k + 1 - Base \in 1..n /\ Base - 1 + (k + 1 - Base) = k
        BY <2>2
      <4>2. Got(n)[k + 1 - Base] = Piece(k)
        BY <2>3, <4>1
      <4> QED
        BY <4>1, <4>2
    <3> QED
      BY <3>1, <3>2
  <2> QED
    BY <1>2, <2>1, <2>2, <2>4, <2>5, <2>6
<1> QED
  BY <1>3, <1>4

LEMMA Appended ==
    ASSUME NEW a \in Nat, NEW n \in Nat
    PROVE  [i \in 1..a |-> i] \o [i \in 1..n |-> a + i] = [i \in 1..(a + n) |-> i]
<1> DEFINE s == [i \in 1..a |-> i]
           t == [i \in 1..n |-> a + i]
<1>1. s \in Seq(Int) /\ t \in Seq(Int) /\ Len(s) = a /\ Len(t) = n
  OBVIOUS
<1>2. \A i \in 1..a : s[i] = i
  OBVIOUS
<1>3. \A i \in 1..n : t[i] = a + i
  OBVIOUS
<1> HIDE DEF s, t
<1>4. s \o t \in Seq(Int) /\ Len(s \o t) = a + n
  BY <1>1, ConcatProperties, Zenon
<1> DEFINE u == [i \in 1..(a + n) |-> i]
<1>5. /\ u \in Seq(Int) /\ Len(u) = a + n
      /\ \A i \in 1..(a + n) : u[i] = i
  <2>1. a + n \in Nat
    OBVIOUS
  <2> QED
    BY <2>1
<1> HIDE DEF u
<1>6. ASSUME NEW i \in 1..(a + n) PROVE (s \o t)[i] = i
  <2>0. i \in Int /\ 1 <= i /\ i <= a + n
    OBVIOUS
  <2>1. CASE i <= a
    BY <1>1, <1>2, <2>0, <2>1
  <2>2. CASE i > a
    <3>1. (s \o t)[i] = t[i - a] /\ i - a \in 1..n
      BY <1>1, <2>0, <2>2
    <3> QED
      BY <1>3, <3>1
  <2>3. i <= a \/ i > a
    BY <2>0
  <2> QED
    BY <2>1, <2>2, <2>3, Zenon
<1>7. s \o t = u
  BY <1>4, <1>5, <1>6, SeqEqual
<1> QED
  BY <1>7 DEF s, t, u

\* The front of the buffer moves on over what is acknowledged.
LEMMA MovesOn ==
    ASSUME Core, UNCHANGED <<sender, net, rcvWindow, rcvState, rcvFailed>>,
           {rcvBlocked'} \subseteq BOOLEAN, NEW n \in 0..(Acked - Base), start' = Number(Base + n),
           \A h : h \in held' <=> h \in held /\ \E k \in (Base + n)..Newest : h = Piece(k)
    PROVE  Core' /\ Base' = Base + n
<1> USE PlacesAre
<1>1. UNCHANGED <<sender, net, rcvLastAck, rcvAckAck, rcvCurr, rcvLoss, rcvState, rcvFailed>>
  BY DEF rcvWindow
<1>2. Types'
  <2>1. rcvState' \in {"connected", "broken"} /\ {rcvBlocked', rcvFailed'} \subseteq BOOLEAN
    BY Zenon DEF Core, Types
  <2> QED
    BY <1>1, <2>1, RcvTypes
<1>3. /\ Newest' = Newest /\ Heard' = Heard /\ Acked' = Acked
      /\ UNCHANGED <<added, first, next, sndState>>
  BY <1>1 DEF Newest, Heard, Acked, sender, sndBuffer, sndCaller
<1>4. \A q : Present(q)' <=> Present(q)
  BY <1>1, <1>3 DEF Present
<1>5. Forward
  BY <1>3, <1>4 DEF Forward
<1>6. PICK c \in Int : c = Acked
  OBVIOUS
<1>7. Present(Acked)'
  <2>1. Present(c)'
    BY <1>4, <1>6 DEF Core, ReceiverOK
  <2> QED
    BY <1>3, <1>6, <2>1 DEF Present
<1>8. Base' = Base + n
  <2>1. Base + n \in Places
    BY InPlaces
  <2> QED
    BY <2>1, PlaceIs DEF Base
<1>9. \A k \in (Base + n)..Newest : Piece(k) \in held' <=> Number(k) \notin rcvLoss
  <2> SUFFICES ASSUME NEW k \in (Base + n)..Newest
               PROVE  Piece(k) \in held' <=> Number(k) \notin rcvLoss
    OBVIOUS
  <2>1. k \in Base..Newest
    OBVIOUS
  <2> QED
    BY <2>1 DEF Core, ReceiverOK
<1>10. Newest = Base + n - 1 \/ Newest + 2 <= Base + n + RcvBufSize
  BY Bounds DEF Core, ReceiverOK
<1>11. Base + n \in 1..Acked
  OBVIOUS
<1>12. ReceiverOK'
  BY <1>1, <1>3, <1>7, <1>8, <1>9, <1>10, <1>11 DEF Core, ReceiverOK
<1>13. \A m \in net' : m \in net \/ Honest(m)'
  BY <1>1
<1> QED
  BY <1>1, <1>2, <1>5, <1>8, <1>12, <1>13, SndFrame, NetHonest DEF Core

\* What one recv takes goes from the buffer.
LEMMA recvCore ==
    ASSUME Core, recv
    PROVE  /\ Core'
           /\ StreamOK => StreamOK'
<1> USE PlacesAre
<1>1. UNCHANGED <<sender, net, rcvWindow, rcvState, rcvFailed>>
  BY recvIs
<1>2. {rcvBlocked'} \subseteq BOOLEAN
  BY recvIs, Zenon DEF Core, Types
<1>3. start = Number(Base) /\ \A h \in held : \E k \in Base..Newest : h = Piece(k)
  BY DEF Core, ReceiverOK
<1>4. CASE UNCHANGED <<held, start, read>>
  <2>1. 0 \in 0..(Acked - Base) /\ Base + 0 = Base
    OBVIOUS
  <2>2. Core'
    BY <1>1, <1>2, <1>3, <1>4, <2>1, MovesOn
  <2>3. Base' = Base
    BY <1>4 DEF Base
  <2> QED
    BY <1>4, <2>2, <2>3 DEF StreamOK
<1>5. CASE \E n \in 1..(Acked - Base) :
               /\ read' = read \o [i \in 1..n |-> Base - 1 + i]
               /\ held' = held \ {Piece(k) : k \in Base..(Base + n - 1)}
               /\ start' = Number(Base + n)
  <2>1. PICK n \in 1..(Acked - Base) :
               /\ read' = read \o [i \in 1..n |-> Base - 1 + i]
               /\ held' = held \ {Piece(k) : k \in Base..(Base + n - 1)}
               /\ start' = Number(Base + n)
    BY <1>5
  <2>2. n \in Int /\ 1 <= n /\ Base + n <= Acked /\ n \in 0..(Acked - Base)
    OBVIOUS
  <2>3. \A j, k : Piece(j) = Piece(k) => j = k
    <3>1. \A j : Piece(j).data = j
      BY DEF Piece
    <3> QED
      BY <3>1
  <2>4. ASSUME NEW h
        PROVE  h \in held' <=> h \in held /\ \E k \in (Base + n)..Newest : h = Piece(k)
    <3>1. ASSUME h \in held' PROVE h \in held /\ \E k \in (Base + n)..Newest : h = Piece(k)
      <4>1. PICK k \in Base..Newest : h = Piece(k)
        BY <1>3, <2>1, <3>1
      <4>2. k \notin Base..(Base + n - 1)
        BY <2>1, <3>1, <4>1
      <4>3. k \in (Base + n)..Newest
        BY <2>2, <4>2
      <4>4. h \in held
        BY <2>1, <3>1
      <4> QED
        BY <4>1, <4>3, <4>4
    <3>2. ASSUME h \in held, NEW k \in (Base + n)..Newest, h = Piece(k) PROVE h \in held'
      <4>1. k \notin Base..(Base + n - 1)
        BY <2>2
      <4> QED
        BY <2>1, <2>3, <3>2, <4>1
    <3> QED
      BY <3>1, <3>2
  <2>5. Core' /\ Base' = Base + n
    BY <1>1, <1>2, <2>1, <2>2, <2>4, MovesOn
  <2>6. ASSUME StreamOK PROVE read' = [i \in 1..(Base + n - 1) |-> i]
    <3>1. Base - 1 \in Nat /\ n \in Nat /\ Base - 1 + n = Base + n - 1
      BY <2>2
    <3>2. [i \in 1..(Base - 1) |-> i] \o [i \in 1..n |-> Base - 1 + i] = [i \in 1..(Base - 1 + n) |-> i]
      BY <3>1, Appended
    <3> QED
      BY <2>1, <2>6, <3>1, <3>2 DEF StreamOK
  <2> QED
    BY <2>5, <2>6 DEF StreamOK
<1> QED
  BY <1>4, <1>5, recvIs
-----------------------------------------------------------------------------
(* Packets arrive.                                                           *)

\* What a packet says, by its type.
LEMMA Says ==
    ASSUME NEW m, Honest(m)
    PROVE  /\ m.type = "data" => \E k \in 1..(next - 1) : m = Data(Number(k), k)
           /\ m.type = "ack" => \E k \in 1..Acked, w \in Int : m = Ack(Number(k), w)
           /\ m.type = "liteack" => \E k \in 1..(Newest + 1) : Present(k) /\ m = LiteAck(Number(k))
           /\ m.type = "ackack" => \E k \in 1..Acked : m = AckAck(Number(k))
           /\ m.type = "nak" => \E a \in 1..(next - 1) : \E b \in a..(next - 1) :
                                    m = Nak(Number(a), Number(b))
<1>1. /\ \A s, d : Data(s, d).type = "data"
      /\ \A s, d : Ack(s, d).type = "ack"
      /\ \A s : LiteAck(s).type = "liteack"
      /\ \A s : AckAck(s).type = "ackack"
      /\ \A s, d : Nak(s, d).type = "nak"
      /\ Shutdown.type = "shutdown" /\ PeerError.type = "error"
  BY DEF Data, Ack, LiteAck, AckAck, Nak, Shutdown, PeerError
<1> QED
  BY <1>1 DEF Honest

\* What reaches the sender acknowledges, or asks again for what is not acknowledged.
LEMMA ReportsCore ==
    ASSUME Core, NEW m \in net, NEW rest, rest \subseteq net,
           \/ ProcessAck(m, rest) \/ ProcessLiteAck(m, rest) \/ ProcessNak(m, rest)
           \/ ProcessPeerError(m, rest)
    PROVE  Core'
<1> USE PlacesAre
<1>0. /\ UNCHANGED <<added, next, sndCurr, taken, receiver>>
      /\ sndState' = sndState \/ sndState' = "broken"
  BY DEF ProcessAck, ProcessLiteAck, ProcessNak, ProcessPeerError, Broken, sndBuffer, sndWindow,
         sndCaller
<1>1. /\ \A k \in 0..(Packets + 1) : k \in Places
      /\ sndCurr = Number(next - 1) /\ IncSeq(sndCurr) = Number(next)
      /\ sndDataAck = Number(first) /\ sndLastAck = Number(LastAck) /\ Present(LastAck)
      /\ \A s \in sndLoss : \E k \in first..(next - 1) : s = Number(k)
      /\ window \in Int /\ Honest(m)
  <2>1. next - 1 \in 0..Packets /\ next - 1 + 1 = next
    OBVIOUS
  <2> QED
    BY <2>1, InPlaces, Counting DEF Core, SenderOK, Types
<1>2. /\ first' \in Int /\ 1 <= first' /\ first' <= next /\ first' <= Acked
      /\ sndDataAck' = Number(first') /\ window' \in Int
      /\ \E l \in Places : sndLastAck' = Number(l) /\ Present(l) /\ first' <= l
      /\ \A s \in sndLoss' : \E k \in first'..(next - 1) : s = Number(k)
      /\ \A x \in net' : x \in net \/ \E k \in 1..Acked : x = AckAck(Number(k))
  <2>1. CASE ProcessAck(m, rest)
    <3>1. PICK k \in 1..Acked, w \in Int : m = Ack(Number(k), w)
      BY <1>1, <2>1, Says DEF ProcessAck
    <3>2. k \in Int /\ k \in Places /\ next \in Places /\ first \in Places /\ LastAck \in Places
      BY <1>1
    <3>3. m.ack = Number(k) /\ m.window = w
      BY <3>1 DEF Ack
    <3>4. ~After(m.ack, IncSeq(sndCurr))
      BY <1>1, <3>2, <3>3, Apart DEF After
    <3>5. SeqOff(sndDataAck, m.ack) = k - first /\ (SeqCmp(m.ack, sndLastAck) >= 0 <=> k >= LastAck)
      BY <1>1, <3>2, <3>3, Apart
    <3>6. Present(k)
      <4>1. Present(Acked)
        BY DEF Core, ReceiverOK
      <4>2. \A j : j \in 1..(k - 1) => j \in 1..(Acked - 1)
        BY <3>2, Wider
      <4> QED
        BY <3>2, <4>1, <4>2 DEF Present
    <3>7. /\ window' = IF k >= LastAck THEN w ELSE window
          /\ sndLastAck' = IF k >= LastAck THEN Number(k) ELSE sndLastAck
          /\ IF k - first <= 0 THEN UNCHANGED <<first, sndDataAck, sndLoss>>
             ELSE /\ first' = first + (k - first) /\ sndDataAck' = Number(k)
                  /\ sndLoss' = {s \in sndLoss : SeqOff(Number(k), s) >= 0}
      BY <2>1, <3>3, <3>4, <3>5 DEF ProcessAck
    <3>8. window' \in Int
      BY <1>1, <3>7
    <3>9. \A x \in net' : x \in net \/ \E j \in 1..Acked : x = AckAck(Number(j))
      BY <2>1, <3>3 DEF ProcessAck
    <3>10. CASE k <= first
      <4>1. UNCHANGED <<first, sndDataAck, sndLoss>>
        BY <3>2, <3>7, <3>10
      <4>2. \E l \in Places : sndLastAck' = Number(l) /\ Present(l) /\ first <= l
        BY <1>1, <3>2, <3>6, <3>7
      <4> QED
        BY <1>1, <3>8, <3>9, <4>1, <4>2
    <3>11. CASE k > first
      <4>1. /\ first' = k /\ sndDataAck' = Number(k)
            /\ sndLoss' = {s \in sndLoss : SeqOff(Number(k), s) >= 0}
        BY <3>2, <3>7, <3>11
      <4>2. ASSUME NEW s \in sndLoss' PROVE \E j \in k..(next - 1) : s = Number(j)
        <5>1. PICK j \in first..(next - 1) : s = Number(j)
          BY <1>1, <4>1
        <5>2. j \in Int /\ j \in Places
          BY <1>1
        <5>3. j - k >= 0
          BY <3>2, <4>1, <5>1, <5>2, Apart
        <5> QED
          BY <3>2, <5>1, <5>2, <5>3
      <4>3. \E l \in Places : sndLastAck' = Number(l) /\ Present(l) /\ k <= l
        BY <1>1, <3>2, <3>6, <3>7
      <4>4. 1 <= k /\ k <= next /\ k <= Acked
        BY <3>2
      <4> QED
        BY <3>2, <3>8, <3>9, <4>1, <4>2, <4>3, <4>4
    <3> QED
      BY <3>2, <3>10, <3>11
  <2>2. CASE ProcessLiteAck(m, rest)
    <3>1. PICK k \in 1..(Newest + 1) : Present(k) /\ m = LiteAck(Number(k))
      BY <1>1, <2>2, Says DEF ProcessLiteAck
    <3>2. k \in Int /\ k \in Places /\ LastAck \in Places /\ m.ack = Number(k)
      BY <1>1, <3>1 DEF LiteAck
    <3>3. SeqOff(sndLastAck, m.ack) = k - LastAck /\ (SeqCmp(m.ack, sndLastAck) >= 0 <=> k >= LastAck)
      BY <1>1, <3>2, Apart
    <3>4. /\ UNCHANGED <<first, sndDataAck, sndLoss>> /\ net' = rest
          /\ IF k >= LastAck THEN window' = window - (k - LastAck) /\ sndLastAck' = Number(k)
             ELSE UNCHANGED <<window, sndLastAck>>
      BY <2>2, <3>2, <3>3 DEF ProcessLiteAck, sndBuffer
    <3>5. \E l \in Places : sndLastAck' = Number(l) /\ Present(l) /\ first <= l
      BY <1>1, <3>1, <3>2, <3>4
    <3>6. window' \in Int
      BY <1>1, <3>2, <3>4
    <3> QED
      BY <1>1, <3>4, <3>5, <3>6
  <2>3. CASE ProcessNak(m, rest)
    <3>1. PICK a \in 1..(next - 1) : \E b \in a..(next - 1) : m = Nak(Number(a), Number(b))
      BY <1>1, <2>3, Says DEF ProcessNak
    <3>2. PICK b \in a..(next - 1) : m = Nak(Number(a), Number(b))
      BY <3>1
    <3>3. /\ a \in Int /\ b \in Int /\ a \in Places /\ b \in Places /\ next - 1 \in Places
          /\ a \in 1..(Packets + 1) /\ LastAck \in 1..(Packets + 1) /\ LastAck \in Places
          /\ m.from = Number(a) /\ m.to = Number(b)
      BY <1>1, <3>2 DEF Nak
    <3>4. ~After(m.to, sndCurr) /\ (SeqCmp(m.from, sndLastAck) >= 0 <=> a >= LastAck)
      BY <1>1, <3>3, Apart DEF After
    <3>5. /\ UNCHANGED <<first, sndDataAck, sndLastAck, window>> /\ net' = rest
          /\ \/ sndLoss' = sndLoss
             \/ a >= LastAck /\ sndLoss' = sndLoss \cup Between(Number(a), Number(b))
             \/ sndLoss' = sndLoss \cup Between(Number(LastAck), Number(b))
      BY <1>1, <2>3, <3>3, <3>4 DEF ProcessNak, sndBuffer
    <3>6. \A j \in LastAck..b : j \in first..(next - 1)
      BY <3>3
    <3>7. a >= LastAck => \A j \in a..b : j \in first..(next - 1)
      BY <3>3
    <3>8. \A s \in sndLoss' : \E k \in first..(next - 1) : s = Number(k)
      <4>1. CASE sndLoss' = sndLoss
        BY <1>1, <4>1
      <4>2. CASE a >= LastAck /\ sndLoss' = sndLoss \cup Between(Number(a), Number(b))
        <5>1. \A s \in Between(Number(a), Number(b)) : \E k \in a..b : s = Number(k)
          BY <3>3, BetweenIs
        <5> QED
          BY <1>1, <3>7, <4>2, <5>1
      <4>3. CASE sndLoss' = sndLoss \cup Between(Number(LastAck), Number(b))
        <5>1. \A s \in Between(Number(LastAck), Number(b)) : \E k \in LastAck..b : s = Number(k)
          BY <3>3, BetweenIs
        <5> QED
          BY <1>1, <3>6, <4>3, <5>1
      <4> QED
        BY <3>5, <4>1, <4>2, <4>3
    <3> QED
      BY <1>1, <3>3, <3>5, <3>8
  <2>4. CASE ProcessPeerError(m, rest)
    <3>1. UNCHANGED <<first, sndDataAck, sndLastAck, window, sndLoss>> /\ net' = rest
      BY <2>4 DEF ProcessPeerError, sndBuffer, sndWindow
    <3>2. LastAck \in Places
      BY <1>1
    <3> QED
      BY <1>1, <3>1, <3>2
  <2> QED
    BY <2>1, <2>2, <2>3, <2>4
<1>3. Types'
  <2>1. {listed', sndBlocked', peerHealth'} \subseteq BOOLEAN
    BY Zenon DEF ProcessAck, ProcessLiteAck, ProcessNak, ProcessPeerError, Broken, sndBuffer,
                 sndWindow, sndCaller, Core, Types
  <2>2. {rcvBlocked', rcvFailed'} \subseteq BOOLEAN /\ UNCHANGED rcvState
    BY <1>0, Zenon DEF receiver, rcvCaller, Core, Types
  <2>3. {listed', sndBlocked', peerHealth', rcvBlocked', rcvFailed'} \subseteq BOOLEAN
    BY <2>1, <2>2, Zenon
  <2>4. next' \in 1..(added' + 1) /\ first' \in 1..next'
    BY <1>0, <1>2
  <2> QED
    BY <1>0, <1>2, <2>2, <2>3, <2>4 DEF Core, Types
<1>4. ReceiverOK' /\ Forward /\ Acked' = Acked /\ \A k : Present(k)' <=> Present(k)
  <2>1. sndState' = "closed" => Acked = added' + 1
    BY <1>0 DEF Core, ReceiverOK
  <2> QED
    BY <1>0, <1>2, <2>1, RcvFrame
<1>5. SenderOK'
  <2>1. PICK l \in Places : sndLastAck' = Number(l) /\ Present(l) /\ first' <= l
    BY <1>2
  <2>2. LastAck' = l
    BY <2>1, PlaceIs DEF LastAck
  <2>3. Present(LastAck)'
    <3>1. Present(l)'
      BY <1>4, <2>1
    <3> QED
      BY <2>2, <3>1 DEF Present
  <2>5. taken' = None \/ \E k \in 1..(next' - 1) : taken' = Number(k)
    BY <1>0 DEF Core, SenderOK
  <2>6. sndCurr' = Number(next' - 1) /\ \A s \in sndLoss' : \E k \in first'..(next' - 1) : s = Number(k)
    BY <1>0, <1>1, <1>2
  <2> QED
    BY <1>2, <2>1, <2>2, <2>3, <2>5, <2>6 DEF SenderOK
<1>6. \A x \in net' : x \in net \/ Honest(x)'
  <2> SUFFICES ASSUME NEW x \in net', x \notin net PROVE Honest(x)'
    OBVIOUS
  <2>1. PICK k \in 1..Acked : x = AckAck(Number(k))
    BY <1>2
  <2>2. k \in 1..(Acked')
    BY <1>4
  <2> QED
    BY <2>1, <2>2 DEF Honest
<1> QED
  BY <1>3, <1>4, <1>5, <1>6, NetHonest DEF Core

\* What reaches the receiver fills a place, tells of those that are missing, or ends the
\* connection.
LEMMA DataCore ==
    ASSUME Core, NEW m \in net, NEW rest, rest \subseteq net, ProcessData(m, rest)
    PROVE  Core'
<1> USE PlacesAre
<1>1. PICK k \in 1..(next - 1) : m = Data(Number(k), k)
  BY Says DEF Core, ProcessData
<1>2. /\ \A j \in 0..(Packets + 1) : j \in Places
      /\ k \in Int /\ k \in Places /\ Acked \in Places /\ Newest \in Places /\ Newest + 1 \in Places
      /\ m.seq = Number(k) /\ m.data = k
  BY <1>1, InPlaces DEF Data
<1>3. /\ rcvCurr = Number(Newest) /\ IncSeq(rcvCurr) = Number(Newest + 1)
      /\ rcvLastAck = Number(Acked) /\ start = Number(Base) /\ Present(Acked)
      /\ rcvAckAck = Number(Heard) /\ Heard \in 1..Acked
      /\ \A s \in rcvLoss : \E j \in 1..Newest : s = Number(j)
      /\ \A h \in held : \E j \in Base..Newest : h = Piece(j)
      /\ \A j \in Base..Newest : Piece(j) \in held <=> Number(j) \notin rcvLoss
      /\ Newest = Base - 1 \/ Newest + 2 <= Base + RcvBufSize
      /\ sndState = "closed" => Acked = added + 1
  <2>1. Newest \in 0..Packets
    OBVIOUS
  <2> QED
    BY <2>1, Counting DEF Core, ReceiverOK
<1>4. UNCHANGED <<sender, start, rcvLastAck, rcvAckAck, rcvState, rcvBlocked, rcvFailed, read>>
  BY DEF ProcessData, rcvCaller
<1>5. /\ Acked' = Acked /\ Heard' = Heard /\ Base' = Base
      /\ UNCHANGED <<added, first, next, sndState>>
  BY <1>4 DEF Acked, Heard, Base, sender, sndBuffer, sndCaller
<1>6. Types'
  <2>1. rcvState' \in {"connected", "broken"} /\ {rcvBlocked', rcvFailed'} \subseteq BOOLEAN
    BY <1>4, Zenon DEF Core, Types
  <2> QED
    BY <1>4, <2>1, RcvTypes
<1>7. CASE UNCHANGED <<held, rcvCurr, rcvLoss>> /\ net' = rest
  <2>1. Newest' = Newest
    BY <1>7 DEF Newest
  <2>2. \A q : Present(q)' <=> Present(q)
    BY <1>7, <2>1 DEF Present
  <2>3. Forward
    BY <1>5, <2>1, <2>2 DEF Forward
  <2>4. Present(Acked)'
    <3>1. PICK c \in Int : c = Acked
      OBVIOUS
    <3>2. Present(c)'
      BY <1>3, <2>2, <3>1
    <3> QED
      BY <1>5, <3>1, <3>2 DEF Present
  <2>5. ReceiverOK'
    BY <1>3, <1>4, <1>5, <1>7, <2>1, <2>4 DEF Core, ReceiverOK
  <2> QED
    BY <1>4, <1>6, <1>7, <2>3, <2>5, SndFrame, NetHonest DEF Core
<1>8. CASE ~(UNCHANGED <<held, rcvCurr, rcvLoss>> /\ net' = rest)
  <2> DEFINE gap == k > Newest + 1
  <2>1. /\ SeqOff(rcvLastAck, m.seq) = k - Acked
        /\ After(m.seq, IncSeq(rcvCurr)) <=> gap
        /\ After(m.seq, rcvCurr) <=> k > Newest
    <3>1. SeqOff(rcvLastAck, m.seq) = k - Acked
      BY <1>2, <1>3, Apart
    <3>2. SeqCmp(m.seq, IncSeq(rcvCurr)) > 0 <=> k > Newest + 1
      <4>1. SeqCmp(Number(k), Number(Newest + 1)) > 0 <=> k > Newest + 1
        BY <1>2, Apart
      <4> QED
        BY <1>2, <1>3, <4>1
    <3>3. SeqCmp(m.seq, rcvCurr) > 0 <=> k > Newest
      BY <1>2, <1>3, Apart
    <3> QED
      BY <3>1, <3>2, <3>3, Zenon DEF After
  <2>2. /\ k >= Acked /\ k + 2 <= Base + RcvBufSize /\ \A h \in held : h.seq # Number(k)
        /\ held' = held \cup {[seq |-> m.seq, data |-> m.data]}
        /\ rcvCurr' = IF k > Newest THEN Number(k) ELSE rcvCurr
        /\ rcvLoss' = IF gap THEN rcvLoss \cup Between(IncSeq(rcvCurr), DecSeq(m.seq))
                      ELSE rcvLoss \ {Number(k)}
        /\ net' = rest \cup IF gap THEN {Nak(IncSeq(rcvCurr), DecSeq(m.seq))} ELSE {}
    <3>1. LET offset == SeqOff(rcvLastAck, m.seq)
          IN  ~(offset < 0 \/ offset >= AvailBufSize \/ \E h \in held : h.seq = m.seq)
      BY <1>8 DEF ProcessData
    <3>2. k >= Acked /\ k + 2 <= Base + RcvBufSize
      <4>1. RcvDataSize = Acked - Base
        <5>1. Base \in Places
          BY <1>2
        <5> QED
          BY <1>2, <1>3, <5>1, Apart DEF RcvDataSize
      <4>2. ~(k - Acked < 0) /\ ~(k - Acked >= AvailBufSize) /\ AvailBufSize = RcvBufSize - (Acked - Base) - 1
        BY <2>1, <3>1, <4>1 DEF AvailBufSize
      <4> QED
        BY <1>2, <4>2, Bounds
    <3>3. \A h \in held : h.seq # Number(k)
      BY <1>2, <3>1
    <3> HIDE DEF gap
    <3> QED
      BY <1>2, <2>1, <3>1, <3>2, <3>3 DEF ProcessData
  <2>3. held' = held \cup {Piece(k)}
    BY <1>2, <2>2 DEF Piece
  <2>4. Newest' = (IF k > Newest THEN k ELSE Newest) /\ rcvCurr' = Number(Newest')
    BY <1>2, <1>3, <2>2, PlaceIs DEF Newest
  <2>5. gap => /\ k - 1 \in 1..Packets /\ DecSeq(m.seq) = Number(k - 1)
               /\ k - 1 \in Places /\ Newest + 1 \in 1..(Packets + 1)
    <3> SUFFICES ASSUME gap PROVE /\ k - 1 \in 1..Packets /\ DecSeq(m.seq) = Number(k - 1)
                                  /\ k - 1 \in Places /\ Newest + 1 \in 1..(Packets + 1)
      OBVIOUS
    <3>1. k - 1 \in 1..Packets /\ k - 1 \in 0..Packets /\ k - 1 > 0 /\ k - 1 + 1 = k
      BY <1>2
    <3>2. DecSeq(Number(k - 1 + 1)) = Number(k - 1)
      BY <3>1, Counting
    <3> QED
      BY <1>2, <3>1, <3>2
  <2>6. \A s : s \in rcvLoss' <=> \/ s \in rcvLoss /\ s # Number(k)
                                  \/ \E j \in (Newest + 1)..(k - 1) : s = Number(j)
    <3>1. CASE gap
      <4>1. \A s : s \in Between(IncSeq(rcvCurr), DecSeq(m.seq)) <=>
                       \E j \in (Newest + 1)..(k - 1) : s = Number(j)
        <5>1. \A s : s \in Between(Number(Newest + 1), Number(k - 1)) <=>
                         \E j \in (Newest + 1)..(k - 1) : s = Number(j)
          BY <2>5, <3>1, BetweenIs
        <5> QED
          BY <1>3, <2>5, <3>1, <5>1
      <4>2. Number(k) \notin rcvLoss
        <5>1. \A j \in 1..Newest : j \in Places /\ j # k
          BY <1>2, <3>1
        <5> QED
          BY <1>2, <1>3, <5>1, Apart
      <4> HIDE DEF gap
      <4> QED
        BY <2>2, <3>1, <4>1, <4>2
    <3>2. CASE ~gap
      <4>1. ~\E j \in (Newest + 1)..(k - 1) : TRUE
        BY <1>2, <3>2
      <4> HIDE DEF gap
      <4> QED
        BY <2>2, <3>2, <4>1
    <3> QED
      BY <3>1, <3>2
  <2>7. /\ Newest' \in Int /\ Newest <= Newest' /\ k <= Newest' /\ Newest' <= next - 1
        /\ \A j \in 0..Newest' : j \in Places
        /\ \A j \in Int : j <= Newest' => j <= Newest \/ j = k \/ j \in (Newest + 1)..(k - 1)
        /\ \A j \in (Newest + 1)..(k - 1) : j <= Newest' /\ j # k
    BY <1>2, <2>4
  <2> HIDE DEF gap
  <2>8. \A i, j : i \in 1..Newest' /\ j \in 1..Newest' /\ Number(i) = Number(j) => i = j
    <3>1. \A j : j \in 1..Newest' => j \in Places
      BY <2>7
    <3> QED
      BY <3>1, Apart
  <2>9. \A j \in 1..Newest' : Number(j) \in rcvLoss' <=>
            j # k /\ (Number(j) \in rcvLoss \/ j \in (Newest + 1)..(k - 1))
    <3>1. \A j \in (Newest + 1)..(k - 1) : j \in 1..Newest'
      BY <2>7
    <3>2. k \in 1..Newest'
      BY <1>2, <2>7
    <3> QED
      BY <2>6, <2>7, <2>8, <3>1, <3>2
  <2>10. \A q \in Int : Present(q) => Present(q)'
    <3> SUFFICES ASSUME NEW q \in Int, Present(q) PROVE Present(q)'
      OBVIOUS
    <3>1. q \in 1..(Newest + 1) /\ \A j \in 1..(q - 1) : Number(j) \notin rcvLoss
      BY DEF Present
    <3>2. q \in 1..(Newest' + 1)
      <4>1. Newest + 1 \in Int /\ Newest' + 1 \in Int /\ Newest + 1 <= Newest' + 1
        BY <2>7
      <4> QED
        BY <3>1, <4>1, Wider
    <3>3. ASSUME NEW j \in 1..(q - 1) PROVE Number(j) \notin rcvLoss'
      <4>1. j \in 1..Newest' /\ j \notin (Newest + 1)..(k - 1)
        BY <2>7, <3>1
      <4> QED
        BY <2>9, <3>1, <4>1
    <3> QED
      BY <3>2, <3>3 DEF Present
  <2>11. Forward
    BY <1>5, <2>10 DEF Forward
  <2>12. Present(Acked)'
    <3>1. PICK c \in Int : c = Acked
      OBVIOUS
    <3>2. Present(c)'
      BY <1>3, <2>10, <3>1
    <3> QED
      BY <1>5, <3>1, <3>2 DEF Present
  <2>13. \A s \in rcvLoss' : \E j \in 1..Newest' : s = Number(j)
    <3> SUFFICES ASSUME NEW s \in rcvLoss' PROVE \E j \in 1..Newest' : s = Number(j)
      OBVIOUS
    <3>1. CASE \E j \in 1..Newest : s = Number(j)
      <4>1. \A j : j \in 1..Newest => j \in 1..Newest'
        BY <2>7, Wider
      <4> QED
        BY <3>1, <4>1
    <3>2. CASE \E j \in (Newest + 1)..(k - 1) : s = Number(j)
      <4>1. \A j \in (Newest + 1)..(k - 1) : j \in 1..Newest'
        BY <2>7
      <4> QED
        BY <3>2, <4>1
    <3> QED
      BY <1>3, <2>6, <3>1, <3>2
  <2>14. \A h \in held' : \E j \in Base..Newest' : h = Piece(j)
    <3>1. k \in Base..Newest'
      BY <1>2, <2>2, <2>7
    <3>2. \A j \in Base..Newest : j \in Base..Newest'
      BY <2>7
    <3> QED
      BY <1>3, <2>3, <3>1, <3>2
  <2>15. ASSUME NEW j \in Base..Newest' PROVE Piece(j) \in held' <=> Number(j) \notin rcvLoss'
    <3>0. j \in Int /\ j \in 1..Newest' /\ \A i : Piece(j) = Piece(i) => j = i
      <4>1. \A i : Piece(i).data = i
        BY DEF Piece
      <4> QED
        BY <2>7, <4>1
    <3>1. CASE j = k
      BY <2>3, <2>9, <3>0, <3>1
    <3>2. CASE j # k /\ j <= Newest
      <4>1. j \in Base..Newest /\ j \notin (Newest + 1)..(k - 1)
        BY <3>0, <3>2
      <4>2. Piece(j) \in held' <=> Piece(j) \in held
        BY <2>3, <3>0, <3>2
      <4> QED
        BY <1>3, <2>9, <3>0, <3>2, <4>1, <4>2
    <3>3. CASE j \in (Newest + 1)..(k - 1)
      <4>1. j # k /\ j \notin Base..Newest
        BY <1>2, <3>3
      <4>2. Piece(j) \notin held'
        BY <1>3, <2>3, <3>0, <4>1
      <4> QED
        BY <2>9, <3>0, <3>3, <4>1, <4>2
    <3> QED
      BY <2>7, <3>0, <3>1, <3>2, <3>3
  <2>16. ReceiverOK'
    <3>1. Newest' \in 0..(next' - 1)
      BY <1>5, <2>7
    <3>2. \A j \in Base'..Newest' : Piece(j) \in held' <=> Number(j) \notin rcvLoss'
      BY <1>5, <2>15
    <3>3. \A h \in held' : \E j \in Base'..Newest' : h = Piece(j)
      BY <1>5, <2>14
    <3>4. Newest' = Base' - 1 \/ Newest' + 2 <= Base' + RcvBufSize
      BY <1>3, <1>5, <2>2, <2>4
    <3> QED
      BY <1>3, <1>4, <1>5, <2>4, <2>12, <2>13, <3>1, <3>2, <3>3, <3>4 DEF ReceiverOK
  <2>17. \A x \in net' : x \in net \/ Honest(x)'
    <3>1. CASE gap
      <4>1. net' = rest \cup {Nak(Number(Newest + 1), Number(k - 1))}
        BY <1>3, <2>2, <2>5, <3>1
      <4>2. Newest + 1 \in 1..(next' - 1) /\ k - 1 \in (Newest + 1)..(next' - 1)
        BY <1>2, <1>5, <3>1 DEF gap
      <4> QED
        BY <4>1, <4>2 DEF Honest
    <3>2. CASE ~gap
      BY <2>2, <3>2
    <3> QED
      BY <3>1, <3>2
  <2> QED
    BY <1>4, <1>6, <2>11, <2>16, <2>17, SndFrame, NetHonest DEF Core
<1> QED
  BY <1>7, <1>8

LEMMA NewsCore ==
    ASSUME Core, NEW m \in net, NEW rest, rest \subseteq net,
           ProcessAckAck(m, rest) \/ ProcessShutdown(m, rest)
    PROVE  Core'
<1> USE PlacesAre
<1>1. UNCHANGED <<sender, held, start, rcvLastAck, rcvCurr, rcvLoss, rcvFailed, read>> /\ net' = rest
  BY DEF ProcessAckAck, ProcessShutdown, rcvWindow, rcvCaller
<1>2. Types'
  <2>1. rcvState' \in {"connected", "broken"} /\ {rcvBlocked', rcvFailed'} \subseteq BOOLEAN
    BY Zenon DEF ProcessAckAck, ProcessShutdown, rcvCaller, Core, Types
  <2> QED
    BY <1>1, <2>1, RcvTypes
<1>3. /\ Newest' = Newest /\ Acked' = Acked /\ Base' = Base
      /\ UNCHANGED <<added, first, next, sndState>>
  BY <1>1 DEF Newest, Acked, Base, sender, sndBuffer, sndCaller
<1>4. \A q : Present(q)' <=> Present(q)
  BY <1>1, <1>3 DEF Present
<1>5. Forward
  BY <1>3, <1>4 DEF Forward
<1>6. Present(Acked)'
  <2>1. PICK c \in Int : c = Acked
    OBVIOUS
  <2>2. Present(c)'
    BY <1>4, <2>1 DEF Core, ReceiverOK
  <2> QED
    BY <1>3, <2>1, <2>2 DEF Present
<1>7. Heard' \in 1..Acked /\ rcvAckAck' = Number(Heard')
  <2>0. rcvAckAck = Number(Heard) /\ Heard \in 1..Acked
    BY DEF Core, ReceiverOK
  <2>1. CASE rcvAckAck' = rcvAckAck
    <3>1. Heard' = Heard
      BY <2>1 DEF Heard
    <3> QED
      BY <2>0, <2>1, <3>1
  <2>2. CASE ProcessAckAck(m, rest) /\ rcvAckAck' # rcvAckAck
    <3>1. PICK k \in 1..Acked : m = AckAck(Number(k))
      BY <2>2, Says DEF Core, ProcessAckAck
    <3>2. rcvAckAck' = Number(k) /\ k \in Places
      BY <2>2, <3>1, InPlaces DEF ProcessAckAck, AckAck
    <3>3. Heard' = k
      BY <3>2, PlaceIs DEF Heard
    <3> QED
      BY <3>2, <3>3
  <2> QED
    BY <2>1, <2>2 DEF ProcessShutdown, rcvWindow
<1>8. ReceiverOK'
  BY <1>1, <1>3, <1>6, <1>7 DEF Core, ReceiverOK
<1> QED
  BY <1>1, <1>2, <1>5, <1>8, SndFrame, NetHonest DEF Core
-----------------------------------------------------------------------------
(* The bound on the network, and the invariant as a whole.                   *)

LEMMA NetStays ==
    ASSUME NetFits, Next \/ sendmsg \/ recvmsg
    PROVE  NetFits'
<1>1. IsFiniteSet(net) /\ Cardinality(net) \in Nat /\ Cardinality(net) <= NetSize /\ NetSize \in Nat
  BY FS_CardinalityType, Bounds DEF NetFits
<1>2. CASE net' = net
  BY <1>2 DEF NetFits
<1>3. CASE \E x : Put(x) /\ Sent(x)
  <2>1. PICK x : Put(x) /\ Sent(x)
    BY <1>3
  <2>2. /\ IsFiniteSet(net \cup {x})
        /\ Cardinality(net \cup {x}) = IF x \in net THEN Cardinality(net) ELSE Cardinality(net) + 1
    BY <1>1, FS_AddElement
  <2> QED
    BY <1>1, <2>1, <2>2 DEF Put, Sent, NetFits
<1>4. CASE \E m \in net : \E S : (S = {} \/ \E x : S = {x}) /\ net' = (net \ {m}) \cup S
  <2>1. PICK m \in net : \E S : (S = {} \/ \E x : S = {x}) /\ net' = (net \ {m}) \cup S
    BY <1>4
  <2> DEFINE others == net \ {m}
  <2>2. IsFiniteSet(others) /\ Cardinality(others) = Cardinality(net) - 1
    BY <1>1, FS_RemoveElement
  <2>3. net' = others \/ \E x : net' = others \cup {x}
    BY <2>1
  <2> HIDE DEF others
  <2>4. CASE net' = others
    BY <1>1, <2>2, <2>4 DEF NetFits
  <2>5. CASE \E x : net' = others \cup {x}
    <3>1. PICK x : net' = others \cup {x}
      BY <2>5
    <3>2. /\ IsFiniteSet(others \cup {x})
          /\ Cardinality(others \cup {x}) = IF x \in others THEN Cardinality(others)
                                            ELSE Cardinality(others) + 1
      BY <2>2, FS_AddElement
    <3> QED
      BY <1>1, <2>2, <3>1, <3>2 DEF NetFits
  <2> QED
    BY <2>3, <2>4, <2>5
<1>5. CASE Cardinality(net') <= NetSize /\ \E S : (S = {} \/ \E x : S = {x}) /\ net' = net \cup S
  <2>1. PICK S : (S = {} \/ \E x : S = {x}) /\ net' = net \cup S
    BY <1>5
  <2>2. IsFiniteSet(net \cup S)
    <3>1. CASE S = {}
      <4>1. net \cup S = net
        BY <3>1
      <4> QED
        BY <1>1, <4>1
    <3>2. CASE \E x : S = {x}
      <4>1. PICK x : S = {x}
        BY <3>2
      <4> QED
        BY <1>1, <4>1, FS_AddElement
    <3> QED
      BY <2>1, <3>1, <3>2
  <2> QED
    BY <1>5, <2>1, <2>2 DEF NetFits
<1>6. ASSUME NEW m \in net, NEW rest, Receive(m, rest)
      PROVE  \E S : (S = {} \/ \E x : S = {x}) /\ net' = rest \cup S
  <2>1. CASE ProcessAck(m, rest)
    BY <2>1, Zenon DEF ProcessAck
  <2>2. CASE ProcessData(m, rest)
    <3>1. \/ net' = rest
          \/ net' = rest \cup {Nak(IncSeq(rcvCurr), DecSeq(m.seq))}
          \/ net' = rest \cup {}
      BY <2>2, Zenon DEF ProcessData
    <3>2. net' = rest \cup {} \/ \E x : net' = rest \cup {x}
      BY <3>1
    <3> QED
      BY <3>2, Zenon
  <2>3. CASE net' = rest
    BY <2>3
  <2> QED
    BY <1>6, <2>1, <2>2, <2>3, Zenon DEF Receive, ProcessLiteAck, ProcessNak, ProcessPeerError,
                                       ProcessAckAck, ProcessShutdown
<1>7. CASE \E m \in net : ReceiveLast(m) \/ ReceiveCopy(m) \/ Lose(m)
  <2>1. PICK m \in net : ReceiveLast(m) \/ ReceiveCopy(m) \/ Lose(m)
    BY <1>7
  <2>2. CASE ReceiveLast(m)
    BY <1>4, <1>6, <2>2 DEF ReceiveLast
  <2>3. CASE ReceiveCopy(m)
    BY <1>5, <1>6, <2>3 DEF ReceiveCopy
  <2>4. CASE Lose(m)
    <3>1. net' = (net \ {m}) \cup {}
      BY <2>4 DEF Lose
    <3> QED
      BY <1>4, <3>1
  <2> QED
    BY <2>1, <2>2, <2>3, <2>4
<1>8. CASE \/ send \/ close \/ LingerDone \/ LingerExpires
           \/ TakeLost \/ SendLost \/ SendNew \/ Expire \/ SndBreaks
           \/ SendAck \/ SendLiteAck \/ RcvBreaks \/ recv \/ RecvFails \/ sendmsg \/ recvmsg
  <2>1. net' = net \/ \E x : Put(x) /\ Sent(x)
    BY <1>8 DEF send, sendmsg, recvmsg, close, LingerDone, LingerExpires, Closed, TakeLost, SendLost, SendNew, Expire,
                SndBreaks, SendAck, SendLiteAck, RcvBreaks, recv, RecvFails
  <2> QED
    BY <1>2, <1>3, <2>1
<1> QED
  BY <1>7, <1>8 DEF Next

LEMMA NextCore ==
    ASSUME Core, Next
    PROVE  Core'
<1>1. ASSUME NEW m \in net, NEW rest, rest \subseteq net, Receive(m, rest) PROVE Core'
  BY <1>1, ReportsCore, DataCore, NewsCore, Zenon DEF Receive
<1>2. ASSUME NEW m \in net, Lose(m) PROVE Core'
  <2>1. /\ UNCHANGED <<added, first, next, sndState, sender, held, start, rcvLastAck, rcvAckAck,
                       rcvCurr, rcvLoss, read, receiver>>
        /\ net' \subseteq net
    BY <1>2 DEF Lose, sender, sndBuffer, sndCaller, receiver, rcvWindow, rcvCaller
  <2>2. ReceiverOK' /\ Forward
    <3>1. /\ next' \in Int /\ next <= next' /\ first' \in Int /\ first' <= Acked
          /\ sndState' = "closed" => Acked = added' + 1
      BY <2>1, PlacesAre DEF Core, ReceiverOK
    <3> QED
      BY <2>1, <3>1, RcvFrame
  <2>3. Types'
    <3>1. {rcvBlocked', rcvFailed'} \subseteq BOOLEAN /\ rcvState' \in {"connected", "broken"}
      BY <2>1, Zenon DEF receiver, rcvCaller, Core, Types
    <3> QED
      BY <2>1, <3>1, RcvTypes
  <2> QED
    BY <2>1, <2>2, <2>3, SndFrame, NetHonest DEF Core
<1>3. CASE \E m \in net : ReceiveLast(m) \/ ReceiveCopy(m) \/ Lose(m)
  BY <1>1, <1>2, <1>3 DEF ReceiveLast, ReceiveCopy
<1> QED
  BY <1>3, CallerCore, WorkerCore, AcksCore, recvCore, Zenon DEF Next

\* Only recv moves the front of a stream's buffer.
LEMMA StreamStays ==
    ASSUME Core, StreamOK, Next
    PROVE  StreamOK'
<1>1. CASE recv
  BY <1>1, recvCore
<1>2. CASE UNCHANGED <<start, read>>
  <2>1. Base' = Base
    BY <1>2 DEF Base
  <2> QED
    BY <1>2, <2>1 DEF StreamOK
<1>3. ASSUME NEW m, NEW rest, Receive(m, rest) PROVE UNCHANGED <<start, read>>
  BY <1>3 DEF Receive, ProcessAck, ProcessLiteAck, ProcessNak, ProcessPeerError, ProcessData,
              ProcessAckAck, ProcessShutdown, receiver, rcvCaller
<1>4. CASE \E m \in net : ReceiveLast(m) \/ ReceiveCopy(m) \/ Lose(m)
  <2>1. UNCHANGED <<start, read>>
    BY <1>3, <1>4 DEF ReceiveLast, ReceiveCopy, Lose, receiver, rcvCaller
  <2> QED
    BY <1>2, <2>1
<1>5. CASE \/ send \/ close \/ LingerDone \/ LingerExpires
           \/ TakeLost \/ SendLost \/ SendNew \/ Expire \/ SndBreaks
           \/ SendAck \/ SendLiteAck \/ RcvBreaks \/ RecvFails
  <2>1. UNCHANGED <<start, read>>
    BY <1>5 DEF send, close, LingerDone, LingerExpires, Closed, TakeLost, SendLost, SendNew, Expire,
                SndBreaks, SendAck, SendLiteAck, RcvBreaks, RecvFails, receiver, rcvCaller
  <2> QED
    BY <1>2, <2>1
<1> QED
  BY <1>1, <1>4, <1>5 DEF Next

LEMMA NetInit == Init => NetFits
  BY FS_EmptySet, Bounds DEF Init, NetFits

LEMMA InvInit == Init => Inv
<1>1. Init => StreamOK
  <2> SUFFICES ASSUME Init PROVE StreamOK
    OBVIOUS
  <2>1. Base = 1 /\ read = <<>>
    <3>1. 1 \in Places /\ Number(1) = ISN
      BY NumberIs, Bounds DEF Places
    <3> QED
      BY <3>1, PlaceIs DEF Init, Base
  <2> QED
    BY <2>1 DEF StreamOK
<1> QED
  BY <1>1, NetInit, InitCore DEF Inv

LEMMA CoreStill ==
    ASSUME Core, NetFits, UNCHANGED vars
    PROVE  Core' /\ NetFits'
<1>1. UNCHANGED <<sender, receiver, net, added, first, next, sndState>>
  BY DEF vars, sender, sndBuffer, sndCaller
<1>2. ReceiverOK' /\ Forward
  <2>1. /\ next' \in Int /\ next <= next' /\ first' \in Int /\ first' <= Acked
        /\ sndState' = "closed" => Acked = added' + 1
    BY <1>1, PlacesAre DEF Core, ReceiverOK
  <2> QED
    BY <1>1, <2>1, RcvFrame
<1>3. Types'
  <2>1. {rcvBlocked', rcvFailed'} \subseteq BOOLEAN /\ rcvState' \in {"connected", "broken"}
    BY <1>1, Zenon DEF receiver, rcvCaller, Core, Types
  <2> QED
    BY <1>1, <2>1, RcvTypes
<1>4. Core'
  BY <1>1, <1>2, <1>3, SndFrame, NetHonest DEF Core
<1> QED
  BY <1>1, <1>4 DEF NetFits

LEMMA InvNext == Inv /\ [Next]_vars => Inv'
<1>1. ASSUME Inv, Next PROVE Inv'
  BY <1>1, NextCore, NetStays, StreamStays DEF Inv
<1>2. ASSUME Inv, UNCHANGED vars PROVE Inv'
  <2>1. StreamOK'
    <3>1. UNCHANGED <<start, read>>
      BY <1>2 DEF vars, receiver, rcvCaller
    <3>2. Base' = Base
      BY <3>1 DEF Base
    <3> QED
      BY <1>2, <3>1, <3>2 DEF Inv, StreamOK
  <2> QED
    BY <1>2, <2>1, CoreStill DEF Inv
<1> QED
  BY <1>1, <1>2
-----------------------------------------------------------------------------
(* What the invariant says of both ends.                                     *)

LEMMA TypesHold ==
    ASSUME Core, NetFits
    PROVE  TypeOK
<1> USE PlacesAre
<1>1. /\ \A k \in 0..(Packets + 1) : k \in Places
      /\ \A k \in 1..(Packets + 1) : Number(k) \in SeqNo
      /\ \A k \in 0..(Packets + 1) : Number(k) \in SeqNo \cup {ISN - 1}
  BY NumberIs, InPlaces
<1>2. added \in 0..Packets /\ first \in 1..(Packets + 1) /\ next \in 1..(Packets + 1)
  BY DEF Core, Types
<1>3. {sndCurr, rcvCurr} \subseteq SeqNo \cup {ISN - 1}
  BY <1>1 DEF Core, SenderOK, ReceiverOK
<1>4. {sndLastAck, sndDataAck, rcvLastAck, rcvAckAck, start} \subseteq SeqNo
  BY <1>1 DEF Core, SenderOK, ReceiverOK
<1>5. sndLoss \subseteq SeqNo /\ taken \in SeqNo \cup {None}
  <2>1. \A k \in 1..(next - 1) : k \in 1..(Packets + 1)
    OBVIOUS
  <2>2. \A k \in first..(next - 1) : k \in 1..(Packets + 1)
    OBVIOUS
  <2> QED
    BY <1>1, <2>1, <2>2 DEF Core, SenderOK
<1>6. rcvLoss \subseteq SeqNo
  <2>1. \A k \in 1..Newest : k \in 1..(Packets + 1)
    OBVIOUS
  <2> QED
    BY <1>1, <2>1 DEF Core, ReceiverOK
<1>7. held \subseteq [seq : SeqNo, data : 1..Packets]
  <2>1. \A k \in Base..Newest : k \in 1..Packets /\ k \in 1..(Packets + 1)
    OBVIOUS
  <2>2. \A k \in Base..Newest : Piece(k) \in [seq : SeqNo, data : 1..Packets]
    BY <1>1, <2>1 DEF Piece
  <2> QED
    BY <2>2 DEF Core, ReceiverOK
<1>8. {listed, sndBlocked, peerHealth, rcvBlocked, rcvFailed} \subseteq BOOLEAN
  BY Zenon DEF Core, Types
<1> QED
  BY <1>2, <1>3, <1>4, <1>5, <1>6, <1>7, <1>8 DEF TypeOK, Core, Types, NetFits

LEMMA Released ==
    ASSUME Core
    PROVE  ReleasedIsReceived
<1> USE PlacesAre
<1>1. /\ next - 1 \in 0..Packets /\ next - 1 + 1 = next /\ Newest \in 0..Packets
      /\ first \in Places /\ LastAck \in Places /\ Acked \in Places /\ Newest + 1 \in Places
  BY InPlaces
<1>2. IncSeq(sndCurr) = Number(next) /\ IncSeq(rcvCurr) = Number(Newest + 1)
  BY <1>1, Counting DEF Core, SenderOK, ReceiverOK
<1>3. sndDataAck = Number(first) /\ sndLastAck = Number(LastAck) /\ rcvLastAck = Number(Acked)
  BY DEF Core, SenderOK, ReceiverOK
<1>4. /\ SeqOff(Number(first), Number(LastAck)) >= 0
      /\ SeqOff(Number(LastAck), Number(Newest + 1)) >= 0
      /\ SeqOff(Number(first), Number(Acked)) >= 0
  BY <1>1, Apart
<1> QED
  BY <1>2, <1>3, <1>4 DEF ReleasedIsReceived

LEMMA Gaps ==
    ASSUME Core
    PROVE  LossesAreTheGaps
<1> USE PlacesAre
<1> DEFINE Held == {h.seq : h \in held}
<1>1. \A k \in 0..(Newest + 1) : k \in Places
  BY InPlaces
<1>2. /\ \A h \in held : \E k \in Base..Newest : h = Piece(k)
      /\ \A k \in Base..Newest : Piece(k) \in held <=> Number(k) \notin rcvLoss
      /\ start = Number(Base) /\ rcvCurr = Number(Newest) /\ rcvLastAck = Number(Acked)
  BY DEF Core, ReceiverOK
<1>3. \A s \in rcvLoss : \E k \in Acked..Newest : s = Number(k)
  <2>1. Present(Acked) /\ \A s \in rcvLoss : \E k \in 1..Newest : s = Number(k)
    BY DEF Core, ReceiverOK
  <2> QED
    BY <2>1 DEF Present
<1>4. \A k : Piece(k).seq = Number(k)
  BY DEF Piece
<1>5. \A s \in Held : \E k \in Base..Newest : s = Number(k) /\ Number(k) \notin rcvLoss
  BY <1>2, <1>4
<1>6. \A k \in Base..Newest : Number(k) \in rcvLoss \/ Number(k) \in Held
  BY <1>2, <1>4
<1> HIDE DEF Held
<1>7. \A s : s \in Between(start, rcvCurr) <=> \E k \in Base..Newest : s = Number(k)
  <2>1. Base \in 1..(Packets + 1) /\ Newest \in Places
    BY <1>1
  <2> QED
    BY <1>2, <2>1, BetweenIs
<1>8. \A k \in Acked..Newest : k \in Base..Newest
  OBVIOUS
<1>9. rcvLoss \cup Held = Between(start, rcvCurr)
  <2>1. ASSUME NEW s \in rcvLoss \cup Held PROVE s \in Between(start, rcvCurr)
    BY <1>3, <1>5, <1>7, <1>8
  <2>2. ASSUME NEW s \in Between(start, rcvCurr) PROVE s \in rcvLoss \cup Held
    BY <1>6, <1>7
  <2> QED
    BY <2>1, <2>2
<1>10. rcvLoss \cap Held = {}
  BY <1>5
<1>11. rcvLoss = {} \/ SeqOff(rcvLastAck, Earliest(rcvLoss)) >= 0
  <2> SUFFICES ASSUME rcvLoss # {} PROVE SeqOff(rcvLastAck, Earliest(rcvLoss)) >= 0
    OBVIOUS
  <2>1. \A k \in Acked..Newest : k \in Places
    BY <1>1
  <2>2. Earliest(rcvLoss) \in rcvLoss
    BY <1>3, <2>1, EarliestIs
  <2>3. PICK k \in Acked..Newest : Earliest(rcvLoss) = Number(k)
    BY <1>3, <2>2
  <2>4. SeqOff(Number(Acked), Number(k)) = k - Acked
    BY <1>1, <2>1, Apart
  <2> QED
    BY <1>2, <2>3, <2>4
<1> QED
  BY <1>9, <1>10, <1>11 DEF LossesAreTheGaps, Held

LEMMA Reports ==
    ASSUME Core
    PROVE  ReportsAreHonest
<1> USE PlacesAre
<1>1. /\ \A k \in 0..(Packets + 1) : k \in Places
      /\ sndCurr = Number(next - 1) /\ IncSeq(sndCurr) = Number(next)
  <2>1. next - 1 \in 0..Packets /\ next - 1 + 1 = next
    OBVIOUS
  <2> QED
    BY <2>1, InPlaces, Counting DEF Core, SenderOK
<1> SUFFICES ASSUME NEW m \in net
             PROVE  /\ m.type = "ack" => ~After(m.ack, IncSeq(sndCurr))
                    /\ m.type = "nak" => ~After(m.to, sndCurr)
  BY DEF ReportsAreHonest
<1>2. Honest(m)
  BY DEF Core
<1>3. ASSUME m.type = "ack" PROVE ~After(m.ack, IncSeq(sndCurr))
  <2>1. PICK k \in 1..Acked, w \in Int : m = Ack(Number(k), w)
    BY <1>2, <1>3, Says
  <2>2. m.ack = Number(k) /\ k \in Places /\ next \in Places /\ ~(k > next)
    BY <1>1, <2>1 DEF Ack
  <2>3. ~(SeqCmp(Number(k), Number(next)) > 0)
    BY <2>2, Apart
  <2> QED
    BY <1>1, <2>2, <2>3 DEF After
<1>4. ASSUME m.type = "nak" PROVE ~After(m.to, sndCurr)
  <2>1. PICK a \in 1..(next - 1) : \E b \in a..(next - 1) : m = Nak(Number(a), Number(b))
    BY <1>2, <1>4, Says
  <2>2. PICK b \in a..(next - 1) : m = Nak(Number(a), Number(b))
    BY <2>1
  <2>3. m.to = Number(b) /\ b \in Places /\ next - 1 \in Places /\ ~(b > next - 1)
    BY <1>1, <2>2 DEF Nak
  <2>4. ~(SeqCmp(Number(b), Number(next - 1)) > 0)
    BY <2>3, Apart
  <2> QED
    BY <1>1, <2>3, <2>4 DEF After
<1> QED
  BY <1>3, <1>4

LEMMA CoreImplies ==
    ASSUME Core, NetFits
    PROVE  WindowsAgree /\ CloseDelivers
<1>1. WindowsAgree
  BY TypesHold, Released, Gaps, Reports DEF WindowsAgree
<1>2. CloseDelivers
  BY DEF Core, ReceiverOK, CloseDelivers
<1> QED
  BY <1>1, <1>2
-----------------------------------------------------------------------------
(* The theorems.                                                             *)

\* Whatever the size of the stream, of the buffers and of the network, and however the
\* network loses, repeats and reorders: each end is right about the other's window
\* (CUDT::processCtrl, processData), and a close that ends in time has delivered.
THEOREM EndsAlwaysAgree == Spec => [](WindowsAgree /\ CloseDelivers)
<1>1. Inv => WindowsAgree /\ CloseDelivers
  BY CoreImplies DEF Inv
<1> QED
  BY <1>1, InvInit, InvNext, PTL DEF Spec

\* A step of the connection is a step of the stream, or the stream does not see it.
LEMMA ReadsTheStream ==
    ASSUME Core, StreamOK, [Next]_vars
    PROVE  [Abstract!Next]_<<added, read>>
<1> USE PlacesAre
<1>1. CASE recv
  <2>1. UNCHANGED added
    BY <1>1, recvIs DEF sender, sndBuffer
  <2>2. CASE UNCHANGED read
    BY <2>1, <2>2
  <2>3. CASE \E n \in 1..(Acked - Base) : read' = read \o [i \in 1..n |-> Base - 1 + i]
    <3>1. PICK n \in 1..(Acked - Base) : read' = read \o [i \in 1..n |-> Base - 1 + i]
      BY <2>3
    <3>2. Len(read) = Base - 1
      <4>1. Base - 1 \in Nat /\ read = [i \in 1..(Base - 1) |-> i]
        BY DEF StreamOK
      <4> QED
        BY <4>1
    <3>3. n \in 1..(added - Len(read)) /\ read' = read \o [i \in 1..n |-> Len(read) + i]
      <4>1. n \in 1..(added - (Base - 1))
        OBVIOUS
      <4> QED
        BY <3>1, <3>2, <4>1, Zenon
    <3> QED
      BY <2>1, <3>3 DEF Abstract!Next, Abstract!Read
  <2> QED
    BY <1>1, <2>2, <2>3, recvIs
<1>2. CASE send
  <2>1. UNCHANGED read /\ (added' = added + 1 \/ added' = added)
    BY <1>2 DEF send, receiver, rcvCaller
  <2> QED
    BY <2>1 DEF Abstract!Next, Abstract!Write
<1>3. CASE UNCHANGED <<added, read>>
  BY <1>3
<1>4. ASSUME NEW m, NEW rest, Receive(m, rest) PROVE UNCHANGED <<added, read>>
  BY <1>4 DEF Receive, ProcessAck, ProcessLiteAck, ProcessNak, ProcessPeerError, ProcessData,
              ProcessAckAck, ProcessShutdown, sender, sndBuffer, receiver, rcvCaller
<1>5. CASE \E m \in net : ReceiveLast(m) \/ ReceiveCopy(m) \/ Lose(m)
  BY <1>3, <1>4, <1>5 DEF ReceiveLast, ReceiveCopy, Lose, sender, sndBuffer, receiver, rcvCaller
<1>6. CASE \/ close \/ LingerDone \/ LingerExpires
           \/ TakeLost \/ SendLost \/ SendNew \/ Expire \/ SndBreaks
           \/ SendAck \/ SendLiteAck \/ RcvBreaks \/ RecvFails
  <2>1. UNCHANGED <<added, read>>
    BY <1>6 DEF close, LingerDone, LingerExpires, Closed, TakeLost, SendLost, SendNew, Expire,
                SndBreaks, SendAck, SendLiteAck, RcvBreaks, RecvFails, sender, sndBuffer,
                receiver, rcvCaller
  <2> QED
    BY <1>3, <2>1
<1>7. CASE UNCHANGED vars
  BY <1>3, <1>7 DEF vars, sender, sndBuffer, receiver, rcvCaller
<1> QED
  BY <1>1, <1>2, <1>5, <1>6, <1>7 DEF Next

\* UDT is a stream: what recv returns is what send was given, once and in order
\* (CUDT::send, CUDT::recv), over a network that does neither.
THEOREM ImplementsStream == Spec => IsStream
<1>1. Init => Abstract!Init
  BY DEF Init, Abstract!Init
<1>2. Inv /\ [Next]_vars => [Abstract!Next]_<<added, read>>
  BY ReadsTheStream DEF Inv
<1> QED
  BY <1>1, <1>2, InvInit, InvNext, PTL DEF Spec, IsStream, Abstract!Spec

-----------------------------------------------------------------------------
(* Messages are read (recvmsg, readMsg, scanMsg).                            *)

LEMMA InOrderIs ==
    ASSUME Core
    PROVE  /\ InOrder = Acked - Base
           /\ \A n \in 0..(Newest + 1 - Base) : At(n) = Number(Base + n)
<1> USE PlacesAre
<1>1. start = Number(Base) /\ rcvLastAck = Number(Acked) /\ Base \in Places /\ Acked \in Places
  BY InPlaces DEF Core, ReceiverOK
<1>2. InOrder = Acked - Base
  BY <1>1, Apart DEF InOrder, RcvDataSize
<1>3. ASSUME NEW n \in 0..(Newest + 1 - Base) PROVE At(n) = Number(Base + n)
  <2>1. Base \in 1..(Packets + 1) /\ n \in 0..(Packets + 1 - Base)
    OBVIOUS
  <2> QED
    BY <1>1, <2>1, Further DEF At
<1> QED
  BY <1>2, <1>3

\* A place is ready when its packet has come and was not read.
LEMMA ReadyIs ==
    ASSUME Core, NEW n \in 0..(Newest + 1 - Base)
    PROVE  /\ Ready(n) <=> /\ Base + n <= Newest /\ Number(Base + n) \notin rcvLoss
                           /\ Number(Base + n) \notin passed
           /\ Ready(n) => Packet(n) = Base + n
<1> USE PlacesAre
<1>1. At(n) = Number(Base + n) /\ \A k \in Base..(Newest + 1) : k \in Places
  BY InOrderIs, InPlaces
<1>2. \A h \in held : \E k \in Base..Newest : h = Piece(k)
  BY DEF Core, ReceiverOK
<1>3. \A k \in Base..Newest : Piece(k) \in held <=> Number(k) \notin rcvLoss
  BY DEF Core, ReceiverOK
<1>4. \A k : Piece(k).seq = Number(k) /\ Piece(k).data = k
  BY DEF Piece
<1>5. (\E h \in held : h.seq = At(n)) <=> Base + n <= Newest /\ Number(Base + n) \notin rcvLoss
  <2>1. ASSUME NEW h \in held, h.seq = At(n)
        PROVE  Base + n <= Newest /\ Number(Base + n) \notin rcvLoss
    <3>1. PICK k \in Base..Newest : h = Piece(k)
      BY <1>2
    <3>2. Number(k) = Number(Base + n) /\ k \in Places /\ Base + n \in Places
      BY <1>1, <1>4, <2>1, <3>1
    <3>3. k = Base + n
      BY <3>2, Apart
    <3> QED
      BY <1>3, <3>1, <3>3
  <2>2. ASSUME Base + n <= Newest, Number(Base + n) \notin rcvLoss
        PROVE  \E h \in held : h.seq = At(n)
    <3>1. Base + n \in Base..Newest
      BY <2>2
    <3> QED
      BY <1>1, <1>3, <1>4, <2>2, <3>1
  <2> QED
    BY <2>1, <2>2
<1>6. ASSUME Ready(n) PROVE Packet(n) = Base + n
  <2>1. Base + n \in Base..Newest /\ Number(Base + n) \notin rcvLoss
    BY <1>5, <1>6 DEF Ready
  <2>2. (CHOOSE h \in held : h.seq = Number(Base + n)) = Piece(Base + n)
    BY <2>1, HeldIs
  <2> QED
    BY <1>1, <1>4, <2>2 DEF Packet
<1> QED
  BY <1>1, <1>5, <1>6 DEF Ready

\* What is acknowledged is ready unless it was read.
LEMMA AckedIsReady ==
    ASSUME Core, NEW n \in 0..(Acked - Base - 1)
    PROVE  /\ Ready(n) <=> Number(Base + n) \notin passed
           /\ Base + n \in 1..Packets /\ n \in 0..(Newest + 1 - Base)
<1> USE PlacesAre
<1>1. Base + n \in 1..(Acked - 1) /\ Base + n <= Newest /\ n \in 0..(Newest + 1 - Base)
  OBVIOUS
<1>2. Number(Base + n) \notin rcvLoss
  BY <1>1 DEF Core, ReceiverOK, Present
<1> QED
  BY <1>1, <1>2, ReadyIs

LEMMA FrontIs ==
    ASSUME Core
    PROVE  /\ Front \in 0..InOrder
           /\ Front = InOrder \/ Good(Front)
           /\ \A k \in 0..(Front - 1) : ~Good(k)
<1> USE PlacesAre
<1>0. InOrder \in Nat
  BY InOrderIs
<1> DEFINE P == {i \in 0..InOrder : i = InOrder \/ Good(i)}
<1>1. P \in SUBSET Nat /\ InOrder \in P
  BY <1>0
<1>2. PICK x \in P : \A y \in P : ~(<<y, x>> \in Less)
  BY <1>1, LessWellFounded, WFMin
<1>3. ASSUME NEW k \in 0..(x - 1) PROVE ~Good(k)
  <2> SUFFICES ASSUME Good(k) PROVE FALSE
    OBVIOUS
  <2>1. k \in P /\ x \in Nat /\ k \in Nat /\ k < x
    BY <1>1
  <2>2. <<k, x>> \in Nat \X Nat /\ <<k, x>>[1] = k /\ <<k, x>>[2] = x
    BY <2>1
  <2> QED
    BY <1>2, <2>1, <2>2, Zenon DEF Less
<1>4. \E i \in 0..InOrder : /\ i = InOrder \/ Good(i)
                            /\ \A k \in 0..(i - 1) : ~Good(k)
  BY <1>2, <1>3
<1> QED
  BY <1>4, Zenon DEF Front
-----------------------------------------------------------------------------
(* What has been read.                                                       *)

Firsts == {d \in 1..Packets : IsFirst(d)}
Whole(d) == [k \in 1..(End(d) - d + 1) |-> d + k - 1]
Wholes == {Whole(d) : d \in Firsts}

\* Whole messages, each once, and those that ask for it in order.
InboxOK == /\ inbox \in Seq(Wholes)
           /\ \A m \in Message : \A i, j \in ReadAt(m) : i = j
           /\ \A m \in Message \ Unordered, i \in DOMAIN inbox :
                 i \in ReadAt(m) => \A n \in Message : n < m => \E j \in ReadAt(n) : j < i

\* All before the front of the buffer was read, and behind it what is marked so.
PassedOK == /\ \A k \in 1..(Base - 1) : ReadAt(MsgOf[k]) # {}
            /\ \A k \in Base..Packets : Number(k) \in passed <=> ReadAt(MsgOf[k]) # {}

MsgInv == Core /\ NetFits /\ InboxOK /\ PassedOK

\* A message ends where the next one begins.
LEMMA MessageIs ==
    ASSUME NEW d \in Firsts
    PROVE  /\ d \in Int /\ End(d) \in d..Packets /\ End(d) <= d + 1
           /\ \A k \in 1..Packets : MsgOf[k] = MsgOf[d] <=> k \in d..End(d)
           /\ \A k \in 1..Packets : MsgOf[k] < MsgOf[d] => k < d
<1>1. /\ d \in 1..Packets /\ IsFirst(d) /\ Packets \in Nat
      /\ \A k \in 1..Packets : MsgOf[k] \in Nat
      /\ \A a, b \in 1..Packets : a <= b => MsgOf[a] <= MsgOf[b]
      /\ \A a \in 1..(Packets - 2) : MsgOf[a] # MsgOf[a + 2]
  BY Bounds, MessagesAssumption DEF Firsts
<1>2. End(d) \in d..Packets /\ End(d) <= d + 1
  BY <1>1, EndIs
<1>3. ASSUME NEW k \in 1..Packets, MsgOf[k] = MsgOf[d] PROVE k \in d..End(d)
  <2>1. ~(k < d)
    <3> SUFFICES ASSUME k < d PROVE FALSE
      OBVIOUS
    <3>1. d - 1 \in 1..Packets /\ k <= d - 1 /\ d - 1 <= d /\ MsgOf[d - 1] # MsgOf[d]
      BY <1>1 DEF IsFirst
    <3>2. MsgOf[k] <= MsgOf[d - 1] /\ MsgOf[d - 1] <= MsgOf[d]
      BY <1>1, <3>1
    <3> QED
      BY <1>1, <1>3, <3>1, <3>2
  <2>2. ~(k > End(d))
    <3> SUFFICES ASSUME k > End(d) PROVE FALSE
      OBVIOUS
    <3>1. CASE IsLast(d)
      <4>1. d + 1 \in 1..Packets /\ d + 1 <= k /\ d <= d + 1 /\ MsgOf[d + 1] # MsgOf[d]
        BY <1>1, <3>1 DEF IsLast, End
      <4>2. MsgOf[d] <= MsgOf[d + 1] /\ MsgOf[d + 1] <= MsgOf[k]
        BY <1>1, <4>1
      <4> QED
        BY <1>1, <1>3, <4>1, <4>2
    <3>2. CASE ~IsLast(d)
      <4>1. d + 2 \in 1..Packets /\ d + 2 <= k /\ d <= d + 2 /\ d \in 1..(Packets - 2)
        BY <1>1, <3>2 DEF End
      <4>2. MsgOf[d] <= MsgOf[d + 2] /\ MsgOf[d + 2] <= MsgOf[k] /\ MsgOf[d] # MsgOf[d + 2]
        BY <1>1, <4>1
      <4> QED
        BY <1>1, <1>3, <4>1, <4>2
    <3> QED
      BY <3>1, <3>2
  <2> QED
    BY <1>1, <1>2, <2>1, <2>2
<1>4. ASSUME NEW k \in d..End(d) PROVE MsgOf[k] = MsgOf[d]
  <2>1. CASE k = d
    BY <2>1
  <2>2. CASE k # d
    <3>1. ~IsLast(d) /\ k = d + 1
      BY <1>1, <2>2 DEF End
    <3> QED
      BY <3>1 DEF IsLast
  <2> QED
    BY <2>1, <2>2
<1>5. ASSUME NEW k \in 1..Packets, MsgOf[k] < MsgOf[d] PROVE k < d
  BY <1>1, <1>5
<1> QED
  BY <1>1, <1>2, <1>3, <1>4, <1>5

LEMMA WholeIs ==
    ASSUME NEW d \in Firsts, NEW m
    PROVE  (\E k \in DOMAIN Whole(d) : MsgOf[Whole(d)[k]] = m) <=> m = MsgOf[d]
<1>1. /\ d \in Int /\ End(d) \in Int /\ d <= End(d) /\ End(d) <= Packets /\ 1 <= d
      /\ \A k \in d..End(d) : MsgOf[k] = MsgOf[d]
  <2>1. d \in 1..Packets /\ Packets \in Nat
    BY Bounds DEF Firsts
  <2>2. \A k \in d..End(d) : k \in 1..Packets
    BY <2>1, MessageIs
  <2> QED
    BY <2>1, <2>2, MessageIs
<1>2. DOMAIN Whole(d) = 1..(End(d) - d + 1) /\ \A k \in 1..(End(d) - d + 1) : Whole(d)[k] = d + k - 1
  BY DEF Whole
<1>3. \A k \in 1..(End(d) - d + 1) : d + k - 1 \in d..End(d)
  BY <1>1
<1>4. \A k \in DOMAIN Whole(d) : MsgOf[Whole(d)[k]] = MsgOf[d]
  BY <1>1, <1>2, <1>3
<1>5. 1 \in DOMAIN Whole(d)
  BY <1>1, <1>2
<1> QED
  BY <1>4, <1>5

\* Where a message was read, after one more has been.
LEMMA OneMore ==
    ASSUME inbox \in Seq(Wholes), NEW d \in Firsts, inbox' = Append(inbox, Whole(d))
    PROVE  /\ inbox' \in Seq(Wholes) /\ Len(inbox) \in Nat
           /\ \A m : ReadAt(m) \subseteq 1..Len(inbox)
           /\ \A m : ReadAt(m)' = IF m = MsgOf[d] THEN ReadAt(m) \cup {Len(inbox) + 1} ELSE ReadAt(m)
<1> DEFINE n == Len(inbox)
<1>1. /\ n \in Nat /\ DOMAIN inbox = 1..n /\ Whole(d) \in Wholes
      /\ inbox' \in Seq(Wholes) /\ DOMAIN inbox' = 1..(n + 1)
      /\ inbox'[n + 1] = Whole(d) /\ \A i \in 1..n : inbox'[i] = inbox[i]
  <2>1. Whole(d) \in Wholes
    BY DEF Wholes
  <2> HIDE DEF Wholes
  <2> QED
    BY <2>1
<1>2. ASSUME NEW m PROVE ReadAt(m) \subseteq 1..n
  BY <1>1 DEF ReadAt
<1>3. ASSUME NEW m
      PROVE  ReadAt(m)' = IF m = MsgOf[d] THEN ReadAt(m) \cup {n + 1} ELSE ReadAt(m)
  <2> HIDE DEF n
  <2>1. \A i \in 1..n : i \in ReadAt(m)' <=> i \in ReadAt(m)
    <3>1. \A i \in 1..n : i \in 1..(n + 1)
      BY <1>1
    <3> QED
      BY <1>1, <3>1 DEF ReadAt
  <2>2. n + 1 \in ReadAt(m)' <=> m = MsgOf[d]
    <3>1. n + 1 \in DOMAIN inbox'
      BY <1>1
    <3> QED
      BY <1>1, <3>1, WholeIs DEF ReadAt
  <2>3. ReadAt(m)' \subseteq 1..(n + 1)
    BY <1>1 DEF ReadAt
  <2>4. \A i \in 1..(n + 1) : i \in 1..n \/ i = n + 1
    BY <1>1
  <2>5. n + 1 \notin 1..n
    BY <1>1
  <2> DEFINE A == ReadAt(m)
             B == ReadAt(m)'
  <2>6. A \subseteq 1..n
    BY <1>2
  <2> HIDE DEF A, B
  <2>7. \A i : i \in B <=> (i \in A \/ (i = n + 1 /\ m = MsgOf[d]))
    <3>1. (\A i \in 1..n : i \in B <=> i \in A) /\ (n + 1 \in B <=> m = MsgOf[d]) /\ B \subseteq 1..(n + 1)
      BY <2>1, <2>2, <2>3, Zenon DEF A, B
    <3> QED
      BY <2>4, <2>5, <2>6, <3>1
  <2>8. B = IF m = MsgOf[d] THEN A \cup {n + 1} ELSE A
    BY <2>7
  <2> QED
    BY <2>8 DEF A, B
<1> QED
  BY <1>1, <1>2, <1>3

\* One more message is read that was not, and all before it were if it asks for order.
LEMMA ReadsOne ==
    ASSUME InboxOK, NEW d \in Firsts, ReadAt(MsgOf[d]) = {}, inbox' = Append(inbox, Whole(d)),
           MsgOf[d] \in Unordered \/ \A k \in 1..(d - 1) : ReadAt(MsgOf[k]) # {}
    PROVE  /\ InboxOK'
           /\ \A m : ReadAt(m)' # {} <=> ReadAt(m) # {} \/ m = MsgOf[d]
<1> DEFINE n == Len(inbox)
<1>1. /\ inbox' \in Seq(Wholes) /\ n \in Nat
      /\ \A m : ReadAt(m) \subseteq 1..n
      /\ \A m : ReadAt(m)' = IF m = MsgOf[d] THEN ReadAt(m) \cup {n + 1} ELSE ReadAt(m)
  BY OneMore DEF InboxOK
<1> HIDE DEF n
<1>2. ReadAt(MsgOf[d])' = {n + 1} /\ \A m : m # MsgOf[d] => ReadAt(m)' = ReadAt(m)
  BY <1>1
<1>3. ASSUME NEW m \in Message PROVE \A i, j \in ReadAt(m)' : i = j
  BY <1>2 DEF InboxOK
<1>4. ASSUME NEW m \in Message \ Unordered, NEW i, i \in ReadAt(m)', NEW p \in Message, p < m
      PROVE  \E j \in ReadAt(p)' : j < i
  <2>1. CASE m = MsgOf[d]
    <3>1. i = n + 1 /\ \A k \in 1..(d - 1) : ReadAt(MsgOf[k]) # {}
      BY <1>2, <1>4, <2>1
    <3>2. PICK k \in 1..Packets : p = MsgOf[k]
      BY DEF Message
    <3>3. k < d /\ d \in Int /\ Packets \in Int
      BY <1>4, <2>1, <3>2, MessageIs, Bounds
    <3>4. PICK j : j \in ReadAt(p)
      <4>1. k \in 1..(d - 1)
        BY <3>3
      <4> QED
        BY <3>1, <3>2, <4>1
    <3>5. j \in 1..n
      BY <1>1, <3>4
    <3>6. p # MsgOf[d]
      BY <1>4, <2>1, <3>2, MessagesAssumption
    <3> QED
      BY <1>1, <1>2, <3>1, <3>4, <3>5, <3>6
  <2>2. CASE m # MsgOf[d]
    <3>1. i \in ReadAt(m) /\ i \in DOMAIN inbox
      <4>1. i \in ReadAt(m)
        BY <1>2, <1>4, <2>2
      <4> QED
        BY <4>1 DEF ReadAt
    <3>2. PICK j \in ReadAt(p) : j < i
      BY <1>4, <3>1 DEF InboxOK
    <3>3. j \in ReadAt(p)'
      BY <1>1, <3>2
    <3> QED
      BY <3>2, <3>3
  <2> QED
    BY <2>1, <2>2
<1>5. ASSUME NEW m PROVE ReadAt(m)' # {} <=> ReadAt(m) # {} \/ m = MsgOf[d]
  BY <1>2
<1>6. InboxOK'
  <2>1. \A m \in Message : \A i, j \in ReadAt(m)' : i = j
    BY <1>3
  <2>2. \A m \in Message \ Unordered, i \in DOMAIN inbox' :
            i \in ReadAt(m)' => \A p \in Message : p < m => \E j \in ReadAt(p)' : j < i
    BY <1>4
  <2> QED
    BY <1>1, <2>1, <2>2 DEF InboxOK
<1> QED
  BY <1>5, <1>6

\* A message may go on with the next packet.
LEMMA GoesOn ==
    ASSUME NEW d \in 1..(Packets - 1), MsgOf[d + 1] = MsgOf[d]
    PROVE  ~IsFirst(d + 1)
<1>1. d \in Int /\ d + 1 # 1 /\ d + 1 - 1 = d
  BY Bounds
<1> QED
  BY <1>1 DEF IsFirst

\* What is thrown away in front of the first good packet was read.
LEMMA BehindFront ==
    ASSUME Core, PassedOK, NEW n \in 0..(Front - 1)
    PROVE  ReadAt(MsgOf[Base + n]) # {}
<1> USE PlacesAre
<1>1. InOrder = Acked - Base /\ Front \in 0..InOrder /\ \A k \in 0..(Front - 1) : ~Good(k)
  BY InOrderIs, FrontIs
<1>2. n \in 0..(InOrder - 1) /\ n \in Int /\ ~Good(n) /\ InOrder \in Int
  BY <1>1
<1>3. \A k \in 0..(InOrder - 1) : /\ k \in 0..(Newest + 1 - Base) /\ Base + k \in 1..Packets
                                  /\ Ready(k) <=> Number(Base + k) \notin passed
                                  /\ Ready(k) => Packet(k) = Base + k
  BY <1>1, AckedIsReady, ReadyIs
<1> SUFFICES ASSUME ReadAt(MsgOf[Base + n]) = {} PROVE FALSE
  OBVIOUS
<1>4. Base + n \in Base..Packets /\ Base + n \in Int
  BY <1>2, <1>3
<1>5. Number(Base + n) \notin passed
  BY <1>4 DEF PassedOK
<1>6. Ready(n) /\ Packet(n) = Base + n
  BY <1>2, <1>3, <1>5
<1>7. CASE IsFirst(Base + n)
  <2>1. ~IsLast(Base + n) /\ n + 1 \in 0..(InOrder - 1) /\ n \in n..(InOrder - 1)
    <3>1. n \in n..(InOrder - 1) /\ \A k \in n..n : k = n
      BY <1>2
    <3>2. ~(IsLast(Base + n) \/ n = InOrder - 1)
      BY <1>2, <1>6, <1>7, <3>1 DEF Good
    <3> QED
      BY <1>2, <3>1, <3>2
  <2>2. /\ Base + (n + 1) = Base + n + 1 /\ Base + n + 1 \in 1..Packets
        /\ MsgOf[Base + n + 1] = MsgOf[Base + n]
    BY <1>2, <1>3, <2>1 DEF IsLast
  <2>3. Ready(n + 1) /\ Packet(n + 1) = Base + n + 1
    <3>1. Base + n + 1 \in Base..Packets
      BY <1>4, <2>2
    <3>2. Number(Base + n + 1) \notin passed
      BY <2>2, <3>1 DEF PassedOK
    <3> QED
      BY <1>3, <2>1, <2>2, <3>2
  <2>4. IsLast(Base + n + 1)
    <3> SUFFICES ASSUME Base + n + 1 # Packets PROVE MsgOf[Base + n + 1 + 1] # MsgOf[Base + n + 1]
      BY DEF IsLast
    <3>1. Base + n \in 1..(Packets - 2) /\ Base + n + 2 = Base + n + 1 + 1
      BY <1>4, <2>2
    <3> QED
      BY <2>2, <3>1, MessagesAssumption
  <2>5. n + 1 \in n..(InOrder - 1) /\ \A k \in n..(n + 1) : k = n \/ k = n + 1
    BY <1>2, <2>1
  <2> QED
    BY <1>2, <1>6, <1>7, <2>3, <2>4, <2>5 DEF Good
<1>8. CASE ~IsFirst(Base + n)
  <2>1. Base + n # 1 /\ MsgOf[Base + n - 1] = MsgOf[Base + n]
    BY <1>8 DEF IsFirst
  <2>2. CASE n = 0
    <3>1. Base - 1 \in 1..(Base - 1) /\ Base + n - 1 = Base - 1
      BY <2>1, <2>2
    <3>2. ReadAt(MsgOf[Base - 1]) # {}
      BY <3>1 DEF PassedOK
    <3> QED
      BY <2>1, <3>1, <3>2
  <2>3. CASE n # 0
    <3>1. n - 1 \in 0..(InOrder - 1) /\ n - 1 \in 0..(Front - 1) /\ Base + (n - 1) = Base + n - 1
      BY <1>1, <1>2, <2>3
    <3>2. Base + n - 1 \in Base..Packets /\ Base + n - 1 \in Int /\ Base + n - 1 \in 1..Packets
      BY <1>3, <1>4, <3>1
    <3>3. Number(Base + n - 1) \notin passed
      BY <2>1, <3>2 DEF PassedOK
    <3>4. Ready(n - 1) /\ Packet(n - 1) = Base + n - 1
      BY <1>3, <3>1, <3>3
    <3>5. IsFirst(Base + n - 1)
      <4> SUFFICES ASSUME Base + n - 1 # 1 PROVE MsgOf[Base + n - 1 - 1] # MsgOf[Base + n - 1]
        BY DEF IsFirst
      <4>1. Base + n - 2 \in 1..(Packets - 2) /\ Base + n - 2 + 2 = Base + n /\ Base + n - 1 - 1 = Base + n - 2
        BY <1>4, <3>2
      <4> QED
        BY <2>1, <4>1, MessagesAssumption
    <3>6. IsLast(Base + n)
      <4> SUFFICES ASSUME Base + n # Packets PROVE MsgOf[Base + n + 1] # MsgOf[Base + n]
        BY DEF IsLast
      <4>1. Base + n - 1 \in 1..(Packets - 2) /\ Base + n - 1 + 2 = Base + n + 1
        BY <1>4, <3>2
      <4> QED
        BY <2>1, <4>1, MessagesAssumption
    <3>7. n \in (n - 1)..(InOrder - 1) /\ \A k \in (n - 1)..n : k = n - 1 \/ k = n
      BY <1>2
    <3> QED
      BY <1>1, <1>6, <3>1, <3>4, <3>5, <3>6, <3>7 DEF Good
  <2> QED
    BY <2>2, <2>3
<1> QED
  BY <1>7, <1>8

\* The places looked at are those of the stream (isRcvDataReady, scanMsg).
LEMMA SeenIs ==
    ASSUME Core
    PROVE  /\ \A n \in Seen : n \in 0..(Newest + 1 - Base)
           /\ \A n \in 0..(InOrder - 1) : n \in Seen
<1> USE PlacesAre
<1>1. InOrder = Acked - Base /\ RcvBufSize \in Nat
  BY InOrderIs, Bounds
<1>2. ASSUME NEW n \in Seen PROVE n \in 0..(Newest + 1 - Base)
  <2>1. n \in Nat
    BY DEF Seen, Place
  <2>2. CASE n <= InOrder
    BY <1>1, <2>1, <2>2
  <2>3. CASE \E h \in Beyond : SeqOff(start, h.seq) >= n
    <3>1. PICK h \in held : SeqOff(start, h.seq) >= n
      BY <2>3 DEF Beyond
    <3>2. PICK k \in Base..Newest : h = Piece(k)
      BY DEF Core, ReceiverOK
    <3>3. h.seq = Number(k) /\ k \in Places /\ Base \in Places /\ start = Number(Base)
      BY <3>2, InPlaces DEF Piece, Core, ReceiverOK
    <3>4. k - Base >= n
      BY <3>1, <3>3, Apart
    <3> QED
      BY <2>1, <3>4
  <2> QED
    BY <2>2, <2>3 DEF Seen
<1>3. ASSUME NEW n \in 0..(InOrder - 1) PROVE n \in Seen
  <2>1. n <= InOrder /\ n \in 0..(RcvBufSize - 1)
    <3>1. Newest = Base - 1 \/ Newest + 2 <= Base + RcvBufSize
      BY DEF Core, ReceiverOK
    <3> QED
      BY <1>1, <3>1
  <2> QED
    BY <2>1 DEF Seen, Place
<1> QED
  BY <1>2, <1>3

\* A message that is found is whole and was not read.
LEMMA FoundIs ==
    ASSUME Core, PassedOK, NEW p \in Seen, NEW q \in Seen, <<p, q>> \in Found
    PROVE  LET d == Base + p
           IN  /\ p \in Int /\ q \in Int /\ p <= q /\ Front <= p
               /\ d \in Firsts /\ d \in Base..Packets /\ q = End(d) - Base
               /\ [i \in 1..(q - p + 1) |-> Packet(p + i - 1)] = Whole(d)
               /\ ReadAt(MsgOf[d]) = {}
               /\ q < InOrder \/ MsgOf[d] \in Unordered
<1> USE PlacesAre
<1> DEFINE d == Base + p
<1>1. /\ p \in 0..(Newest + 1 - Base) /\ q \in 0..(Newest + 1 - Base) /\ p \in Int /\ q \in Int
  BY SeenIs
<1>2. /\ p <= q /\ Front <= p /\ \A k \in p..q : Ready(k)
      /\ IsFirst(Packet(p)) /\ IsLast(Packet(q)) /\ \A k \in (p + 1)..q : ~IsFirst(Packet(k))
      /\ q < InOrder \/ MsgOf[Packet(q)] \in Unordered
  <2>1. <<p, q>>[1] = p /\ <<p, q>>[2] = q
    OBVIOUS
  <2> QED
    BY <2>1, Zenon DEF Found
<1>3. ASSUME NEW k \in p..q
      PROVE  Packet(k) = Base + k /\ Base + k \in Base..Packets /\ Number(Base + k) \notin passed
  <2>1. k \in 0..(Newest + 1 - Base) /\ Ready(k)
    BY <1>1, <1>2
  <2>2. Packet(k) = Base + k /\ Base + k <= Newest /\ Number(Base + k) \notin passed
    BY <2>1, ReadyIs
  <2> QED
    BY <2>1, <2>2
<1>4. p \in p..q /\ q \in p..q
  BY <1>1, <1>2
<1>5. d \in Base..Packets /\ d \in Firsts /\ Packet(p) = d /\ Packet(q) = Base + q /\ Base + q \in 1..Packets
  BY <1>2, <1>3, <1>4 DEF Firsts
<1>6. ReadAt(MsgOf[d]) = {}
  BY <1>3, <1>4, <1>5 DEF PassedOK
<1>7. Base + q = End(d)
  <2>1. CASE p = q
    BY <1>2, <1>5, <2>1 DEF End
  <2>2. CASE p < q
    <3>1. p + 1 \in p..q /\ p + 1 \in (p + 1)..q
      BY <1>1, <2>2
    <3>2. Packet(p + 1) = d + 1 /\ ~IsFirst(d + 1) /\ d + 1 <= Packets
      <4>1. Packet(p + 1) = Base + (p + 1) /\ Base + (p + 1) \in Base..Packets /\ Base + (p + 1) = d + 1
        BY <1>1, <1>3, <3>1
      <4> QED
        BY <1>2, <3>1, <4>1
    <3>3. MsgOf[d] = MsgOf[d + 1] /\ End(d) = d + 1
      <4>1. MsgOf[d + 1 - 1] = MsgOf[d + 1] /\ d + 1 - 1 = d
        BY <3>2, <1>1 DEF IsFirst
      <4>2. ~IsLast(d)
        BY <3>2, <4>1, <1>1 DEF IsLast
      <4> QED
        BY <4>1, <4>2 DEF End
    <3>4. ~(p + 1 < q)
      <4> SUFFICES ASSUME p + 1 < q PROVE FALSE
        OBVIOUS
      <4>1. p + 2 \in p..q /\ p + 2 \in (p + 1)..q
        BY <1>1
      <4>2. Packet(p + 2) = Base + (p + 2) /\ Base + (p + 2) \in Base..Packets /\ Base + (p + 2) = d + 2
        BY <1>1, <1>3, <4>1
      <4>3. ~IsFirst(d + 2) /\ d + 2 <= Packets
        BY <1>2, <4>1, <4>2
      <4>4. MsgOf[d + 2 - 1] = MsgOf[d + 2] /\ d + 2 - 1 = d + 1
        BY <4>3, <1>1 DEF IsFirst
      <4>5. d \in 1..(Packets - 2)
        BY <1>1, <4>3
      <4> QED
        BY <3>3, <4>4, <4>5, MessagesAssumption
    <3>5. q = p + 1
      BY <1>1, <2>2, <3>4
    <3> QED
      BY <1>1, <3>3, <3>5
  <2> QED
    BY <1>1, <1>2, <2>1, <2>2
<1>8. [i \in 1..(q - p + 1) |-> Packet(p + i - 1)] = Whole(d)
  <2>1. q - p + 1 = End(d) - d + 1
    BY <1>1, <1>7
  <2>2. \A i \in 1..(q - p + 1) : Packet(p + i - 1) = d + i - 1
    <3> SUFFICES ASSUME NEW i \in 1..(q - p + 1) PROVE Packet(p + i - 1) = d + i - 1
      OBVIOUS
    <3>1. p + i - 1 \in p..q /\ Base + (p + i - 1) = d + i - 1
      BY <1>1
    <3> QED
      BY <1>3, <3>1
  <2> HIDE DEF d
  <2> QED
    BY <2>1, <2>2 DEF Whole
<1>9. MsgOf[Base + q] = MsgOf[d]
  <2>1. End(d) \in d..End(d) /\ End(d) \in 1..Packets
    BY <1>1, <1>2, <1>5, <1>7
  <2> QED
    BY <1>5, <1>7, <2>1, MessageIs
<1> QED
  BY <1>1, <1>2, <1>5, <1>6, <1>7, <1>8, <1>9

\* What is read in order is the first message that was not.
LEMMA FirstFound ==
    ASSUME Core, PassedOK, NEW p \in Seen, NEW q \in Seen, <<p, q>> \in Found,
           \A other \in Found : q <= other[2], q < InOrder
    PROVE  p = Front
<1> USE PlacesAre
<1>1. InOrder = Acked - Base /\ Front \in 0..InOrder /\ (Front = InOrder \/ Good(Front))
  BY InOrderIs, FrontIs
<1>2. /\ p \in Int /\ q \in Int /\ p <= q /\ Front <= p
  BY FoundIs
<1> SUFFICES ASSUME Front < p PROVE FALSE
  BY <1>1, <1>2
<1>3. Good(Front) /\ Front \in 0..(InOrder - 1) /\ Front \in Seen /\ Front \in Int
  BY <1>1, <1>2, SeenIs
<1>4. \A k \in 0..(InOrder - 1) : /\ k \in 0..(Newest + 1 - Base) /\ Base + k \in 1..Packets
                                  /\ Ready(k) => Packet(k) = Base + k
  BY <1>1, AckedIsReady, ReadyIs
<1> DEFINE d == Base + Front
<1>5. Ready(Front) /\ IsFirst(d) /\ Packet(Front) = d /\ d \in 1..Packets /\ d \in Firsts
  BY <1>3, <1>4 DEF Good, Firsts
<1>6. PICK e \in Front..(InOrder - 1) : /\ \A k \in Front..e : Ready(k)
                                        /\ IsLast(Packet(e)) \/ e = InOrder - 1
  BY <1>3 DEF Good
<1>7. e \in Int /\ e \in 0..(InOrder - 1) /\ Front <= e
  BY <1>1, <1>3
<1>8. ~Nothing
  BY <1>1, <1>2 DEF Nothing
<1>9. \E c \in Front..e : c < p /\ IsLast(Base + c) /\ \A k \in (Front + 1)..c : ~IsFirst(Base + k)
  <2>1. CASE IsLast(d)
    <3>1. Front \in Front..e /\ \A k \in (Front + 1)..Front : FALSE
      BY <1>3, <1>7
    <3> QED
      BY <2>1, <3>1
  <2>2. CASE ~IsLast(d)
    <3>1. MsgOf[d + 1] = MsgOf[d] /\ d # Packets
      BY <2>2 DEF IsLast
    <3>2. Front + 1 <= e
      <4> SUFFICES ASSUME e = Front PROVE FALSE
        BY <1>3, <1>7
      <4>1. e = InOrder - 1
        BY <1>5, <1>6, <2>2
      <4> QED
        BY <1>1, <1>2, <1>3, <4>1
    <3>3. ~IsFirst(d + 1) /\ d + 1 \in 1..Packets
      <4>1. d \in 1..(Packets - 1) /\ d + 1 \in 1..Packets
        BY <1>3, <1>5, <3>1
      <4> QED
        BY <3>1, <4>1, GoesOn
    <3>4. IsLast(d + 1)
      <4> SUFFICES ASSUME d + 1 # Packets PROVE MsgOf[d + 1 + 1] # MsgOf[d + 1]
        BY DEF IsLast
      <4>1. d \in 1..(Packets - 2) /\ d + 2 = d + 1 + 1
        BY <1>3, <1>5, <3>3
      <4> QED
        BY <3>1, <4>1, MessagesAssumption
    <3>5. Front + 1 < p
      <4> SUFFICES ASSUME p = Front + 1 PROVE FALSE
        BY <1>2, <1>3
      <4>1. d + 1 \in Firsts
        <5>1. Base + p = d + 1
          BY <1>3
        <5>2. Base + p \in Firsts
          BY FoundIs
        <5> QED
          BY <5>1, <5>2
      <4> HIDE DEF d
      <4> QED
        BY <3>3, <4>1 DEF Firsts
    <3>6. /\ Front + 1 \in Front..e /\ Base + (Front + 1) = d + 1
          /\ \A k \in (Front + 1)..(Front + 1) : k = Front + 1
      BY <1>3, <1>7, <3>2
    <3> QED
      BY <3>3, <3>4, <3>5, <3>6
  <2> QED
    BY <2>1, <2>2
<1>10. PICK c \in Front..e : c < p /\ IsLast(Base + c) /\ \A k \in (Front + 1)..c : ~IsFirst(Base + k)
  BY <1>9
<1>11. c \in Int /\ c \in 0..(InOrder - 1) /\ c \in Seen /\ c < InOrder /\ Front <= c
  BY <1>1, <1>3, <1>7, SeenIs
<1>12. \A k \in Front..c : Ready(k) /\ Packet(k) = Base + k
  BY <1>1, <1>4, <1>6, <1>7, <1>11
<1>13. <<Front, c>> \in Found
  <2>1. /\ \A k \in Front..c : Ready(k)
        /\ IsFirst(Packet(Front)) /\ IsLast(Packet(c))
        /\ \A k \in (Front + 1)..c : ~IsFirst(Packet(k))
    <3>1. \A k \in (Front + 1)..c : k \in Front..c
      BY <1>3, <1>11
    <3>2. c \in Front..c
      BY <1>3, <1>11
    <3> QED
      BY <1>5, <1>10, <1>12, <3>1, <3>2
  <2>2. <<Front, c>> \in Seen \X Seen /\ <<Front, c>>[1] = Front /\ <<Front, c>>[2] = c
    BY <1>3, <1>11
  <2>3. Front <= Front
    BY <1>3
  <2> QED
    BY <1>8, <1>11, <2>1, <2>2, <2>3, Zenon DEF Found
<1>14. q <= c
  <2>1. <<Front, c>>[2] = c
    OBVIOUS
  <2> QED
    BY <1>13, <2>1
<1> QED
  BY <1>2, <1>10, <1>11, <1>14
-----------------------------------------------------------------------------
(* A step of a connection of messages.                                       *)

\* The buffer begins further on, and what was read behind it stays marked.
LEMMA AdvanceIs ==
    ASSUME Core, UNCHANGED <<sender, net, rcvWindow, rcvState, rcvFailed>>,
           {rcvBlocked'} \subseteq BOOLEAN, NEW n \in 0..(Acked - Base), NEW ahead,
           Advance(n, ahead)
    PROVE  /\ Core' /\ Base' = Base + n
           /\ \A k \in (Base + n)..Packets :
                 Number(k) \in passed' <=> Number(k) \in passed \/ Number(k) \in ahead
<1> USE PlacesAre
<1>1. At(n) = Number(Base + n) /\ Base + n \in Places
  <2>1. n \in 0..(Newest + 1 - Base)
    OBVIOUS
  <2> QED
    BY <2>1, InOrderIs, InPlaces
<1>2. \A k \in Base..Packets : SeqOff(At(n), Number(k)) >= 0 <=> k >= Base + n
  <2> SUFFICES ASSUME NEW k \in Base..Packets
               PROVE  SeqOff(At(n), Number(k)) >= 0 <=> k >= Base + n
    OBVIOUS
  <2>1. k \in Places /\ k \in Int
    BY InPlaces
  <2>2. SeqOff(At(n), Number(k)) = k - (Base + n)
    BY <1>1, <2>1, Apart
  <2> QED
    BY <2>1, <2>2
<1>3. ASSUME NEW h
      PROVE  h \in held' <=> h \in held /\ \E k \in (Base + n)..Newest : h = Piece(k)
  <2>1. h \in held' <=> h \in held /\ SeqOff(At(n), h.seq) >= 0
    BY DEF Advance
  <2>2. ASSUME h \in held
        PROVE  SeqOff(At(n), h.seq) >= 0 <=> \E k \in (Base + n)..Newest : h = Piece(k)
    <3>1. PICK j \in Base..Newest : h = Piece(j)
      BY <2>2 DEF Core, ReceiverOK
    <3>2. \A k : Piece(k).seq = Number(k) /\ Piece(k).data = k
      BY DEF Piece
    <3>3. j \in Base..Packets /\ j \in Int
      OBVIOUS
    <3>4. SeqOff(At(n), h.seq) >= 0 <=> j >= Base + n
      BY <1>2, <3>1, <3>2, <3>3
    <3>5. (\E k \in (Base + n)..Newest : h = Piece(k)) <=> j \in (Base + n)..Newest
      BY <3>1, <3>2
    <3> QED
      BY <3>3, <3>4, <3>5
  <2> QED
    BY <2>1, <2>2
<1>4. start' = Number(Base + n)
  BY <1>1 DEF Advance
<1>5. Core' /\ Base' = Base + n
  BY <1>3, <1>4, MovesOn
<1>6. ASSUME NEW k \in (Base + n)..Packets
      PROVE  Number(k) \in passed' <=> Number(k) \in passed \/ Number(k) \in ahead
  <2>1. SeqOff(At(n), Number(k)) >= 0
    BY <1>2
  <2> QED
    BY <2>1 DEF Advance
<1> QED
  BY <1>5, <1>6

\* All in front of the buffer is read after the step if it was, or is thrown away now.
LEMMA AllBefore ==
    ASSUME Core, PassedOK, NEW k \in 1..(Base + Front - 1)
    PROVE  ReadAt(MsgOf[k]) # {}
<1> USE PlacesAre
<1>1. Front \in 0..InOrder /\ InOrder = Acked - Base
  BY InOrderIs, FrontIs
<1>2. CASE k < Base
  <2>1. k \in 1..(Base - 1)
    BY <1>1, <1>2
  <2> QED
    BY <2>1 DEF PassedOK
<1>3. CASE k >= Base
  <2>1. k - Base \in 0..(Front - 1) /\ Base + (k - Base) = k
    BY <1>1, <1>3
  <2>2. ReadAt(MsgOf[Base + (k - Base)]) # {}
    BY <2>1, BehindFront
  <2> QED
    BY <2>1, <2>2
<1> QED
  BY <1>1, <1>2, <1>3

\* A read (recvmsg, readMsg) returns a whole message that was not read, after those before
\* it if it asks for order, and keeps book of what was read.
LEMMA recvmsgKeeps ==
    ASSUME Core, InboxOK, PassedOK, recvmsg
    PROVE  Core' /\ InboxOK' /\ PassedOK'
<1> USE PlacesAre
<1>1. UNCHANGED <<sender, net, rcvWindow, rcvState, rcvFailed>>
  BY DEF recvmsg
<1>2. {rcvBlocked'} \subseteq BOOLEAN
  BY Zenon DEF recvmsg, Core, Types
<1>3. /\ Front \in 0..(Acked - Base) /\ InOrder = Acked - Base
      /\ \A k \in 1..(Base + Front - 1) : ReadAt(MsgOf[k]) # {}
  BY <1>1, InOrderIs, FrontIs, AllBefore
<1>4. CASE Found = {}
  <2>1. Advance(Front, {}) /\ UNCHANGED inbox
    BY <1>4 DEF recvmsg
  <2>2. /\ Core' /\ Base' = Base + Front
        /\ \A k \in (Base + Front)..Packets : Number(k) \in passed' <=> Number(k) \in passed
    BY <1>1, <1>2, <1>3, <2>1, AdvanceIs
  <2>3. \A m : ReadAt(m)' = ReadAt(m)
    BY <2>1 DEF ReadAt
  <2>4. InboxOK'
    BY <1>1, <2>1, <2>3 DEF InboxOK
  <2>5. \A k \in (Base + Front)..Packets : k \in Base..Packets
    BY <1>3
  <2>6. PassedOK'
    <3>1. \A k \in 1..(Base' - 1) : ReadAt(MsgOf[k])' # {}
      <4>1. \A k \in 1..(Base' - 1) : k \in 1..(Base + Front - 1)
        BY <1>3, <2>2
      <4> QED
        BY <1>3, <2>3, <4>1, Zenon
    <3>2. \A k \in (Base')..Packets : Number(k) \in passed' <=> ReadAt(MsgOf[k])' # {}
      <4> SUFFICES ASSUME NEW k \in (Base + Front)..Packets
                   PROVE  Number(k) \in passed' <=> ReadAt(MsgOf[k])' # {}
        BY <2>2
      <4>1. Number(k) \in passed <=> ReadAt(MsgOf[k]) # {}
        BY <2>5, Zenon DEF PassedOK
      <4> QED
        BY <2>2, <2>3, <4>1, Zenon
    <3> QED
      BY <3>1, <3>2, Zenon DEF PassedOK
  <2> QED
    BY <2>2, <2>4, <2>6
<1>5. CASE \E pq \in Found : Read(pq[1], pq[2])
  <2>1. PICK p \in Seen, q \in Seen : <<p, q>> \in Found /\ Read(p, q)
    <3>1. PICK pq \in Found : Read(pq[1], pq[2])
      BY <1>5
    <3>2. pq \in Seen \X Seen
      BY DEF Found
    <3>3. pq = <<pq[1], pq[2]>> /\ pq[1] \in Seen /\ pq[2] \in Seen
      BY <3>2
    <3> QED
      BY <3>1, <3>3
  <2> DEFINE d == Base + p
  <2>2. p \in Int /\ q \in Int /\ p <= q /\ Front <= p /\ d \in Base..Packets /\ q = End(d) - Base
    BY <2>1, FoundIs
  <2> DEFINE got == [i \in 1..(q - p + 1) |-> Packet(p + i - 1)]
  <2>11. /\ d \in Firsts /\ got = Whole(d) /\ ReadAt(MsgOf[d]) = {}
         /\ q < InOrder \/ MsgOf[d] \in Unordered
    BY <2>1, FoundIs
  <2>3. inbox' = Append(inbox, Whole(d)) /\ \A other \in Found : q <= other[2]
    <3>1. inbox' = Append(inbox, got) /\ \A other \in Found : q <= other[2]
      BY <2>1, Zenon DEF Read
    <3> HIDE DEF got
    <3> QED
      BY <2>11, <3>1
  <2> HIDE DEF got
  <2>4. q < InOrder => p = Front
    BY <1>1, <2>1, <2>3, FirstFound
  <2>5. MsgOf[d] \in Unordered \/ \A k \in 1..(d - 1) : ReadAt(MsgOf[k]) # {}
    <3>1. CASE q < InOrder
      <4>1. d = Base + Front
        BY <2>4, <3>1
      <4> QED
        BY <1>3, <4>1
    <3>2. CASE ~(q < InOrder)
      BY <2>11, <3>2
    <3> QED
      BY <3>1, <3>2
  <2>6. /\ InboxOK'
        /\ \A m : ReadAt(m)' # {} <=> ReadAt(m) # {} \/ m = MsgOf[d]
    <3> HIDE DEF d
    <3> QED
      BY <2>3, <2>5, <2>11, ReadsOne
  <2>7. /\ d \in Int /\ End(d) \in d..Packets
        /\ \A k \in 1..Packets : MsgOf[k] = MsgOf[d] <=> k \in d..End(d)
    <3> HIDE DEF d
    <3> QED
      BY <2>11, MessageIs
  <2>8. CASE q < InOrder
    <3>1. Advance(q + 1, {}) /\ p = Front /\ q + 1 \in 0..(Acked - Base)
      <4>1. Advance(q + 1, {})
        BY <2>1, <2>8, Zenon DEF Read
      <4> QED
        BY <1>3, <2>2, <2>4, <2>8, <4>1
    <3>2. /\ Core' /\ Base' = Base + (q + 1)
          /\ \A k \in (Base + (q + 1))..Packets : Number(k) \in passed' <=> Number(k) \in passed
      BY <1>1, <1>2, <3>1, AdvanceIs
    <3>3. Base' = End(d) + 1 /\ Base + (q + 1) = End(d) + 1 /\ End(d) \in Int
      BY <2>2, <2>7, <3>2
    <3>4. ASSUME NEW k \in 1..(End(d) + 1 - 1) PROVE ReadAt(MsgOf[k])' # {}
      <4>1. k \in 1..(Base + Front - 1) \/ k \in d..End(d)
        BY <1>3, <2>2, <2>7, <3>1, <3>3
      <4>2. k \in 1..Packets
        BY <2>7, <3>3
      <4> QED
        BY <1>3, <2>6, <2>7, <4>1, <4>2
    <3>5. ASSUME NEW k \in (End(d) + 1)..Packets
          PROVE  Number(k) \in passed' <=> ReadAt(MsgOf[k])' # {}
      <4>1. k \in Base..Packets /\ k \in 1..Packets /\ k \notin d..End(d)
        BY <2>2, <2>7, <3>3
      <4>2. MsgOf[k] # MsgOf[d]
        BY <2>7, <4>1
      <4>3. Number(k) \in passed <=> ReadAt(MsgOf[k]) # {}
        BY <1>1, <4>1 DEF PassedOK
      <4> QED
        BY <2>6, <3>2, <3>3, <4>2, <4>3
    <3>6. PassedOK'
      BY <3>3, <3>4, <3>5 DEF PassedOK
    <3> QED
      BY <2>6, <3>2, <3>6
  <2>9. CASE ~(q < InOrder)
    <3> DEFINE ahead == {At(i) : i \in p..q}
    <3>1. Advance(Front, ahead)
      BY <2>1, <2>9 DEF Read
    <3>2. \A k \in Base..Packets : Number(k) \in ahead <=> MsgOf[k] = MsgOf[d]
      <4> SUFFICES ASSUME NEW k \in Base..Packets
                   PROVE  Number(k) \in ahead <=> MsgOf[k] = MsgOf[d]
        OBVIOUS
      <4>1. \A i \in p..q : At(i) = Number(Base + i) /\ Base + i \in Places /\ i \in Int
        <5> SUFFICES ASSUME NEW i \in p..q
                     PROVE  At(i) = Number(Base + i) /\ Base + i \in Places /\ i \in Int
          OBVIOUS
        <5>1. p \in 0..(Newest + 1 - Base) /\ q \in 0..(Newest + 1 - Base)
          BY <1>1, SeenIs
        <5>2. i \in 0..(Newest + 1 - Base) /\ i \in Int
          BY <2>2, <5>1
        <5> QED
          BY <1>1, <5>2, InOrderIs, InPlaces
      <4>2. k \in Places /\ k \in 1..Packets /\ k \in Int
        BY <1>1, InPlaces
      <4>3. ASSUME Number(k) \in ahead PROVE k \in d..End(d)
        <5>1. PICK i \in p..q : Number(k) = At(i)
          BY <4>3
        <5>2. k = Base + i
          BY <4>1, <4>2, <5>1, Apart
        <5> QED
          BY <1>1, <2>2, <2>7, <4>1, <5>2
      <4>4. ASSUME k \in d..End(d) PROVE Number(k) \in ahead
        <5>1. k - Base \in p..q /\ Base + (k - Base) = k
          BY <1>1, <2>2, <2>7, <4>4
        <5>2. At(k - Base) = Number(k)
          BY <4>1, <5>1
        <5> QED
          BY <5>1, <5>2
      <4> QED
        BY <2>7, <4>2, <4>3, <4>4
    <3> HIDE DEF ahead
    <3>3. /\ Core' /\ Base' = Base + Front
          /\ \A k \in (Base + Front)..Packets :
                Number(k) \in passed' <=> Number(k) \in passed \/ Number(k) \in ahead
      BY <1>1, <1>2, <1>3, <3>1, AdvanceIs
    <3>4. \A k \in 1..(Base + Front - 1) : ReadAt(MsgOf[k])' # {}
      BY <1>3, <2>6
    <3>5. ASSUME NEW k \in (Base + Front)..Packets
          PROVE  Number(k) \in passed' <=> ReadAt(MsgOf[k])' # {}
      <4>1. k \in Base..Packets
        BY <1>1, <1>3
      <4>2. Number(k) \in passed <=> ReadAt(MsgOf[k]) # {}
        BY <1>1, <4>1 DEF PassedOK
      <4>3. ReadAt(MsgOf[k])' # {} <=> ReadAt(MsgOf[k]) # {} \/ MsgOf[k] = MsgOf[d]
        BY <2>6, Zenon
      <4>4. Number(k) \in ahead <=> MsgOf[k] = MsgOf[d]
        BY <3>2, <4>1, Zenon
      <4>5. Number(k) \in passed' <=> Number(k) \in passed \/ Number(k) \in ahead
        BY <3>3, Zenon
      <4> QED
        BY <4>2, <4>3, <4>4, <4>5, Zenon
    <3>6. PassedOK'
      <4>1. /\ \A k \in 1..(Base' - 1) : k \in 1..(Base + Front - 1)
            /\ \A k \in (Base')..Packets : k \in (Base + Front)..Packets
        BY <1>3, <3>3
      <4> QED
        BY <3>4, <3>5, <4>1, Zenon DEF PassedOK
    <3> QED
      BY <2>6, <3>3, <3>6
  <2> QED
    BY <2>8, <2>9
<1> QED
  BY <1>4, <1>5 DEF recvmsg

\* Until a message is given up the steps of such a connection are those of a stream, but
\* for what its callers do.
LEMMA MsgSteps ==
    ASSUME MsgNext, dropped' = {}
    PROVE  /\ dropped = {}
           /\ Core => \/ (Next \/ sendmsg) /\ UNCHANGED <<start, passed, inbox>>
                      \/ recvmsg
<1>1. CASE sendmsg \/ recvmsg
  BY <1>1 DEF sendmsg, recvmsg, msgVars, receiver
<1>2. CASE SendLostOrDrop
  <2>1. dropped' = dropped
    BY <1>2 DEF SendLostOrDrop
  <2>2. /\ UNCHANGED <<next, sndCurr, sndLoss, added, first, sndLastAck, sndDataAck, window,
                       sndCaller, receiver, passed, inbox>>
        /\ taken # None /\ taken' = None
    BY <1>2 DEF SendLostOrDrop
  <2>3. \/ LostOffset < 0 /\ UNCHANGED <<listed, net>>
        \/ LostOffset >= 0 /\ LET m == Data(taken, first + LostOffset)
                              IN  Put(m) /\ Sent(m) /\ listed' = TRUE
    BY <1>2 DEF SendLostOrDrop
  <2>4. UNCHANGED <<start, sndBuffer>>
    BY <2>2 DEF receiver, sndBuffer
  <2>5. ASSUME Core PROVE SendLost
    <3>1. LostOffset \in Int
      <4>1. PICK k \in 1..(next - 1) : taken = Number(k)
        BY <2>2, <2>5 DEF Core, SenderOK
      <4>2. first \in Places /\ k \in Places /\ first \in Int /\ k \in Int
        BY <2>5, PlacesAre, InPlaces
      <4>3. sndDataAck = Number(first)
        BY <2>5 DEF Core, SenderOK
      <4> QED
        BY <4>1, <4>2, <4>3, Apart DEF LostOffset
    <3>2. LostOffset >= 0 => ~(LostOffset < 0)
      BY <3>1
    <3> QED
      BY <2>2, <2>3, <2>4, <3>2 DEF SendLost
  <2> QED
    BY <2>1, <2>2, <2>4, <2>5 DEF Next
<1>3. CASE Same(TakeLost) \/ Same(SendNew) \/ Same(Expire) \/ Same(SendAck)
  <2>1. UNCHANGED <<start, msgVars>>
    BY <1>3 DEF Same, TakeLost, SendNew, Expire, SendAck, receiver
  <2> QED
    BY <1>3, <2>1 DEF Same, Next, msgVars
<1>4. ASSUME NEW m \in net, Same(Lose(m)) \/ MsgArrives(m)
      PROVE  /\ dropped = {}
             /\ Core => Next /\ UNCHANGED <<start, passed, inbox>>
  <2>1. CASE Same(Lose(m))
    BY <2>1 DEF Same, Lose, Next, msgVars, receiver
  <2>2. CASE ProcessDrop(m, net \ {m})
    <3>1. m.type = "drop" /\ dropped' = dropped
      BY <2>2 DEF ProcessDrop, msgVars
    <3>2. ~Honest(m)
      BY <3>1 DEF Honest, Data, Ack, LiteAck, AckAck, Nak, Shutdown, PeerError
    <3> QED
      BY <3>1, <3>2 DEF Core
  <2>3. CASE /\ UNCHANGED msgVars
             /\ \/ ProcessAck(m, net \ {m}) \/ ProcessNak(m, net \ {m})
                \/ ProcessData(m, net \ {m}) \/ ProcessAckAck(m, net \ {m})
    <3>1. UNCHANGED start
      BY <2>3 DEF ProcessAck, ProcessNak, ProcessData, ProcessAckAck, receiver
    <3>2. Receive(m, net \ {m})
      BY <2>3 DEF Receive
    <3> QED
      BY <2>3, <3>1, <3>2 DEF ReceiveLast, Next, msgVars
  <2> QED
    BY <1>4, <2>1, <2>2, <2>3 DEF MsgArrives, MsgReceive
<1> QED
  BY <1>1, <1>2, <1>3, <1>4 DEF MsgNext

LEMMA MsgInvInit == MsgInit => MsgInv
<1> SUFFICES ASSUME MsgInit PROVE MsgInv
  OBVIOUS
<1>1. Core /\ NetFits
  BY InitCore, NetInit DEF MsgInit
<1>2. inbox = <<>> /\ passed = {} /\ Base = 1
  <2>1. 1 \in Places /\ Number(1) = ISN
    BY NumberIs, Bounds DEF Places
  <2> QED
    BY <2>1, PlaceIs DEF MsgInit, Init, Base
<1>3. \A m : ReadAt(m) = {}
  BY <1>2 DEF ReadAt
<1>4. InboxOK
  <2>1. inbox \in Seq(Wholes)
    <3> HIDE DEF Wholes
    <3> QED
      BY <1>2
  <2> QED
    BY <1>2, <1>3, <2>1 DEF InboxOK
<1>5. PassedOK
  BY <1>2, <1>3 DEF PassedOK
<1> QED
  BY <1>1, <1>4, <1>5 DEF MsgInv

\* What was read and marked stays so while neither changes.
LEMMA MarksStay ==
    ASSUME InboxOK, PassedOK, UNCHANGED <<start, passed, inbox>>
    PROVE  InboxOK' /\ PassedOK'
<1>1. Base' = Base /\ \A m : ReadAt(m)' = ReadAt(m)
  BY DEF Base, ReadAt
<1> QED
  BY <1>1 DEF InboxOK, PassedOK

LEMMA MsgInvNext ==
    ASSUME dropped = {} => MsgInv, [MsgNext]_<<vars, msgVars>>, dropped' = {}
    PROVE  MsgInv'
<1>1. CASE MsgNext
  <2>1. MsgInv
    BY <1>1, MsgSteps
  <2>2. CASE recvmsg
    BY <2>1, <2>2, recvmsgKeeps, NetStays DEF MsgInv
  <2>3. CASE (Next \/ sendmsg) /\ UNCHANGED <<start, passed, inbox>>
    BY <2>1, <2>3, NextCore, CallerCore, NetStays, MarksStay DEF MsgInv
  <2> QED
    BY <1>1, <2>1, <2>2, <2>3, MsgSteps DEF MsgInv
<1>2. CASE UNCHANGED <<vars, msgVars>>
  <2>1. MsgInv /\ UNCHANGED vars /\ UNCHANGED <<start, passed, inbox>>
    BY <1>2 DEF vars, msgVars, receiver
  <2> QED
    BY <2>1, CoreStill, MarksStay DEF MsgInv
<1> QED
  BY <1>1, <1>2

LEMMA MsgInvImplies == MsgInv => WindowsAgree /\ MessagesAreWhole
<1> SUFFICES ASSUME MsgInv PROVE WindowsAgree /\ MessagesAreWhole
  OBVIOUS
<1>1. WindowsAgree /\ InboxOK
  BY CoreImplies DEF MsgInv
<1>2. ASSUME NEW i \in DOMAIN inbox
      PROVE  \E d \in 1..Packets :
                IsFirst(d) /\ inbox[i] = [k \in 1..(End(d) - d + 1) |-> d + k - 1]
  <2>1. inbox[i] \in Wholes
    <3> HIDE DEF Wholes
    <3> QED
      BY <1>1, <1>2 DEF InboxOK
  <2>2. PICK d \in Firsts : inbox[i] = Whole(d)
    BY <2>1 DEF Wholes
  <2> QED
    BY <2>2, Zenon DEF Firsts, Whole
<1>3. ASSUME NEW m \in Message PROVE Cardinality(ReadAt(m)) <= 1
  <2>1. CASE ReadAt(m) = {}
    BY <2>1, FS_EmptySet
  <2>2. CASE ReadAt(m) # {}
    <3>1. PICK i : ReadAt(m) = {i}
      <4>1. PICK i : i \in ReadAt(m)
        BY <2>2
      <4>2. \A j \in ReadAt(m) : j = i
        BY <1>1, <4>1 DEF InboxOK
      <4> QED
        BY <4>1, <4>2
    <3> QED
      BY <3>1, FS_Singleton
  <2> QED
    BY <2>1, <2>2
<1> QED
  BY <1>1, <1>2, <1>3, Zenon DEF MessagesAreWhole, InboxOK

\* A datagram connection, whatever its messages, its buffers and its network, until one is
\* given up: both ends are right about each other, and every message is read whole, at most
\* once, and after all before it if it asks for order (CUDT::sendmsg, CUDT::recvmsg).
THEOREM MessagesAreReadWhole == MessagesSpec => []ReadsAreWhole
<1> DEFINE I == dropped = {} => MsgInv
<1>1. part = "messages" /\ MsgInit => I
  BY MsgInvInit
<1>2. I /\ [MsgNext /\ UNCHANGED part]_allVars => I'
  BY MsgInvNext DEF allVars
<1>3. I => ReadsAreWhole
  BY MsgInvImplies DEF ReadsAreWhole, MessagesAreWhole
<1> QED
  BY <1>1, <1>2, <1>3, PTL DEF MessagesSpec
-----------------------------------------------------------------------------
(* The run, which has this connection or one of messages.                    *)

PartsInv == /\ part = "stream" => Inv
            /\ part = "messages" /\ dropped = {} => MsgInv

LEMMA PartsInvInit == PartsInit => PartsInv
  BY InvInit, MsgInvInit DEF PartsInit, MsgInit, PartsInv

LEMMA PartsInvNext == PartsInv /\ [PartsNext]_allVars => PartsInv'
<1> SUFFICES ASSUME PartsInv, [PartsNext]_allVars PROVE PartsInv'
  OBVIOUS
<1>1. ASSUME part' = "stream" PROVE Inv'
  <2>1. part = "stream" /\ [Next]_vars
    BY <1>1 DEF PartsNext, Stream, Messages, Request, allVars
  <2> QED
    BY <2>1, InvNext DEF PartsInv
<1>2. ASSUME part' = "messages", dropped' = {} PROVE MsgInv'
  <2>1. part = "messages" /\ (dropped = {} => MsgInv)
    BY <1>2 DEF PartsNext, Stream, Messages, Request, allVars, PartsInv
  <2>2. [MsgNext]_<<vars, msgVars>>
    BY <1>2, <2>1 DEF PartsNext, Stream, Messages, Request, allVars, MsgNext, MsgArrives, MsgReceive
  <2> QED
    BY <1>2, <2>1, <2>2, MsgInvNext
<1> QED
  BY <1>1, <1>2 DEF PartsInv

\* What one end keeps of a stream covers what the other misses, and what a closing sender
\* has sent is received.
THEOREM EndsOfTheRunAgree == PartsSpec => []EndsAgree
<1>1. PartsInv => EndsAgree
  BY CoreImplies DEF PartsInv, Inv, EndsAgree
<1> QED
  BY <1>1, PartsInvInit, PartsInvNext, PTL DEF PartsSpec

\* The same of the run's messages.
THEOREM MessagesOfTheRunAreWhole == PartsSpec => []ReadsAreWhole
<1>1. PartsInv => ReadsAreWhole
  BY MsgInvImplies DEF PartsInv, ReadsAreWhole, MessagesAreWhole
<1> QED
  BY <1>1, PartsInvInit, PartsInvNext, PTL DEF PartsSpec

\* No step of the messages writes or reads a stream.
LEMMA MessagesDoNotRead ==
    ASSUME MsgNext \/ \E m \in net : ProcessDrop(m, net \ {m})
    PROVE  UNCHANGED read
<1>1. ASSUME NEW m, NEW rest, MsgReceive(m, rest) PROVE UNCHANGED read
  BY <1>1 DEF MsgReceive, ProcessAck, ProcessNak, ProcessData, ProcessAckAck, ProcessDrop,
              receiver, rcvCaller
<1>2. ASSUME NEW m, Lose(m) \/ ProcessDrop(m, net \ {m}) PROVE UNCHANGED read
  BY <1>2 DEF Lose, ProcessDrop, receiver, rcvCaller
<1>3. CASE sendmsg \/ SendLostOrDrop \/ recvmsg
  BY <1>3 DEF sendmsg, SendLostOrDrop, recvmsg, receiver, rcvCaller
<1>4. CASE TakeLost \/ SendNew \/ Expire \/ SendAck
  BY <1>4 DEF TakeLost, SendNew, Expire, SendAck, receiver, rcvCaller
<1> QED
  BY <1>1, <1>2, <1>3, <1>4 DEF MsgNext, MsgArrives, Same

\* The connections of the run read a stream in order; one of messages has none.
THEOREM RunReadsInOrder == PartsSpec => ReadsInOrder
<1>1. PartsInit => Written!Init
  BY DEF PartsInit, MsgInit, Init, Written!Init
<1>2. PartsInv /\ [PartsNext]_allVars
        => [Written!Next]_<<IF part = "stream" THEN added ELSE 0, read>>
  <2> SUFFICES ASSUME PartsInv, [PartsNext]_allVars
               PROVE  [Written!Next]_<<IF part = "stream" THEN added ELSE 0, read>>
    OBVIOUS
  <2>1. CASE part = "stream"
    <3>1. part' = "stream" /\ [Next]_vars
      BY <2>1 DEF PartsNext, Stream, Messages, Request, allVars
    <3>2. [Abstract!Next]_<<added, read>>
      BY <2>1, <3>1, ReadsTheStream DEF PartsInv, Inv
    <3>3. CASE UNCHANGED <<added, read>>
      BY <2>1, <3>1, <3>3
    <3>4. CASE Abstract!Write
      <4>1. added' = added + 1 /\ UNCHANGED read
        BY <3>4 DEF Abstract!Write
      <4> QED
        BY <2>1, <3>1, <4>1 DEF Written!Next, Written!Write
    <3>5. CASE Abstract!Read
      <4>1. UNCHANGED added /\ \E n \in 1..(added - Len(read)) :
                                   read' = read \o [i \in 1..n |-> Len(read) + i]
        BY <3>5 DEF Abstract!Read
      <4> QED
        BY <2>1, <3>1, <4>1 DEF Written!Next, Written!Read
    <3> QED
      BY <3>2, <3>3, <3>4, <3>5 DEF Abstract!Next
  <2>2. CASE part # "stream"
    <3>1. part' = part /\ UNCHANGED read
      BY <2>2, MessagesDoNotRead DEF PartsNext, Stream, Messages, Request, allVars, vars, receiver, rcvCaller
    <3> QED
      BY <2>2, <3>1
  <2> QED
    BY <2>1, <2>2
<1> QED
  BY <1>1, <1>2, PartsInvInit, PartsInvNext, PTL DEF PartsSpec, ReadsInOrder, Written!Spec
-----------------------------------------------------------------------------
(* The send buffer.  The two numbers by which UDTTransfer has it, of the      *)
(* packets added and of those sent, are what the marks of the ring enclose;    *)
(* the theorems at the end say so for rings, messages and numbers of any size. *)

CONSTANTS UnitSize, MaxSize, MaxLen, MaxMsgNo

VARIABLES block, firstBlock, currBlock, lastBlock, blockCount, adding, msgNo, blockRet

SB == INSTANCE UDTSndBuffer WITH first <- firstBlock, curr <- currBlock, last <- lastBlock,
                                 count <- blockCount, ret <- blockRet
-----------------------------------------------------------------------------
(* Walking round a ring.                                                     *)

\* Distance and Held of UDTSndBuffer, of any blocks and from any marks.
Dist(blk, b, c) == CHOOSE n \in 0..Len(blk) : /\ SB!AheadIn(blk, b, n) = c
                                              /\ \A k \in 0..(n - 1) : SB!AheadIn(blk, b, k) # c

Enclosed(blk, b, c) == [i \in 1..Dist(blk, b, c) |-> blk[SB!AheadIn(blk, b, i - 1)].data]

Content == [no : Nat, part : Nat, last : BOOLEAN]

Blocks == Seq([data : Content, next : Nat])

\* A place of a ring of n, counted on past its end.
Wrap(n, i) == IF i < n THEN i ELSE i - n

\* The order o in which the blocks follow one another: each once, and round.
IsRing(blk, o) ==
    /\ o \in [0..(Len(blk) - 1) -> 1..Len(blk)]
    /\ \A i, j \in 0..(Len(blk) - 1) : o[i] = o[j] => i = j
    /\ \A b \in 1..Len(blk) : \E i \in 0..(Len(blk) - 1) : o[i] = b
    /\ \A i \in 0..(Len(blk) - 1) : blk[o[i]].next = o[Wrap(Len(blk), i + 1)]

\* g lists the blocks n links from b on.
Follows(blk, b, n, g) == g = [i \in 0..n |-> IF i = 0 THEN b ELSE blk[g[i - 1]].next]

\* Whatever follows the links from b is where following them leads.
LEMMA WalkFollows ==
    ASSUME NEW blk, NEW b, NEW n \in Nat, NEW g, Follows(blk, b, n, g)
    PROVE  SB!AheadIn(blk, b, n) = g[n]
<1> DEFINE f == CHOOSE h : Follows(blk, b, n, h)
<1>1. SB!AheadIn(blk, b, n) = f[n]
  BY Zenon DEF SB!AheadIn, Follows
<1>2. Follows(blk, b, n, f)
  BY Zenon
<1>3. /\ \A i \in 0..n : f[i] = IF i = 0 THEN b ELSE blk[f[i - 1]].next
      /\ \A i \in 0..n : g[i] = IF i = 0 THEN b ELSE blk[g[i - 1]].next
  <2> HIDE DEF f
  <2> QED
    BY <1>2, Zenon DEF Follows
<1> HIDE DEF f
<1>4. SUFFICES ASSUME f[n] # g[n] PROVE FALSE
  BY <1>1, Zenon
<1> DEFINE S == {i \in 0..n : f[i] # g[i]}
<1>5. S \in SUBSET Nat /\ S # {}
  BY <1>4
<1>6. PICK x \in S : \A y \in S : ~(<<y, x>> \in Less)
  BY <1>5, LessWellFounded, WFMin
<1>7. x \in 0..n /\ f[x] # g[x]
  BY <1>6
<1>8. x # 0
  BY <1>7, <1>3
<1>9. x - 1 \in 0..n /\ x - 1 \in Nat /\ x \in Nat /\ x - 1 < x
  BY <1>7, <1>8
<1>10. f[x - 1] # g[x - 1]
  BY <1>3, <1>7, <1>8
<1>11. <<x - 1, x>> \in Less
  BY <1>9 DEF Less
<1> QED
  BY <1>6, <1>9, <1>10, <1>11

LEMMA WalkOnRing ==
    ASSUME NEW blk \in Blocks, NEW o, IsRing(blk, o),
           NEW a \in 0..(Len(blk) - 1), NEW n \in 0..Len(blk)
    PROVE  SB!AheadIn(blk, o[a], n) = o[Wrap(Len(blk), a + n)]
<1> DEFINE N == Len(blk)
           g == [i \in 0..n |-> o[Wrap(N, a + i)]]
<1>1. N \in Nat
  BY DEF Blocks
<1> HIDE DEF N
<1>2. Follows(blk, o[a], n, g)
  <2>1. ASSUME NEW i \in 0..n
        PROVE  o[Wrap(N, a + i)] = IF i = 0 THEN o[a] ELSE blk[g[i - 1]].next
    <3>1. CASE i = 0
      BY <3>1, <1>1 DEF Wrap, N
    <3>2. CASE i # 0
      <4> DEFINE k == Wrap(N, a + (i - 1))
      <4>1. i - 1 \in 0..n /\ k \in 0..(N - 1) /\ Wrap(N, k + 1) = Wrap(N, a + i)
        BY <3>2, <1>1 DEF Wrap, N
      <4>2. g[i - 1] = o[k]
        BY <4>1
      <4> HIDE DEF k
      <4>3. blk[o[k]].next = o[Wrap(N, k + 1)]
        BY <4>1 DEF IsRing, N
      <4> HIDE DEF g
      <4> QED
        BY <3>2, <4>1, <4>2, <4>3, Zenon
    <3> QED
      BY <3>1, <3>2
  <2>2. g = [i \in 0..n |-> o[Wrap(N, a + i)]]
    OBVIOUS
  <2> HIDE DEF g
  <2> QED
    BY <2>1, <2>2, Zenon DEF Follows
<1>3. g[0] = o[a] /\ g[n] = o[Wrap(N, a + n)] /\ n \in Nat
  BY <1>1 DEF Wrap, N
<1> HIDE DEF g
<1>4. SB!AheadIn(blk, o[a], n) = g[n]
  BY <1>2, <1>3, WalkFollows, Zenon
<1> QED
  BY <1>3, <1>4, Zenon DEF N

LEMMA DistOnRing ==
    ASSUME NEW blk \in Blocks, NEW o, IsRing(blk, o), NEW c \in 0..(Len(blk) - 1)
    PROVE  Dist(blk, o[0], o[c]) = c
<1> DEFINE Is(n) == /\ SB!AheadIn(blk, o[0], n) = o[c]
                    /\ \A k \in 0..(n - 1) : SB!AheadIn(blk, o[0], k) # o[c]
<1>1. Len(blk) \in Nat /\ 0 \in 0..(Len(blk) - 1) /\ c \in 0..Len(blk)
  BY DEF Blocks
<1>2. \A n \in 0..(Len(blk) - 1) : SB!AheadIn(blk, o[0], n) = o[n]
  <2> TAKE n \in 0..(Len(blk) - 1)
  <2>1. n \in 0..Len(blk) /\ Wrap(Len(blk), 0 + n) = n
    BY <1>1 DEF Wrap
  <2>2. SB!AheadIn(blk, o[0], n) = o[Wrap(Len(blk), 0 + n)]
    BY <1>1, <2>1, WalkOnRing, Zenon
  <2> QED
    BY <2>1, <2>2, Zenon
<1>3. Is(c)
  <2>1. ASSUME NEW k \in 0..(c - 1) PROVE SB!AheadIn(blk, o[0], k) # o[c]
    <3>1. k \in 0..(Len(blk) - 1) /\ k # c
      BY <1>1
    <3> QED
      BY <3>1, <1>2 DEF IsRing
  <2> QED
    BY <2>1, <1>2
<1>4. ASSUME NEW n \in 0..Len(blk), Is(n) PROVE n = c
  <2>1. CASE n < c
    <3>1. n \in 0..(Len(blk) - 1) /\ n # c
      BY <2>1, <1>1
    <3>2. o[n] = o[c]
      BY <3>1, <1>2, <1>4
    <3> QED
      BY <3>1, <3>2 DEF IsRing
  <2>2. CASE n > c
    <3>1. c \in 0..(n - 1)
      BY <2>2, <1>1
    <3> QED
      BY <3>1, <1>4, <1>2
  <2> QED
    BY <2>1, <2>2, <1>1
<1>5. Dist(blk, o[0], o[c]) = CHOOSE n \in 0..Len(blk) : Is(n)
  BY DEF Dist
<1> HIDE DEF Is
<1>6. \A n \in 0..Len(blk) : Is(n) <=> n = c
  BY <1>3, <1>4
<1>7. (CHOOSE n \in 0..Len(blk) : Is(n)) = c
  BY <1>1, <1>6, Zenon
<1> QED
  BY <1>5, <1>7, Zenon
LEMMA EnclosedOnRing ==
    ASSUME NEW blk \in Blocks, NEW o, IsRing(blk, o), NEW c \in 0..(Len(blk) - 1)
    PROVE  Enclosed(blk, o[0], o[c]) = [i \in 1..c |-> blk[o[i - 1]].data]
<1>1. Len(blk) \in Nat /\ 0 \in 0..(Len(blk) - 1) /\ c \in Nat
  BY DEF Blocks
<1>2. ASSUME NEW i \in 1..c PROVE SB!AheadIn(blk, o[0], i - 1) = o[i - 1]
  <2>1. i - 1 \in 0..Len(blk) /\ Wrap(Len(blk), 0 + (i - 1)) = i - 1
    BY <1>1 DEF Wrap
  <2>2. SB!AheadIn(blk, o[0], i - 1) = o[Wrap(Len(blk), 0 + (i - 1))]
    BY <1>1, <2>1, WalkOnRing, Zenon
  <2> QED
    BY <2>1, <2>2, Zenon
<1>3. Dist(blk, o[0], o[c]) = c
  BY DistOnRing
<1> QED
  BY <1>2, <1>3, Zenon DEF Enclosed

\* Seen from another place of it, a ring is a ring.
Turned(o, n, k) == [i \in 0..(n - 1) |-> o[Wrap(n, i + k)]]

LEMMA RingTurns ==
    ASSUME NEW blk \in Blocks, NEW o, IsRing(blk, o), NEW k \in 0..(Len(blk) - 1)
    PROVE  IsRing(blk, Turned(o, Len(blk), k))
<1> DEFINE N == Len(blk)
           t == Turned(o, N, k)
<1>1. N \in Nat
  BY DEF Blocks
<1> HIDE DEF N
<1>2. /\ o \in [0..(N - 1) -> 1..N]
      /\ \A i, j \in 0..(N - 1) : o[i] = o[j] => i = j
      /\ \A b \in 1..N : \E i \in 0..(N - 1) : o[i] = b
      /\ \A i \in 0..(N - 1) : blk[o[i]].next = o[Wrap(N, i + 1)]
  BY Zenon DEF IsRing, N
<1> DEFINE w(i) == Wrap(N, i + k)
<1>3. /\ \A i \in 0..(N - 1) : w(i) \in 0..(N - 1)
      /\ \A i \in 0..(N - 1) : /\ Wrap(N, i + 1) \in 0..(N - 1)
                               /\ Wrap(N, w(i) + 1) = w(Wrap(N, i + 1))
  BY <1>1 DEF N, Wrap
<1>4. \A i, j \in 0..(N - 1) : w(i) = w(j) => i = j
  BY <1>1 DEF N, Wrap
<1>5. ASSUME NEW i \in 0..(N - 1) PROVE \E j \in 0..(N - 1) : w(j) = i
  <2>1. CASE i >= k
    <3>1. i - k \in 0..(N - 1) /\ w(i - k) = i
      BY <2>1, <1>1 DEF N, Wrap
    <3> HIDE DEF w
    <3> QED
      BY <3>1
  <2>2. CASE i < k
    <3>1. i - k + N \in 0..(N - 1) /\ w(i - k + N) = i
      BY <2>2, <1>1 DEF N, Wrap
    <3> HIDE DEF w
    <3> QED
      BY <3>1
  <2> QED
    BY <2>1, <2>2, <1>1 DEF N
<1>6. \A i \in 0..(N - 1) : t[i] = o[w(i)]
  BY DEF Turned
<1>7. t \in [0..(N - 1) -> 1..N]
  <2>1. \A i \in 0..(N - 1) : o[w(i)] \in 1..N
    <3> HIDE DEF w
    <3> QED
      BY <1>2, <1>3
  <2>2. t = [i \in 0..(N - 1) |-> o[w(i)]]
    BY DEF Turned
  <2> HIDE DEF t, w
  <2> QED
    BY <2>1, <2>2
<1> HIDE DEF t, w
<1>8. \A i, j \in 0..(N - 1) : t[i] = t[j] => i = j
  BY <1>2, <1>3, <1>4, <1>6
<1>9. ASSUME NEW b \in 1..N PROVE \E i \in 0..(N - 1) : t[i] = b
  <2>1. PICK j \in 0..(N - 1) : o[j] = b
    BY <1>2
  <2>2. PICK i \in 0..(N - 1) : w(i) = j
    BY <1>5
  <2> QED
    BY <2>1, <2>2, <1>6
<1>10. ASSUME NEW i \in 0..(N - 1) PROVE blk[t[i]].next = t[Wrap(N, i + 1)]
  <2>1. w(i) \in 0..(N - 1) /\ Wrap(N, i + 1) \in 0..(N - 1)
    BY <1>3
  <2>2. t[i] = o[w(i)] /\ t[Wrap(N, i + 1)] = o[w(Wrap(N, i + 1))]
    BY <1>6, <2>1
  <2>3. blk[o[w(i)]].next = o[Wrap(N, w(i) + 1)]
    BY <1>2, <2>1
  <2> QED
    BY <1>3, <2>2, <2>3
<1> QED
  BY <1>7, <1>8, <1>9, <1>10, Zenon DEF IsRing, N, t
-----------------------------------------------------------------------------
(* Enclosed the marks.                                                        *)

\* The number a messages before x.
Before(x, a) == IF a < x THEN x - a ELSE x - a + (MaxMsgNo - 1)

\* Block b holds a message a places before the next one, for one of these a, or none.
Holds(blk, b, nxt, A) == blk[b].data.no = 0 \/ \E a \in A : blk[b].data.no = Before(nxt, a)

\* The further a block is behind the last mark, the older its message may be, a message
\* at most for each block; the block at the mark is older than the newest message.
Aged(blk, o, h, nxt) ==
    /\ \A j \in 0..(Len(blk) - 1) :
          Holds(blk, o[Wrap(Len(blk), h + j)], nxt, (IF j = 0 THEN 2 ELSE 1)..(Len(blk) - j))
    /\ h > 0 => blk[o[h - 1]].data.no = Before(nxt, 1)

\* Blocks in the order o from mark f, of which the first s, up to mark c, were read; up to
\* mark l they hold queue q, and one block at least is free.
Marked(blk, o, f, c, l, q, s, nxt) ==
    /\ blk \in Blocks /\ IsRing(blk, o)
    /\ q \in Seq(Content) /\ Len(q) < Len(blk) /\ s \in 0..Len(q)
    /\ o[0] = f /\ o[s] = c /\ o[Len(q)] = l
    /\ \A i \in 1..Len(q) : blk[o[i - 1]].data = q[i]
    /\ Aged(blk, o, Len(q), nxt)

LEMMA MarksShow ==
    ASSUME NEW blk, NEW o, NEW f, NEW c, NEW l, NEW q, NEW s, NEW nxt,
           Marked(blk, o, f, c, l, q, s, nxt)
    PROVE  /\ Enclosed(blk, f, l) = q /\ Dist(blk, f, c) = s
           /\ Len(blk) \in Nat \ {0} /\ Len(q) \in Nat
           /\ \A k \in 0..(Len(blk) - 1) : SB!AheadIn(blk, f, k) = o[k]
<1>1. /\ blk \in Blocks /\ IsRing(blk, o)
      /\ q \in Seq(Content) /\ Len(q) < Len(blk) /\ s \in 0..Len(q)
      /\ o[0] = f /\ o[s] = c /\ o[Len(q)] = l
      /\ \A i \in 1..Len(q) : blk[o[i - 1]].data = q[i]
  BY Zenon DEF Marked
<1>2. Len(blk) \in Nat \ {0} /\ Len(q) \in Nat /\ Len(q) \in 0..(Len(blk) - 1)
      /\ s \in 0..(Len(blk) - 1) /\ 0 \in 0..(Len(blk) - 1)
  BY <1>1 DEF Blocks
<1>3. Enclosed(blk, f, l) = [i \in 1..Len(q) |-> blk[o[i - 1]].data]
  BY <1>1, <1>2, EnclosedOnRing, Zenon
<1>4. [i \in 1..Len(q) |-> blk[o[i - 1]].data] = q
  BY <1>1, <1>2
<1>5. Dist(blk, f, c) = s
  BY <1>1, <1>2, DistOnRing, Zenon
<1>6. ASSUME NEW k \in 0..(Len(blk) - 1) PROVE SB!AheadIn(blk, f, k) = o[k]
  <2>1. k \in 0..Len(blk) /\ Wrap(Len(blk), 0 + k) = k
    BY <1>2 DEF Wrap
  <2>2. SB!AheadIn(blk, o[0], k) = o[Wrap(Len(blk), 0 + k)]
    BY <1>1, <1>2, <2>1, WalkOnRing, Zenon
  <2> QED
    BY <1>1, <2>1, <2>2, Zenon
<1> QED
  BY <1>2, <1>3, <1>4, <1>5, <1>6, Zenon
-----------------------------------------------------------------------------
(* What is done to the ring.                                                 *)

LEMMA WrapTurns ==
    ASSUME NEW N \in Nat, NEW h \in 0..(N - 1), NEW n \in 0..h, NEW j \in 0..(N - 1)
    PROVE  /\ Wrap(N, h - n + j) \in 0..(N - 1)
           /\ Wrap(N, Wrap(N, h - n + j) + n) = Wrap(N, h + j)
<1>1. CASE h - n + j < N
  BY <1>1 DEF Wrap
<1>2. CASE h - n + j >= N
  BY <1>2 DEF Wrap
<1> QED
  BY <1>1, <1>2

\* Forgetting packets from the front.
LEMMA MarkForgets ==
    ASSUME NEW blk, NEW o, NEW f, NEW c, NEW l, NEW q, NEW s, NEW nxt,
           Marked(blk, o, f, c, l, q, s, nxt), NEW n \in 0..s
    PROVE  Marked(blk, Turned(o, Len(blk), n), o[n], c, l, SubSeq(q, n + 1, Len(q)), s - n, nxt)
<1> DEFINE N == Len(blk)
           t == Turned(o, N, n)
           r == SubSeq(q, n + 1, Len(q))
<1>1. /\ blk \in Blocks /\ IsRing(blk, o)
      /\ q \in Seq(Content) /\ Len(q) < N /\ s \in 0..Len(q)
      /\ o[0] = f /\ o[s] = c /\ o[Len(q)] = l
      /\ \A i \in 1..Len(q) : blk[o[i - 1]].data = q[i]
      /\ Aged(blk, o, Len(q), nxt)
  BY Zenon DEF Marked
<1>2. N \in Nat /\ Len(q) \in Nat /\ s \in Nat /\ n \in Nat /\ n <= s /\ n \in 0..(N - 1)
  BY <1>1 DEF Blocks
<1>3. /\ r \in Seq(Content) /\ Len(r) = Len(q) - n
      /\ \A i \in 1..Len(r) : r[i] = q[i + n]
  <2>1. \A i \in (n + 1)..Len(q) : q[i] \in Content
    BY <1>1, <1>2
  <2>2. /\ r \in Seq(Content)
        /\ Len(r) = IF n + 1 <= Len(q) THEN Len(q) - (n + 1) + 1 ELSE 0
        /\ \A i \in 1..(Len(q) - (n + 1) + 1) : r[i] = q[n + 1 + i - 1]
    BY <1>2, <2>1, SubSeqProperties
  <2> HIDE DEF r
  <2> QED
    BY <1>1, <1>2, <2>2
<1>4. IsRing(blk, t)
  BY <1>1, <1>2, RingTurns, Zenon
<1>5. \A i \in 0..(N - 1) : t[i] = o[Wrap(N, i + n)]
  BY DEF Turned
<1> HIDE DEF r, t
<1>6. /\ t[0] = o[n] /\ t[s - n] = c /\ t[Len(r)] = l
      /\ \A i \in 1..Len(r) : t[i - 1] = o[i + n - 1]
  <2>1. /\ 0 \in 0..(N - 1) /\ s - n \in 0..(N - 1) /\ Len(r) \in 0..(N - 1)
        /\ \A i \in 1..Len(r) : i - 1 \in 0..(N - 1)
    BY <1>1, <1>2, <1>3
  <2>2. /\ Wrap(N, 0 + n) = n /\ Wrap(N, s - n + n) = s /\ Wrap(N, Len(r) + n) = Len(q)
        /\ \A i \in 1..Len(r) : Wrap(N, i - 1 + n) = i + n - 1
    BY <1>1, <1>2, <1>3 DEF Wrap
  <2>3. /\ t[0] = o[Wrap(N, 0 + n)] /\ t[s - n] = o[Wrap(N, s - n + n)]
        /\ t[Len(r)] = o[Wrap(N, Len(r) + n)]
        /\ \A i \in 1..Len(r) : t[i - 1] = o[Wrap(N, i - 1 + n)]
    BY <1>5, <2>1
  <2> QED
    BY <1>1, <2>2, <2>3
<1>7. \A i \in 1..Len(r) : blk[t[i - 1]].data = r[i]
  <2> TAKE i \in 1..Len(r)
  <2>1. i + n \in 1..Len(q) /\ (i + n) - 1 = i + n - 1
    BY <1>2, <1>3
  <2> QED
    BY <1>1, <1>3, <1>6, <2>1
<1>8. Aged(blk, t, Len(r), nxt)
  <2>1. ASSUME NEW j \in 0..(N - 1) PROVE t[Wrap(N, Len(r) + j)] = o[Wrap(N, Len(q) + j)]
    <3>1. /\ Wrap(N, Len(r) + j) \in 0..(N - 1)
          /\ Wrap(N, Wrap(N, Len(r) + j) + n) = Wrap(N, Len(q) + j)
      <4>1. Len(q) \in 0..(N - 1) /\ n \in 0..Len(q) /\ Len(r) = Len(q) - n
        BY <1>1, <1>2, <1>3
      <4>2. /\ Wrap(N, Len(q) - n + j) \in 0..(N - 1)
            /\ Wrap(N, Wrap(N, Len(q) - n + j) + n) = Wrap(N, Len(q) + j)
        BY <1>2, <4>1, WrapTurns, Zenon
      <4> QED
        BY <4>1, <4>2, Zenon
    <3> QED
      BY <1>5, <3>1
  <2>2. ASSUME Len(r) > 0 PROVE Len(q) > 0 /\ t[Len(r) - 1] = o[Len(q) - 1]
    <3>1. Len(r) \in 1..Len(r) /\ Len(r) + n - 1 = Len(q) - 1 /\ Len(q) > 0
      BY <2>2, <1>2, <1>3
    <3> QED
      BY <1>6, <3>1
  <2>3. /\ \A j \in 0..(N - 1) : Holds(blk, o[Wrap(N, Len(q) + j)], nxt,
                                      (IF j = 0 THEN 2 ELSE 1)..(N - j))
        /\ Len(q) > 0 => blk[o[Len(q) - 1]].data.no = Before(nxt, 1)
    BY <1>1, Zenon DEF Aged
  <2> HIDE DEF N
  <2>4. \A j \in 0..(N - 1) : Holds(blk, t[Wrap(N, Len(r) + j)], nxt,
                                   (IF j = 0 THEN 2 ELSE 1)..(N - j))
    BY <2>1, <2>3, Zenon
  <2> QED
    BY <2>2, <2>3, <2>4, Zenon DEF Aged, N
<1>9. Len(r) < N /\ s - n \in 0..Len(r)
  BY <1>1, <1>2, <1>3
<1> QED
  BY <1>1, <1>3, <1>4, <1>6, <1>7, <1>8, <1>9, Zenon DEF Marked, N, r, t
\* Increased of UDTSndBuffer, of any blocks and behind any mark.
Larger(blk, l) ==
    [blk EXCEPT ![l].next = Len(blk) + 1]
    \o [i \in 1..UnitSize |->
          [data |-> SB!Unused, next |-> IF i = UnitSize THEN blk[l].next ELSE Len(blk) + i + 1]]

\* The order of the blocks then, l being at place h.
Widened(o, n, h) == [i \in 0..(n + UnitSize - 1) |-> IF i <= h THEN o[i]
                                                    ELSE IF i <= h + UnitSize THEN n + (i - h)
                                                    ELSE o[i - UnitSize]]

LEMMA LargerIs ==
    ASSUME SB!Bounds, NEW blk \in Blocks, NEW l \in 1..Len(blk)
    PROVE  /\ Larger(blk, l) \in Blocks
           /\ Len(Larger(blk, l)) = Len(blk) + UnitSize
           /\ \A b \in 1..Len(blk) :
                 /\ Larger(blk, l)[b].data = blk[b].data
                 /\ Larger(blk, l)[b].next = IF b = l THEN Len(blk) + 1 ELSE blk[b].next
           /\ \A i \in 1..UnitSize :
                 /\ Larger(blk, l)[Len(blk) + i].data = SB!Unused
                 /\ Larger(blk, l)[Len(blk) + i].next
                      = IF i = UnitSize THEN blk[l].next ELSE Len(blk) + i + 1
<1> DEFINE N == Len(blk)
           R == [data : Content, next : Nat]
           x == [blk EXCEPT ![l].next = N + 1]
           e(i) == [data |-> SB!Unused, next |-> IF i = UnitSize THEN blk[l].next ELSE N + i + 1]
           y == [i \in 1..UnitSize |-> e(i)]
<1>1. UnitSize \in Nat \ {0}
  BY DEF SB!Bounds
<1>2. N \in Nat /\ blk \in Seq(R) /\ \A b \in 1..N : blk[b] \in R
  <2>1. blk \in Seq(R)
    BY DEF Blocks
  <2> HIDE DEF R
  <2> QED
    BY <2>1, ElementOfSeq
<1>3. /\ x \in Seq(R) /\ Len(x) = N
      /\ \A b \in 1..N : /\ x[b].data = blk[b].data
                         /\ x[b].next = IF b = l THEN N + 1 ELSE blk[b].next
  BY <1>2
<1>4. \A i \in 1..UnitSize : e(i) \in R
  <2>1. SB!Unused \in Content
    BY DEF SB!Unused, Content
  <2> QED
    BY <1>1, <1>2, <2>1
<1>5. y \in Seq(R) /\ Len(y) = UnitSize /\ \A i \in 1..UnitSize : y[i] = e(i)
  <2> HIDE DEF e, R
  <2> QED
    BY <1>1, <1>4
<1>6. /\ x \o y \in Seq(R) /\ Len(x \o y) = N + UnitSize
      /\ \A b \in 1..N : (x \o y)[b] = x[b]
      /\ \A i \in 1..UnitSize : (x \o y)[N + i] = y[i]
  <2> HIDE DEF x, y, R
  <2>1. /\ x \o y \in Seq(R) /\ Len(x \o y) = Len(x) + Len(y)
        /\ \A i \in 1..(Len(x) + Len(y)) : (x \o y)[i] = IF i <= Len(x) THEN x[i] ELSE y[i - Len(x)]
    BY <1>3, <1>5, ConcatProperties
  <2> QED
    BY <1>1, <1>2, <1>3, <1>5, <2>1
<1>7. Larger(blk, l) = x \o y
  BY DEF Larger
<1>8. \A i \in 1..UnitSize :
        y[i].data = SB!Unused /\ y[i].next = IF i = UnitSize THEN blk[l].next ELSE N + i + 1
  <2> TAKE i \in 1..UnitSize
  <2>1. y[i] = e(i)
    BY <1>5
  <2> HIDE DEF y
  <2> QED
    BY <2>1
<1>9. Blocks = Seq(R)
  BY DEF Blocks
<1> HIDE DEF x, y, e, R
<1>10. \A b \in 1..N : (x \o y)[b].data = blk[b].data
                      /\ (x \o y)[b].next = IF b = l THEN N + 1 ELSE blk[b].next
  BY <1>3, <1>6, Zenon
<1>11. \A i \in 1..UnitSize :
         (x \o y)[N + i].data = SB!Unused
         /\ (x \o y)[N + i].next = IF i = UnitSize THEN blk[l].next ELSE N + i + 1
  BY <1>6, <1>8, Zenon
<1> QED
  BY <1>6, <1>7, <1>9, <1>10, <1>11, Zenon

LEMMA RingWidens ==
    ASSUME SB!Bounds, NEW blk \in Blocks, NEW o, IsRing(blk, o), NEW h \in 0..(Len(blk) - 1)
    PROVE  IsRing(Larger(blk, o[h]), Widened(o, Len(blk), h))
<1> DEFINE N == Len(blk)
           U == UnitSize
           L == Larger(blk, o[h])
           w == Widened(o, N, h)
<1>1. N \in Nat /\ U \in Nat \ {0} /\ h \in 0..(N - 1)
  BY DEF SB!Bounds, Blocks
<1> HIDE DEF N, U
<1>2. /\ o \in [0..(N - 1) -> 1..N]
      /\ \A i, j \in 0..(N - 1) : o[i] = o[j] => i = j
      /\ \A b \in 1..N : \E i \in 0..(N - 1) : o[i] = b
      /\ \A i \in 0..(N - 1) : blk[o[i]].next = o[Wrap(N, i + 1)]
  BY Zenon DEF IsRing, N
<1>3. /\ Len(L) = N + U
      /\ \A b \in 1..N : L[b].next = IF b = o[h] THEN N + 1 ELSE blk[b].next
      /\ \A i \in 1..U : L[N + i].next = IF i = U THEN blk[o[h]].next ELSE N + i + 1
  <2>1. o[h] \in 1..Len(blk)
    BY <1>1, <1>2 DEF N
  <2> QED
    BY <2>1, LargerIs, Zenon DEF N, U
<1>4. \A i \in 0..(N + U - 1) : w[i] = IF i <= h THEN o[i]
                                       ELSE IF i <= h + U THEN N + (i - h) ELSE o[i - U]
  BY DEF Widened, U
<1>5. w \in [0..(N + U - 1) -> 1..(N + U)]
  <2>1. ASSUME NEW i \in 0..(N + U - 1)
        PROVE  (IF i <= h THEN o[i] ELSE IF i <= h + U THEN N + (i - h) ELSE o[i - U]) \in 1..(N + U)
    <3>1. \A k \in 0..(N - 1) : o[k] \in 1..(N + U)
      BY <1>1, <1>2
    <3>2. CASE i <= h
      <4>1. i \in 0..(N - 1)
        BY <1>1, <3>2
      <4> QED
        BY <3>1, <3>2, <4>1
    <3>3. CASE i > h /\ i <= h + U
      BY <1>1, <3>3
    <3>4. CASE i > h + U
      <4>1. i - U \in 0..(N - 1) /\ ~(i <= h) /\ ~(i <= h + U)
        BY <1>1, <3>4
      <4> QED
        BY <3>1, <4>1
    <3> QED
      BY <1>1, <3>2, <3>3, <3>4
  <2> QED
    BY <2>1 DEF Widened, U
<1> HIDE DEF w, L
<1>6. ASSUME NEW i \in 0..(N + U - 1), NEW j \in 0..(N + U - 1), w[i] = w[j] PROVE i = j
  <2> DEFINE new(k) == k > h /\ k <= h + U
             back(k) == IF k <= h THEN k ELSE k - U
  <2>1. ASSUME NEW k \in 0..(N + U - 1)
        PROVE  /\ new(k) => w[k] = N + (k - h) /\ w[k] > N
               /\ ~new(k) => back(k) \in 0..(N - 1) /\ w[k] = o[back(k)]
    BY <1>1, <1>4
  <2>2. ASSUME NEW k \in 0..(N + U - 1), ~new(k) PROVE ~(w[k] > N)
    <3>1. back(k) \in 0..(N - 1) /\ w[k] = o[back(k)]
      BY <2>1, <2>2
    <3> HIDE DEF back
    <3>2. o[back(k)] \in 1..N
      BY <1>2, <3>1
    <3> QED
      BY <1>1, <3>1, <3>2
  <2>3. CASE new(i) /\ new(j)
    <3>1. N + (i - h) = N + (j - h)
      BY <1>6, <2>1, <2>3
    <3> QED
      BY <1>1, <3>1
  <2>4. CASE ~new(i) /\ ~new(j)
    <3>1. back(i) = back(j)
      <4>1. back(i) \in 0..(N - 1) /\ back(j) \in 0..(N - 1) /\ o[back(i)] = o[back(j)]
        BY <1>6, <2>1, <2>4
      <4> HIDE DEF back
      <4> QED
        BY <1>2, <4>1
    <3> QED
      BY <1>1, <2>4, <3>1
  <2>5. CASE new(i) /\ ~new(j)
    BY <1>6, <2>1, <2>2, <2>5, Zenon
  <2>6. CASE ~new(i) /\ new(j)
    BY <1>6, <2>1, <2>2, <2>6, Zenon
  <2> QED
    BY <2>3, <2>4, <2>5, <2>6, Zenon
<1>7. ASSUME NEW b \in 1..(N + U) PROVE \E i \in 0..(N + U - 1) : w[i] = b
  <2>1. CASE b > N
    <3>1. h + (b - N) \in 0..(N + U - 1) /\ w[h + (b - N)] = b
      BY <1>1, <1>4, <2>1
    <3> QED
      BY <3>1
  <2>2. CASE b <= N
    <3>1. PICK k \in 0..(N - 1) : o[k] = b
      BY <1>1, <1>2, <2>2
    <3>2. CASE k <= h
      BY <1>1, <1>4, <3>1, <3>2
    <3>3. CASE k > h
      <4>1. k + U \in 0..(N + U - 1) /\ w[k + U] = b
        BY <1>1, <1>4, <3>1, <3>3
      <4> QED
        BY <4>1
    <3> QED
      BY <3>2, <3>3, <1>1
  <2> QED
    BY <2>1, <2>2, <1>1
<1>8. ASSUME NEW i \in 0..(N + U - 1) PROVE L[w[i]].next = w[Wrap(N + U, i + 1)]
  <2>1. CASE i < h
    <3>1. /\ i \in 0..(N - 1) /\ w[i] = o[i] /\ o[i] # o[h] /\ o[i] \in 1..N
          /\ Wrap(N, i + 1) = i + 1 /\ Wrap(N + U, i + 1) = i + 1 /\ w[i + 1] = o[i + 1]
      <4>1. i \in 0..(N - 1) /\ i \in 0..(N + U - 1) /\ i + 1 \in 0..(N + U - 1) /\ i <= h /\ i + 1 <= h
            /\ i # h
        BY <1>1, <2>1
      <4>2. o[i] # o[h] /\ o[i] \in 1..N
        BY <1>1, <1>2, <4>1
      <4>3. w[i] = o[i] /\ w[i + 1] = o[i + 1]
        BY <1>4, <4>1
      <4>4. Wrap(N, i + 1) = i + 1 /\ Wrap(N + U, i + 1) = i + 1
        BY <1>1, <2>1 DEF Wrap
      <4> QED
        BY <4>1, <4>2, <4>3, <4>4
    <3> QED
      BY <1>2, <1>3, <3>1
  <2>2. CASE i = h
    <3>1. /\ w[i] = o[h] /\ o[h] \in 1..N /\ Wrap(N + U, i + 1) = h + 1 /\ w[h + 1] = N + 1
      BY <1>1, <1>2, <1>4, <2>2 DEF Wrap
    <3> QED
      BY <1>3, <3>1
  <2>3. CASE i > h /\ i < h + U
    <3>1. /\ w[i] = N + (i - h) /\ i - h \in 1..U /\ i - h # U /\ Wrap(N + U, i + 1) = i + 1
          /\ w[i + 1] = N + (i - h) + 1
      BY <1>1, <1>4, <2>3 DEF Wrap
    <3> QED
      BY <1>3, <3>1
  <2>4. CASE i = h + U
    <3>1. w[i] = N + U /\ U \in 1..U /\ blk[o[h]].next = o[Wrap(N, h + 1)]
      BY <1>1, <1>2, <1>4, <2>4
    <3>2. L[w[i]].next = o[Wrap(N, h + 1)]
      BY <1>3, <3>1
    <3>3. w[Wrap(N + U, i + 1)] = o[Wrap(N, h + 1)]
      BY <1>1, <1>4, <2>4 DEF Wrap
    <3> QED
      BY <3>2, <3>3
  <2>5. CASE i > h + U
    <3>1. /\ i - U \in 0..(N - 1) /\ w[i] = o[i - U] /\ o[i - U] # o[h] /\ o[i - U] \in 1..N
      <4>1. i - U \in 0..(N - 1) /\ i - U # h /\ ~(i <= h) /\ ~(i <= h + U)
        BY <1>1, <2>5
      <4>2. o[i - U] # o[h] /\ o[i - U] \in 1..N
        BY <1>1, <1>2, <4>1
      <4> QED
        BY <1>4, <4>1, <4>2
    <3>2. L[w[i]].next = o[Wrap(N, i - U + 1)]
      BY <1>2, <1>3, <3>1
    <3>3. w[Wrap(N + U, i + 1)] = o[Wrap(N, i - U + 1)]
      BY <1>1, <1>4, <2>5 DEF Wrap
    <3> QED
      BY <3>2, <3>3
  <2> QED
    BY <2>1, <2>2, <2>3, <2>4, <2>5, <1>1
<1>9. IsRing(L, w)
  <2> DEFINE M == Len(L)
  <2>1. M = N + U /\ M \in Nat /\ N \in Nat /\ U \in Nat
    BY <1>1, <1>3
  <2> HIDE DEF M
  <2>2. w \in [0..(M - 1) -> 1..M]
    BY <1>5, <2>1
  <2>3. \A i, j \in 0..(M - 1) : w[i] = w[j] => i = j
    BY <1>6, <2>1
  <2>4. \A b \in 1..M : \E i \in 0..(M - 1) : w[i] = b
    BY <1>7, <2>1
  <2>5. \A i \in 0..(M - 1) : L[w[i]].next = w[Wrap(M, i + 1)]
    BY <1>8, <2>1
  <2> QED
    BY <2>2, <2>3, <2>4, <2>5, Zenon DEF IsRing, M
<1> QED
  BY <1>9 DEF L, w, N
\* More blocks change nothing between the marks, and are no younger than the place they are put in.
LEMMA MarkWidens ==
    ASSUME SB!Bounds, NEW blk, NEW o, NEW f, NEW c, NEW l, NEW q, NEW s, NEW nxt,
           Marked(blk, o, f, c, l, q, s, nxt)
    PROVE  /\ Marked(Larger(blk, l), Widened(o, Len(blk), Len(q)), f, c, l, q, s, nxt)
           /\ Len(Larger(blk, l)) = Len(blk) + UnitSize
<1> DEFINE N == Len(blk)
           U == UnitSize
           h == Len(q)
           L == Larger(blk, l)
           w == Widened(o, N, h)
           young(j) == IF j = 0 THEN 2 ELSE 1
<1>1. /\ blk \in Blocks /\ IsRing(blk, o)
      /\ q \in Seq(Content) /\ h < N /\ s \in 0..h
      /\ o[0] = f /\ o[s] = c /\ o[h] = l
      /\ \A i \in 1..h : blk[o[i - 1]].data = q[i]
      /\ Aged(blk, o, h, nxt)
  BY Zenon DEF Marked
<1>2. /\ N \in Nat /\ U \in Nat \ {0} /\ h \in Nat /\ h \in 0..(N - 1)
      /\ s \in 0..h /\ s \in 0..(N - 1) /\ 0 \in 0..(N - 1)
  BY <1>1 DEF SB!Bounds, Blocks
<1>3. \A i \in 0..(N - 1) : o[i] \in 1..N
  BY <1>1 DEF IsRing
<1>4. /\ L \in Blocks /\ Len(L) = N + U
      /\ \A b \in 1..N : L[b].data = blk[b].data
      /\ \A i \in 1..U : L[N + i].data = SB!Unused
  <2>1. l \in 1..Len(blk)
    BY <1>1, <1>2, <1>3
  <2> QED
    BY <1>1, <2>1, LargerIs, Zenon
<1>5. IsRing(L, w)
  BY <1>1, <1>2, RingWidens
<1>6. \A i \in 0..(N + U - 1) : w[i] = IF i <= h THEN o[i]
                                       ELSE IF i <= h + U THEN N + (i - h) ELSE o[i - U]
  BY DEF Widened
<1> HIDE DEF N, U, h, w, L
<1>7. \A i \in 0..h : w[i] = o[i] /\ o[i] \in 1..N
  BY <1>2, <1>3, <1>6
<1>8. \A i \in 1..h : L[w[i - 1]].data = q[i]
  <2> TAKE i \in 1..h
  <2>1. i - 1 \in 0..h
    BY <1>2
  <2>2. w[i - 1] = o[i - 1] /\ o[i - 1] \in 1..N
    BY <1>7, <2>1
  <2> QED
    BY <1>1, <1>4, <2>2
<1>9. /\ \A j \in 0..(N - 1) : Holds(blk, o[Wrap(N, h + j)], nxt, young(j)..(N - j))
      /\ h > 0 => blk[o[h - 1]].data.no = Before(nxt, 1)
  BY <1>1, Zenon DEF Aged, N
<1>10. ASSUME NEW j \in 0..(N + U - 1)
       PROVE  Holds(L, w[Wrap(N + U, h + j)], nxt, young(j)..(N + U - j))
  <2>1. CASE j = 0
    <3>1. Wrap(N + U, h + j) = h /\ Wrap(N, h + 0) = h /\ 2..N \subseteq 2..(N + U) /\ N - 0 = N /\ N + U - j = N + U
      BY <1>2, <2>1 DEF Wrap
    <3>2. Holds(blk, o[h], nxt, 2..N)
      BY <1>2, <1>9, <3>1
    <3>3. w[h] = o[h] /\ L[o[h]].data = blk[o[h]].data
      BY <1>2, <1>4, <1>7
    <3> QED
      BY <2>1, <3>1, <3>2, <3>3 DEF Holds
  <2>2. CASE j \in 1..U
    <3>1. /\ Wrap(N + U, h + j) = h + j /\ h + j \in 0..(N + U - 1) /\ ~(h + j <= h) /\ h + j <= h + U
          /\ N + (h + j - h) = N + j
      BY <1>2, <2>2 DEF Wrap
    <3>2. w[h + j] = N + j
      BY <1>2, <1>6, <2>2, <3>1
    <3>3. L[N + j].data.no = 0
      BY <1>4, <2>2 DEF SB!Unused
    <3> QED
      BY <3>1, <3>2, <3>3 DEF Holds
  <2>3. CASE j > U
    <3> DEFINE i == Wrap(N, h + (j - U))
    <3>1. j - U \in 0..(N - 1) /\ j - U # 0 /\ N - (j - U) = N + U - j /\ i \in 0..(N - 1)
      BY <1>2, <2>3 DEF Wrap
    <3>2. w[Wrap(N + U, h + j)] = o[i]
      <4>1. CASE h + j < N + U
        <5>1. /\ Wrap(N + U, h + j) = h + j /\ i = h + j - U /\ h + j \in 0..(N + U - 1)
              /\ ~(h + j <= h) /\ ~(h + j <= h + U)
          BY <1>2, <2>3, <4>1 DEF Wrap
        <5> HIDE DEF i
        <5> QED
          BY <1>2, <1>6, <2>3, <5>1
      <4>2. CASE h + j >= N + U
        <5>1. /\ Wrap(N + U, h + j) = i /\ i \in 0..h
          BY <1>2, <2>3, <4>2 DEF Wrap
        <5> HIDE DEF i
        <5> QED
          BY <1>7, <5>1
      <4> QED
        BY <4>1, <4>2, <1>2
    <3> HIDE DEF i
    <3>3. Holds(blk, o[i], nxt, 1..(N + U - j))
      BY <1>9, <3>1 DEF i
    <3>4. L[o[i]].data = blk[o[i]].data
      BY <1>3, <1>4, <3>1
    <3> QED
      BY <1>2, <2>3, <3>2, <3>3, <3>4 DEF Holds
  <2> QED
    BY <2>1, <2>2, <2>3, <1>2
<1>11. h > 0 => L[w[h - 1]].data.no = Before(nxt, 1)
  <2> HAVE h > 0
  <2>1. h - 1 \in 0..h
    BY <1>2
  <2> QED
    BY <1>4, <1>7, <1>9, <2>1
<1>12. Aged(L, w, h, nxt)
  <2> DEFINE M == Len(L)
  <2>1. M = N + U /\ M \in Nat /\ N \in Nat /\ U \in Nat
    BY <1>2, <1>4
  <2> HIDE DEF M
  <2>2. \A j \in 0..(M - 1) : Holds(L, w[Wrap(M, h + j)], nxt, young(j)..(M - j))
    BY <1>10, <2>1
  <2> QED
    BY <1>11, <2>2, Zenon DEF Aged, M
<1>13. h < Len(L) /\ w[0] = f /\ w[s] = c /\ w[h] = l
  <2>1. 0 \in 0..h /\ s \in 0..h /\ h \in 0..h
    BY <1>2
  <2> QED
    BY <1>1, <1>2, <1>4, <1>7, <2>1
<1> QED
  BY <1>1, <1>2, <1>4, <1>5, <1>8, <1>12, <1>13, Zenon DEF Marked, h, w, L, N, U
MsgNos == 1..(MaxMsgNo - 1)

\* The number of the message after the one numbered x.
NoAfter(x) == IF x + 1 = MaxMsgNo THEN 1 ELSE x + 1

LEMMA Ages ==
    ASSUME SB!Bounds, NEW x \in MsgNos
    PROVE  /\ NoAfter(x) \in MsgNos /\ Before(NoAfter(x), 1) = x
           /\ \A a \in 1..MaxSize : Before(NoAfter(x), a + 1) = Before(x, a)
           /\ \A a \in 1..MaxSize : Before(x, a) \in MsgNos
           /\ \A a \in 2..MaxSize : Before(x, a) # Before(x, 1)
<1>1. MaxMsgNo \in Nat /\ MaxSize \in Nat \ {0} /\ MaxSize + 1 < MaxMsgNo
  BY DEF SB!Bounds
<1> QED
  BY <1>1 DEF MsgNos, Before, NoAfter

\* Packets m in the n blocks from b on.
FilledWith(blk, b, n, m) ==
    [x \in DOMAIN blk |->
       IF \E i \in 1..n : SB!AheadIn(blk, b, i - 1) = x
       THEN [blk[x] EXCEPT !.data = m[CHOOSE i \in 1..n : SB!AheadIn(blk, b, i - 1) = x]]
       ELSE blk[x]]

LEMMA FilledWithIs ==
    ASSUME NEW blk \in Blocks, NEW o, IsRing(blk, o), NEW n \in Nat, NEW h \in Nat,
           h + n < Len(blk), NEW m \in Seq(Content), Len(m) = n
    PROVE  /\ FilledWith(blk, o[h], n, m) \in Blocks
           /\ Len(FilledWith(blk, o[h], n, m)) = Len(blk)
           /\ \A x \in 1..Len(blk) : FilledWith(blk, o[h], n, m)[x].next = blk[x].next
           /\ \A k \in 0..(Len(blk) - 1) :
                 FilledWith(blk, o[h], n, m)[o[k]].data
                   = IF h <= k /\ k < h + n THEN m[k - h + 1] ELSE blk[o[k]].data
<1> DEFINE N == Len(blk)
           F == FilledWith(blk, o[h], n, m)
           R == [data : Content, next : Nat]
           at(i) == SB!AheadIn(blk, o[h], i - 1)
<1>1. /\ N \in Nat /\ DOMAIN blk = 1..N /\ \A x \in 1..N : blk[x] \in R
      /\ Blocks = Seq(R)
  <2>1. Blocks = Seq(R)
    BY DEF Blocks
  <2> HIDE DEF R
  <2> QED
    BY <2>1, ElementOfSeq, LenProperties
<1>2. /\ o \in [0..(N - 1) -> 1..N]
      /\ \A i, j \in 0..(N - 1) : o[i] = o[j] => i = j
      /\ \A b \in 1..N : \E i \in 0..(N - 1) : o[i] = b
  BY Zenon DEF IsRing
<1>3. ASSUME NEW i \in 1..n PROVE at(i) = o[h + i - 1] /\ h + i - 1 \in 0..(N - 1)
  <2>1. /\ i - 1 \in 0..N /\ Wrap(N, h + (i - 1)) = h + i - 1 /\ h \in 0..(N - 1)
        /\ h + i - 1 \in 0..(N - 1)
    BY <1>1 DEF Wrap
  <2>2. at(i) = o[Wrap(N, h + (i - 1))]
    BY <2>1, WalkOnRing, Zenon
  <2> QED
    BY <2>1, <2>2, Zenon
<1>4. \A x \in 1..N : F[x] = IF \E i \in 1..n : at(i) = x
                            THEN [blk[x] EXCEPT !.data = m[CHOOSE i \in 1..n : at(i) = x]]
                            ELSE blk[x]
  BY <1>1 DEF FilledWith
<1>5. F = [x \in 1..N |-> F[x]]
  BY <1>1 DEF FilledWith
<1> HIDE DEF N, F, at
<1>6. ASSUME NEW x \in 1..N
      PROVE  /\ F[x] \in R /\ F[x].next = blk[x].next
             /\ (\A i \in 1..n : at(i) # x) => F[x].data = blk[x].data
             /\ \A i \in 1..n : at(i) = x => F[x].data = m[i]
  <2>1. CASE \E i \in 1..n : at(i) = x
    <3> DEFINE k == CHOOSE i \in 1..n : at(i) = x
    <3>1. k \in 1..n /\ at(k) = x
      BY <2>1, Zenon
    <3>2. F[x] = [blk[x] EXCEPT !.data = m[k]]
      BY <1>4, <2>1, Zenon
    <3> HIDE DEF k
    <3>3. m[k] \in Content
      BY <3>1
    <3>4. ASSUME NEW i \in 1..n, at(i) = x PROVE i = k
      <4>1. o[h + i - 1] = o[h + k - 1] /\ h + i - 1 \in 0..(N - 1) /\ h + k - 1 \in 0..(N - 1)
        BY <1>3, <3>1, <3>4
      <4>2. h + i - 1 = h + k - 1
        BY <1>2, <4>1
      <4> QED
        BY <3>1, <4>2
    <3>5. blk[x] \in R
      BY <1>1
    <3>6. F[x] \in R /\ F[x].next = blk[x].next /\ F[x].data = m[k]
      BY <3>2, <3>3, <3>5
    <3> QED
      BY <2>1, <3>4, <3>6, Zenon
  <2>2. CASE ~\E i \in 1..n : at(i) = x
    <3>1. F[x] = blk[x]
      BY <1>4, <2>2, Zenon
    <3> QED
      BY <1>1, <2>2, <3>1, Zenon
  <2> QED
    BY <2>1, <2>2
<1>7. F \in Seq(R) /\ Len(F) = N
  <2> HIDE DEF R
  <2>1. \A x \in 1..N : F[x] \in R
    BY <1>6
  <2>2. F \in [1..N -> R]
    <3> DEFINE v(x) == F[x]
    <3>1. F = [x \in 1..N |-> v(x)]
      BY <1>5
    <3>2. \A x \in 1..N : v(x) \in R
      BY <2>1
    <3> HIDE DEF v
    <3> QED
      BY <3>1, <3>2
  <2> QED
    BY <1>1, <2>2
<1>8. ASSUME NEW k \in 0..(N - 1)
      PROVE  F[o[k]].data = IF h <= k /\ k < h + n THEN m[k - h + 1] ELSE blk[o[k]].data
  <2>1. o[k] \in 1..N
    BY <1>2
  <2>2. CASE h <= k /\ k < h + n
    <3>1. k - h + 1 \in 1..n /\ h + (k - h + 1) - 1 = k
      BY <2>2
    <3>2. at(k - h + 1) = o[k]
      BY <1>3, <3>1
    <3> QED
      BY <1>6, <2>1, <2>2, <3>1, <3>2, Zenon
  <2>3. CASE ~(h <= k /\ k < h + n)
    <3>1. ASSUME NEW i \in 1..n PROVE at(i) # o[k]
      <4>1. at(i) = o[h + i - 1] /\ h + i - 1 \in 0..(N - 1)
        BY <1>3
      <4>2. h + i - 1 # k
        BY <2>3, <1>1
      <4> QED
        BY <1>2, <4>1, <4>2
    <3> QED
      BY <1>6, <2>1, <2>3, <3>1, Zenon
  <2> QED
    BY <2>2, <2>3
<1> HIDE DEF R
<1> QED
  BY <1>1, <1>6, <1>7, <1>8, Zenon DEF N, F
\* A message put behind the mark is behind the queue, and all others are a message older.
LEMMA MarkFills ==
    ASSUME SB!Bounds, NEW blk, NEW o, NEW f, NEW c, NEW l, NEW q, NEW s, NEW nxt \in MsgNos,
           Marked(blk, o, f, c, l, q, s, nxt), Len(blk) <= MaxSize,
           NEW n \in Nat \ {0}, Len(q) + n < Len(blk),
           NEW m \in Seq(Content), Len(m) = n, \A i \in 1..n : m[i].no = nxt
    PROVE  /\ Marked(FilledWith(blk, l, n, m), o, f, c, SB!AheadIn(blk, l, n), q \o m, s, NoAfter(nxt))
           /\ Len(FilledWith(blk, l, n, m)) = Len(blk)
<1> DEFINE N == Len(blk)
           h == Len(q)
           F == FilledWith(blk, l, n, m)
           p == q \o m
           young(j) == IF j = 0 THEN 2 ELSE 1
<1>1. /\ blk \in Blocks /\ IsRing(blk, o)
      /\ q \in Seq(Content) /\ h < N /\ s \in 0..h
      /\ o[0] = f /\ o[s] = c /\ o[h] = l
      /\ \A i \in 1..h : blk[o[i - 1]].data = q[i]
      /\ Aged(blk, o, h, nxt)
  BY Zenon DEF Marked
<1>2. N \in Nat /\ h \in Nat /\ n \in Nat \ {0} /\ h + n < N /\ s \in 0..h /\ N <= MaxSize
      /\ MaxSize \in Nat
  BY <1>1 DEF Blocks, SB!Bounds
<1>3. /\ F \in Blocks /\ Len(F) = N
      /\ \A x \in 1..N : F[x].next = blk[x].next
      /\ \A k \in 0..(N - 1) :
            F[o[k]].data = IF h <= k /\ k < h + n THEN m[k - h + 1] ELSE blk[o[k]].data
  <2>1. n \in Nat
    OBVIOUS
  <2> QED
    BY <1>1, <1>2, <2>1, FilledWithIs
<1>4. SB!AheadIn(blk, l, n) = o[h + n]
  <2>1. h \in 0..(N - 1) /\ n \in 0..N /\ Wrap(N, h + n) = h + n
    BY <1>2 DEF Wrap
  <2>2. SB!AheadIn(blk, o[h], n) = o[Wrap(N, h + n)]
    BY <1>1, <2>1, WalkOnRing, Zenon
  <2> QED
    BY <1>1, <2>1, <2>2, Zenon
<1>5. /\ p \in Seq(Content) /\ Len(p) = h + n
      /\ \A i \in 1..(h + n) : p[i] = IF i <= h THEN q[i] ELSE m[i - h]
  BY <1>1, ConcatProperties
<1> HIDE DEF N, h, F, p
<1>6. \A i \in 0..(N - 1) : o[i] \in 1..N
  BY <1>1 DEF IsRing, N
<1>7. IsRing(F, o)
  BY <1>1, <1>3, <1>6 DEF IsRing, N
<1>8. ASSUME NEW i \in 1..(h + n) PROVE F[o[i - 1]].data = p[i]
  <2>1. i - 1 \in 0..(N - 1)
    BY <1>2
  <2>2. CASE i <= h
    <3>1. ~(h <= i - 1) /\ i \in 1..h
      BY <1>2, <2>2
    <3> QED
      BY <1>1, <1>3, <1>5, <2>1, <2>2, <3>1
  <2>3. CASE ~(i <= h)
    <3>1. h <= i - 1 /\ i - 1 < h + n /\ i - 1 - h + 1 = i - h
      BY <1>2, <2>3
    <3> QED
      BY <1>3, <1>5, <2>1, <2>3, <3>1
  <2> QED
    BY <2>2, <2>3
<1>9. ASSUME NEW k \in h..(h + n - 1) PROVE F[o[k]].data.no = nxt
  <2>1. k \in 0..(N - 1) /\ h <= k /\ k < h + n /\ k - h + 1 \in 1..n
    BY <1>2
  <2> QED
    BY <1>3, <2>1
<1>10. \A j \in 0..(N - 1) : Holds(blk, o[Wrap(N, h + j)], nxt, young(j)..(N - j))
  BY <1>1, Zenon DEF Aged, N
<1>11. ASSUME NEW j \in 0..(N - 1)
       PROVE  Holds(F, o[Wrap(N, h + n + j)], NoAfter(nxt), young(j)..(N - j))
  <2>1. CASE n + j < N
    <3> DEFINE i == Wrap(N, h + (n + j))
    <3>1. /\ n + j \in 0..(N - 1) /\ n + j # 0 /\ i = Wrap(N, h + n + j) /\ i \in 0..(N - 1)
          /\ ~(h <= i /\ i < h + n)
      BY <1>2, <2>1 DEF Wrap
    <3> HIDE DEF i
    <3>2. F[o[i]].data = blk[o[i]].data
      BY <1>3, <3>1
    <3>3. Holds(blk, o[i], nxt, 1..(N - (n + j)))
      BY <1>10, <3>1 DEF i
    <3>4. \A a \in 1..(N - (n + j)) : /\ a + 1 \in young(j)..(N - j)
                                    /\ Before(NoAfter(nxt), a + 1) = Before(nxt, a)
      <4> TAKE a \in 1..(N - (n + j))
      <4>1. a \in 1..MaxSize /\ a + 1 \in young(j)..(N - j)
        BY <1>2, <2>1
      <4> QED
        BY <4>1, Ages
    <3> QED
      BY <3>1, <3>2, <3>3, <3>4 DEF Holds
  <2>2. CASE n + j >= N
    <3> DEFINE i == Wrap(N, h + n + j)
    <3>1. i \in h..(h + n - 1) /\ 1 \in young(j)..(N - j)
      BY <1>2, <2>2 DEF Wrap
    <3> HIDE DEF i
    <3>2. F[o[i]].data.no = Before(NoAfter(nxt), 1)
      BY <1>9, <3>1, Ages
    <3> QED
      BY <3>1, <3>2 DEF Holds, i
  <2> QED
    BY <2>1, <2>2, <1>2
<1>12. F[o[(h + n) - 1]].data.no = Before(NoAfter(nxt), 1)
  <2>1. (h + n) - 1 \in h..(h + n - 1)
    BY <1>2
  <2> QED
    BY <1>9, <2>1, Ages
<1>13. Aged(F, o, h + n, NoAfter(nxt))
  <2> DEFINE M == Len(F)
  <2>1. M = N
    BY <1>3
  <2> HIDE DEF M
  <2>2. \A j \in 0..(M - 1) : Holds(F, o[Wrap(M, h + n + j)], NoAfter(nxt), young(j)..(M - j))
    BY <1>11, <2>1, Zenon
  <2> QED
    BY <1>12, <2>2, Zenon DEF Aged, M
<1>14. h + n < N /\ s \in 0..(h + n)
  BY <1>2
<1> QED
  BY <1>1, <1>3, <1>4, <1>5, <1>7, <1>8, <1>13, <1>14, Zenon DEF Marked, N, F, p, h

\* So the block at the mark does not hold the last message.
LEMMA MarkIsOlder ==
    ASSUME SB!Bounds, NEW blk, NEW o, NEW f, NEW c, NEW l, NEW q, NEW s, NEW nxt \in MsgNos,
           Marked(blk, o, f, c, l, q, s, nxt), Len(blk) <= MaxSize, q # <<>>
    PROVE  blk[o[Len(q)]].data.no # q[Len(q)].no
<1>1. /\ blk \in Blocks /\ q \in Seq(Content) /\ Len(q) < Len(blk)
      /\ \A i \in 1..Len(q) : blk[o[i - 1]].data = q[i]
      /\ Aged(blk, o, Len(q), nxt)
  BY Zenon DEF Marked
<1>2. Len(q) \in 1..Len(q) /\ Len(q) > 0 /\ Len(blk) \in Nat /\ Len(q) \in Nat
  BY <1>1 DEF Blocks
<1>3. q[Len(q)].no = Before(nxt, 1)
  BY <1>1, <1>2 DEF Aged
<1>4. Holds(blk, o[Len(q)], nxt, 2..Len(blk))
  <2>1. /\ 0 \in 0..(Len(blk) - 1) /\ Wrap(Len(blk), Len(q) + 0) = Len(q) /\ Len(blk) - 0 = Len(blk)
    BY <1>1, <1>2 DEF Wrap
  <2>2. Holds(blk, o[Wrap(Len(blk), Len(q) + 0)], nxt, (IF 0 = 0 THEN 2 ELSE 1)..(Len(blk) - 0))
    BY <1>1, <2>1 DEF Aged
  <2> QED
    BY <2>1, <2>2
<1>5. Before(nxt, 1) # 0 /\ \A a \in 2..Len(blk) : Before(nxt, a) # Before(nxt, 1)
  <2>1. MaxSize \in Nat \ {0} /\ 1 \in 1..MaxSize /\ 2..Len(blk) \subseteq 2..MaxSize
    BY <1>2 DEF SB!Bounds
  <2>2. Before(nxt, 1) \in MsgNos
    BY <2>1, Ages
  <2> QED
    <3>1. Before(nxt, 1) # 0
      BY <2>2 DEF MsgNos
    <3>2. \A a \in 2..MaxSize : Before(nxt, a) # Before(nxt, 1)
      BY Ages
    <3> QED
      BY <2>1, <3>1, <3>2
<1> QED
  BY <1>3, <1>4, <1>5 DEF Holds
-----------------------------------------------------------------------------
(* The buffer.                                                               *)

\* The number of the next message, once the one being added is counted.
NextNo == IF adding > 0 THEN NoAfter(msgNo) ELSE msgNo

BufferIs(o, q, s) == /\ Marked(block, o, firstBlock, currBlock, lastBlock, q, s, NextNo)
                     /\ Len(q) = blockCount + adding

BufferInv == /\ blockCount \in Int /\ adding \in Nat /\ msgNo \in MsgNos
             /\ Len(block) <= MaxSize
             /\ \E o, q, s : BufferIs(o, q, s)

LEMMA BufferShows ==
    ASSUME NEW o, NEW q, NEW s, BufferIs(o, q, s)
    PROVE  /\ SB!Held = q /\ SB!Sent = s
           /\ \A k \in 0..(Len(block) - 1) : SB!Ahead(firstBlock, k) = o[k]
<1>1. Marked(block, o, firstBlock, currBlock, lastBlock, q, s, NextNo)
  BY DEF BufferIs
<1>2. SB!Held = Enclosed(block, firstBlock, lastBlock)
  BY DEF SB!Held, SB!Distance, SB!Ahead, Enclosed, Dist
<1>3. SB!Sent = Dist(block, firstBlock, currBlock)
  BY DEF SB!Sent, SB!Distance, SB!Ahead, Dist
<1> QED
  BY <1>1, <1>2, <1>3, MarksShow, Zenon DEF SB!Ahead

LEMMA BufferShowsNext ==
    ASSUME NEW o, NEW q, NEW s, NEW nxt,
           Marked(block', o, firstBlock', currBlock', lastBlock', q, s, nxt)
    PROVE  SB!Held' = q /\ SB!Sent' = s
<1>1. SB!Held' = Enclosed(block', firstBlock', lastBlock')
  BY DEF SB!Held, SB!Distance, SB!Ahead, Enclosed, Dist
<1>2. SB!Sent' = Dist(block', firstBlock', currBlock')
  BY DEF SB!Sent, SB!Distance, SB!Ahead, Dist
<1> QED
  BY <1>1, <1>2, MarksShow, Zenon

LEMMA BufferBegins == ASSUME SB!Bounds, SB!Init PROVE BufferInv
<1> DEFINE U == UnitSize
           o == [i \in 0..(U - 1) |-> i + 1]
<1>1. /\ U \in Nat \ {0} /\ MaxMsgNo \in Nat /\ U <= MaxSize /\ MaxSize \in Nat /\ MaxSize + 1 < MaxMsgNo
  BY DEF SB!Bounds
<1>2. /\ block = [b \in 1..U |-> SB!NewBlock((b % U) + 1)]
      /\ firstBlock = 1 /\ currBlock = 1 /\ lastBlock = 1 /\ blockCount = 0 /\ adding = 0 /\ msgNo = 1
  BY DEF SB!Init
<1>3. /\ Len(block) = U /\ block \in Blocks
      /\ \A b \in 1..U : /\ block[b].data = SB!Unused
                         /\ block[b].next = IF b = U THEN 1 ELSE b + 1
  <2>1. \A b \in 1..U : b % U = IF b = U THEN 0 ELSE b
    BY <1>1
  <2>2. block = [b \in 1..U |-> [data |-> SB!Unused, next |-> IF b = U THEN 1 ELSE b + 1]]
    <3>1. \A b \in 1..U : SB!NewBlock((b % U) + 1)
                         = [data |-> SB!Unused, next |-> IF b = U THEN 1 ELSE b + 1]
      BY <1>1, <2>1 DEF SB!NewBlock
    <3> QED
      BY <1>2, <3>1
  <2>3. SB!Unused \in Content
    BY DEF SB!Unused, Content
  <2> HIDE DEF U
  <2> QED
    BY <1>1, <2>2, <2>3 DEF Blocks
<1>4. \A i \in 0..(U - 1) : o[i] = i + 1
  OBVIOUS
<1>5. o \in [0..(U - 1) -> 1..U]
  BY <1>1
<1> HIDE DEF o, U
<1>6. IsRing(block, o)
  <2>1. \A i, j \in 0..(U - 1) : o[i] = o[j] => i = j
    BY <1>1, <1>4
  <2>2. ASSUME NEW b \in 1..U PROVE \E i \in 0..(U - 1) : o[i] = b
    <3>1. b - 1 \in 0..(U - 1) /\ o[b - 1] = b
      BY <1>1, <1>4
    <3> QED
      BY <3>1
  <2>3. ASSUME NEW i \in 0..(U - 1) PROVE block[o[i]].next = o[Wrap(U, i + 1)]
    <3>1. /\ i + 1 \in 1..U /\ o[i] = i + 1 /\ Wrap(U, i + 1) \in 0..(U - 1)
          /\ Wrap(U, i + 1) = IF i + 1 = U THEN 0 ELSE i + 1
      BY <1>1, <1>4 DEF Wrap
    <3> QED
      BY <1>1, <1>3, <1>4, <3>1
  <2> QED
    BY <1>3, <1>5, <2>1, <2>2, <2>3, Zenon DEF IsRing
<1>7. Aged(block, o, 0, NextNo)
  <2>1. ASSUME NEW j \in 0..(U - 1) PROVE block[o[Wrap(U, 0 + j)]].data.no = 0
    <3>1. Wrap(U, 0 + j) = j /\ o[j] \in 1..U
      BY <1>1, <1>5 DEF Wrap
    <3> QED
      BY <1>3, <3>1 DEF SB!Unused
  <2> QED
    BY <1>1, <1>3, <2>1 DEF Aged, Holds
<1>8. Marked(block, o, firstBlock, currBlock, lastBlock, <<>>, 0, NextNo)
  <2> DEFINE e == <<>>
  <2>1. o[0] = 1 /\ e \in Seq(Content) /\ Len(e) = 0 /\ 0 < U /\ 0 \in 0..0
    BY <1>1, <1>4
  <2> HIDE DEF e
  <2>2. \A i \in 1..Len(e) : block[o[i - 1]].data = e[i]
    BY <2>1
  <2>3. Marked(block, o, firstBlock, currBlock, lastBlock, e, 0, NextNo)
    BY <1>2, <1>3, <1>6, <1>7, <2>1, <2>2 DEF Marked
  <2> QED
    BY <2>3 DEF e
<1>9. BufferIs(o, <<>>, 0)
  BY <1>2, <1>8 DEF BufferIs
<1> QED
  BY <1>1, <1>2, <1>3, <1>9 DEF BufferInv, MsgNos, U

LEMMA GrownIs ==
    ASSUME SB!Bounds, NEW o, NEW q, NEW s, NEW nxt, NEW n \in 1..MaxLen,
           Marked(block, o, firstBlock, currBlock, lastBlock, q, s, nxt), Len(q) = blockCount
    PROVE  /\ \E w : Marked(SB!Grown(n), w, firstBlock, currBlock, lastBlock, q, s, nxt)
           /\ Len(q) + n < Len(SB!Grown(n))
<1> DEFINE once == Larger(block, lastBlock)
           twice == Larger(once, lastBlock)
           Fits(blk) == \E w : Marked(blk, w, firstBlock, currBlock, lastBlock, q, s, nxt)
<1>1. \A blk : SB!Increased(blk) = Larger(blk, lastBlock)
  BY DEF SB!Increased, SB!NewBlock, Larger
<1>2. Fits(block)
  OBVIOUS
<1>3. ASSUME NEW blk, Fits(blk)
      PROVE  Fits(Larger(blk, lastBlock)) /\ Len(Larger(blk, lastBlock)) = Len(blk) + UnitSize
  <2>1. PICK w : Marked(blk, w, firstBlock, currBlock, lastBlock, q, s, nxt)
    BY <1>3
  <2> QED
    BY <2>1, MarkWidens, Zenon
<1>4. Fits(once) /\ Len(once) = Len(block) + UnitSize
  BY <1>2, <1>3
<1> HIDE DEF once, Fits
<1>5. Fits(twice) /\ Len(twice) = Len(once) + UnitSize
  BY <1>3, <1>4
<1> HIDE DEF twice
<1>6. SB!Grown(n) = IF n + blockCount >= Len(block)
                    THEN IF n + blockCount >= Len(once) THEN twice ELSE once
                    ELSE block
  BY <1>1 DEF SB!Grown, once, twice
<1>7. /\ Len(q) \in Nat /\ Len(block) \in Nat /\ UnitSize \in Nat /\ n \in Nat /\ n <= 2 * UnitSize
      /\ Len(q) < Len(block)
  BY DEF SB!Bounds, Marked, Blocks
<1>8. Fits(SB!Grown(n))
  BY <1>2, <1>4, <1>5, <1>6
<1>9. Len(q) + n < Len(SB!Grown(n))
  BY <1>4, <1>5, <1>6, <1>7
<1> QED
  BY <1>8, <1>9, Zenon DEF Fits
LEMMA AddBufferKeeps ==
    ASSUME SB!Bounds, BufferInv, NEW n \in 1..MaxLen, SB!addBuffer(n)
    PROVE  BufferInv' /\ SB!Q!Add(SB!Message(n))
<1> DEFINE grown == SB!Grown(n)
           m == SB!Message(n)
<1>1. PICK o, q, s : BufferIs(o, q, s)
  BY DEF BufferInv
<1>2. /\ adding = 0 /\ Len(grown) <= MaxSize
      /\ block' = FilledWith(grown, lastBlock, n, m)
      /\ lastBlock' = SB!AheadIn(grown, lastBlock, n)
      /\ adding' = n
      /\ firstBlock' = firstBlock /\ currBlock' = currBlock /\ blockCount' = blockCount
      /\ msgNo' = msgNo /\ blockRet' = blockRet
  BY DEF SB!addBuffer, FilledWith
<1>3. /\ blockCount \in Int /\ msgNo \in MsgNos /\ n \in Nat \ {0}
      /\ NextNo = msgNo /\ NextNo' = NoAfter(msgNo)
  <2>1. n \in Nat \ {0}
    BY DEF SB!Bounds
  <2> QED
    BY <1>2, <2>1 DEF BufferInv, NextNo
<1>4. /\ Marked(block, o, firstBlock, currBlock, lastBlock, q, s, msgNo)
      /\ Len(q) = blockCount
  BY <1>1, <1>2, <1>3 DEF BufferIs
<1>5. /\ m \in Seq(Content) /\ Len(m) = n /\ \A i \in 1..n : m[i].no = msgNo
  <2> DEFINE e(i) == [no |-> msgNo, part |-> i, last |-> i = n]
  <2>1. \A i \in 1..n : e(i) \in Content /\ e(i).no = msgNo
    <3>1. msgNo \in Nat
      BY <1>3 DEF MsgNos
    <3> QED
      BY <3>1 DEF Content
  <2>2. m = [i \in 1..n |-> e(i)]
    BY DEF SB!Message
  <2> HIDE DEF m, e
  <2> QED
    BY <1>3, <2>1, <2>2
<1> HIDE DEF grown, m
<1>6. PICK w : Marked(grown, w, firstBlock, currBlock, lastBlock, q, s, msgNo)
  BY <1>4, GrownIs, Zenon DEF grown
<1>7. Len(q) + n < Len(grown)
  BY <1>4, GrownIs, Zenon DEF grown
<1>8. /\ Marked(block', w, firstBlock', currBlock', lastBlock', q \o m, s, NextNo')
      /\ Len(block') = Len(grown)
  <2>1. /\ Marked(FilledWith(grown, lastBlock, n, m), w, firstBlock, currBlock,
                 SB!AheadIn(grown, lastBlock, n), q \o m, s, NoAfter(msgNo))
        /\ Len(FilledWith(grown, lastBlock, n, m)) = Len(grown)
    BY <1>2, <1>3, <1>5, <1>6, <1>7, MarkFills
  <2> QED
    BY <1>2, <1>3, <2>1, Zenon
<1>9. PICK p : p = q \o m
  OBVIOUS
<1>10. BufferInv'
  <2>1. Len(p) = blockCount' + adding'
    <3>1. q \in Seq(Content)
      BY <1>4, Zenon DEF Marked
    <3>2. Len(q \o m) = Len(q) + n
      BY <1>5, <3>1, ConcatProperties
    <3> QED
      BY <1>2, <1>4, <1>9, <3>2
  <2>2. BufferIs(w, p, s)'
    BY <1>8, <1>9, <2>1, Zenon DEF BufferIs
  <2>3. \E w1, q1, s1 : BufferIs(w1, q1, s1)'
    BY <2>2, Zenon
  <2> QED
    BY <1>2, <1>3, <1>8, <2>3 DEF BufferInv
<1>11. SB!Held = q /\ SB!Sent = s
  BY <1>1, BufferShows, Zenon
<1>12. SB!Held' = q \o m /\ SB!Sent' = s
  BY <1>8, <1>9, BufferShowsNext, Zenon
<1> QED
  BY <1>2, <1>10, <1>11, <1>12 DEF SB!Q!Add, m

LEMMA AddBufferCountsKeeps ==
    ASSUME SB!Bounds, BufferInv, SB!addBufferCounts
    PROVE  BufferInv' /\ UNCHANGED <<SB!Held, SB!Sent>>
<1>1. PICK o, q, s : BufferIs(o, q, s)
  BY DEF BufferInv
<1>2. /\ adding > 0 /\ blockCount' = blockCount + adding /\ adding' = 0 /\ msgNo' = NoAfter(msgNo)
      /\ block' = block /\ firstBlock' = firstBlock /\ currBlock' = currBlock /\ lastBlock' = lastBlock
  BY DEF SB!addBufferCounts, NoAfter
<1>3. NextNo' = NextNo /\ msgNo' \in MsgNos /\ blockCount' \in Int /\ adding' \in Nat
  BY <1>2, Ages DEF NextNo, BufferInv
<1>4. Marked(block', o, firstBlock', currBlock', lastBlock', q, s, NextNo')
  BY <1>1, <1>2, <1>3, Zenon DEF BufferIs
<1>5. BufferInv'
  <2>1. BufferIs(o, q, s)'
    BY <1>1, <1>2, <1>4 DEF BufferIs, BufferInv
  <2>2. \E o1, q1, s1 : BufferIs(o1, q1, s1)'
    BY <2>1, Zenon
  <2> QED
    BY <1>2, <1>3, <2>2 DEF BufferInv
<1>6. SB!Held = q /\ SB!Sent = s /\ SB!Held' = q /\ SB!Sent' = s
  BY <1>1, <1>4, BufferShows, BufferShowsNext, Zenon
<1> QED
  BY <1>5, <1>6

LEMMA ReadNewKeeps ==
    ASSUME SB!Bounds, BufferInv, SB!readNew
    PROVE  BufferInv' /\ SB!Q!ReadNew
<1>1. PICK o, q, s : BufferIs(o, q, s)
  BY DEF BufferInv
<1>2. /\ currBlock # lastBlock /\ blockRet' = block[currBlock].data /\ currBlock' = block[currBlock].next
      /\ block' = block /\ firstBlock' = firstBlock /\ lastBlock' = lastBlock
      /\ blockCount' = blockCount /\ adding' = adding /\ msgNo' = msgNo
  BY DEF SB!readNew, SB!NextOf
<1>3. /\ block \in Blocks /\ IsRing(block, o)
      /\ q \in Seq(Content) /\ Len(q) < Len(block) /\ s \in 0..Len(q)
      /\ o[0] = firstBlock /\ o[s] = currBlock /\ o[Len(q)] = lastBlock
      /\ \A i \in 1..Len(q) : block[o[i - 1]].data = q[i]
      /\ Aged(block, o, Len(q), NextNo)
  BY <1>1, Zenon DEF BufferIs, Marked
<1>4. s < Len(q) /\ s + 1 \in 0..Len(q) /\ s + 1 \in 1..Len(q) /\ (s + 1) - 1 = s
  BY <1>2, <1>3
<1>5. /\ block[currBlock].data = q[s + 1]
      /\ block[currBlock].next = o[s + 1]
  <2>1. s \in 0..(Len(block) - 1) /\ Wrap(Len(block), s + 1) = s + 1
    BY <1>3, <1>4 DEF Wrap, Blocks
  <2>2. block[o[s]].next = o[Wrap(Len(block), s + 1)]
    BY <1>3, <2>1, Zenon DEF IsRing
  <2>3. block[o[(s + 1) - 1]].data = q[s + 1]
    BY <1>3, <1>4, Zenon
  <2> QED
    BY <1>3, <1>4, <2>1, <2>2, <2>3
<1>6. Marked(block', o, firstBlock', currBlock', lastBlock', q, s + 1, NextNo')
  <2>1. NextNo' = NextNo
    BY <1>2, Zenon DEF NextNo
  <2> QED
    BY <1>2, <1>3, <1>4, <1>5, <2>1, Zenon DEF Marked
<1>7. BufferInv'
  <2>1. BufferIs(o, q, s + 1)'
    BY <1>1, <1>2, <1>6, Zenon DEF BufferIs
  <2>2. \E o1, q1, s1 : BufferIs(o1, q1, s1)'
    BY <2>1, Zenon
  <2> QED
    BY <1>2, <2>2 DEF BufferInv
<1>8. SB!Held = q /\ SB!Sent = s /\ SB!Held' = q /\ SB!Sent' = s + 1
  BY <1>1, <1>6, BufferShows, BufferShowsNext, Zenon
<1> QED
  BY <1>2, <1>4, <1>5, <1>7, <1>8 DEF SB!Q!ReadNew
LEMMA ReadAgainKeeps ==
    ASSUME SB!Bounds, BufferInv, NEW i \in Nat, SB!readAgain(i)
    PROVE  BufferInv' /\ SB!Q!ReadAgain(i + 1)
<1>1. PICK o, q, s : BufferIs(o, q, s)
  BY DEF BufferInv
<1>2. SB!Held = q /\ SB!Sent = s /\ \A k \in 0..(Len(block) - 1) : SB!Ahead(firstBlock, k) = o[k]
  BY <1>1, BufferShows, Zenon
<1>3. /\ i < s /\ blockRet' = block[SB!Ahead(firstBlock, i)].data
      /\ block' = block /\ firstBlock' = firstBlock /\ currBlock' = currBlock /\ lastBlock' = lastBlock
      /\ blockCount' = blockCount /\ adding' = adding /\ msgNo' = msgNo
  BY <1>2 DEF SB!readAgain, SB!Sent
<1>4. /\ Len(block) \in Nat /\ Len(q) < Len(block) /\ Len(q) \in Nat /\ s \in 0..Len(q)
      /\ \A k \in 1..Len(q) : block[o[k - 1]].data = q[k]
      /\ Marked(block, o, firstBlock, currBlock, lastBlock, q, s, NextNo)
  BY <1>1 DEF BufferIs, Marked, Blocks
<1>5. i + 1 \in 1..Len(q) /\ (i + 1) - 1 = i /\ i \in 0..(Len(block) - 1)
  BY <1>3, <1>4
<1>6. blockRet' = q[i + 1]
  <2>1. block[o[(i + 1) - 1]].data = q[i + 1]
    BY <1>4, <1>5, Zenon
  <2> QED
    BY <1>2, <1>3, <1>5, <2>1
<1>7. NextNo' = NextNo
  BY <1>3, Zenon DEF NextNo
<1>8. Marked(block', o, firstBlock', currBlock', lastBlock', q, s, NextNo')
  BY <1>3, <1>4, <1>7, Zenon
<1>9. BufferInv'
  <2>1. BufferIs(o, q, s)'
    BY <1>1, <1>3, <1>8, Zenon DEF BufferIs
  <2>2. \E o1, q1, s1 : BufferIs(o1, q1, s1)'
    BY <2>1, Zenon
  <2> QED
    BY <1>3, <2>2 DEF BufferInv
<1>10. SB!Held' = q /\ SB!Sent' = s
  BY <1>8, BufferShowsNext, Zenon
<1> QED
  BY <1>2, <1>6, <1>9, <1>10 DEF SB!Q!ReadAgain

\* Of two numbers of blocks that end the message at b, or of two places behind it, neither is
\* less than the other; the ring and the queue agree on where that is.
LEMMA MessageEnds ==
    ASSUME SB!Bounds, BufferInv, NEW o, NEW q, NEW s, BufferIs(o, q, s),
           NEW i \in Nat, i < Len(q)
    PROVE  \E n \in 1..(Len(q) - i) :
             /\ SB!SameMsg(o[i]) = n /\ SB!Q!Behind(i + 1) = i + n
             /\ \A k \in 0..n : SB!Ahead(o[i], k) = o[i + k]
<1> DEFINE h == Len(q)
           N == Len(block)
           no(k) == block[o[k]].data.no
<1>1. /\ Marked(block, o, firstBlock, currBlock, lastBlock, q, s, NextNo)
      /\ block \in Blocks /\ IsRing(block, o) /\ q \in Seq(Content) /\ h < N
      /\ \A k \in 1..h : block[o[k - 1]].data = q[k]
  BY Zenon DEF BufferIs, Marked
<1>2. h \in Nat /\ N \in Nat /\ h - i \in Nat \ {0} /\ i \in Nat /\ N <= MaxSize
  BY <1>1 DEF Blocks, BufferInv
<1>3. SB!Held = q
  BY BufferShows, Zenon
<1>4. ASSUME NEW k \in 0..(h - i) PROVE SB!Ahead(o[i], k) = o[i + k]
  <2>1. i \in 0..(N - 1) /\ k \in 0..N /\ Wrap(N, i + k) = i + k
    BY <1>1, <1>2 DEF Wrap
  <2>2. SB!AheadIn(block, o[i], k) = o[Wrap(N, i + k)]
    BY <1>1, <2>1, WalkOnRing, Zenon
  <2> QED
    BY <2>1, <2>2, Zenon DEF SB!Ahead
<1>5. \A k \in 1..h : q[k].no = no(k - 1)
  BY <1>1
<1>6. no(h) # no(h - 1)
  <2>1. q # <<>> /\ h \in 1..h
    BY <1>2
  <2>2. NextNo \in MsgNos
    BY Ages DEF NextNo, BufferInv
  <2>3. no(h) # q[h].no
    BY <1>1, <1>2, <2>1, <2>2, MarkIsOlder
  <2> QED
    BY <1>5, <2>1, <2>3
<1> HIDE DEF h, N, no
<1> DEFINE D == {k \in 0..(h - i) : no(i + k) # no(i)}
<1>7. D # {} /\ D \in SUBSET Nat
  <2>1. CASE no(h) # no(i)
    <3>1. h - i \in 0..(h - i) /\ i + (h - i) = h
      BY <1>2
    <3> QED
      BY <2>1, <3>1
  <2>2. CASE no(h) = no(i)
    <3> DEFINE k == (h - i) - 1
    <3>1. k \in 0..(h - i) /\ i + k = h - 1
      BY <1>2
    <3> HIDE DEF k
    <3> QED
      BY <1>6, <2>2, <3>1
  <2> QED
    BY <2>1, <2>2
<1>8. PICK n \in D : \A k \in D : ~(<<k, n>> \in Less)
  BY <1>7, LessWellFounded, WFMin
<1>9. /\ n \in 1..(h - i) /\ no(i + n) # no(i)
      /\ \A k \in 0..(n - 1) : no(i + k) = no(i)
  <2>1. n \in 0..(h - i) /\ no(i + n) # no(i)
    BY <1>8
  <2>2. n # 0
    <3>1. i + 0 = i
      BY <1>2
    <3> QED
      BY <2>1, <3>1
  <2>3. ASSUME NEW k \in 0..(n - 1) PROVE no(i + k) = no(i)
    <3>1. k \in 0..(h - i) /\ k \in Nat /\ n \in Nat /\ k < n
      BY <1>2, <2>1
    <3>2. <<k, n>> \in Less
      BY <3>1 DEF Less
    <3>3. ~(k \in D)
      BY <1>8, <3>2
    <3> QED
      BY <3>1, <3>3
  <2> QED
    BY <1>2, <2>1, <2>2, <2>3
<1> HIDE DEF D
<1>10. SB!SameMsg(o[i]) = n
  <2> DEFINE E(d) == /\ \A k \in 0..(d - 1) : block[SB!Ahead(o[i], k)].data.no = block[o[i]].data.no
                     /\ block[SB!Ahead(o[i], d)].data.no # block[o[i]].data.no
  <2>1. \A k \in 0..(h - i) : block[SB!Ahead(o[i], k)].data.no = no(i + k)
    BY <1>4, Zenon DEF no
  <2>2. block[o[i]].data.no = no(i)
    BY DEF no
  <2>3. E(n) /\ n \in 1..N
    <3>1. n \in 0..(h - i) /\ \A k \in 0..(n - 1) : k \in 0..(h - i)
      BY <1>2, <1>9
    <3>2. n \in 1..N
      BY <1>1, <1>2, <1>9 DEF h, N
    <3> QED
      BY <1>9, <2>1, <2>2, <3>1, <3>2
  <2>4. ASSUME NEW d \in 1..N, E(d) PROVE d = n
    <3>1. CASE d < n
      <4>1. d \in 0..(n - 1) /\ d \in 0..(h - i)
        BY <1>2, <1>9, <3>1
      <4> QED
        BY <1>9, <2>1, <2>2, <2>4, <4>1
    <3>2. CASE d > n
      <4>1. n \in 0..(d - 1) /\ n \in 0..(h - i)
        BY <1>2, <1>9, <3>2
      <4> QED
        BY <1>9, <2>1, <2>2, <2>4, <4>1
    <3> QED
      BY <1>9, <3>1, <3>2, <1>2
  <2>5. SB!SameMsg(o[i]) = CHOOSE d \in 1..N : E(d)
    BY DEF SB!SameMsg, N
  <2> HIDE DEF E
  <2>6. \A d \in 1..N : E(d) <=> d = n
    BY <2>3, <2>4
  <2>7. (CHOOSE d \in 1..N : E(d)) = n
    BY <2>3, <2>6, Zenon
  <2> QED
    BY <2>5, <2>7, Zenon
<1>11. SB!Q!Behind(i + 1) = i + n
  <2> DEFINE E(j) == /\ \A k \in (i + 1)..j : q[k].no = q[i + 1].no
                     /\ j = Len(q) \/ q[j + 1].no # q[i + 1].no
  <2>1. /\ \A k \in (i + 1)..h : q[k].no = no(k - 1)
        /\ q[i + 1].no = no(i)
    <3>1. i + 1 \in 1..h /\ (i + 1) - 1 = i /\ \A k \in (i + 1)..h : k \in 1..h
      BY <1>2
    <3>2. q[i + 1].no = no((i + 1) - 1)
      BY <1>5, <3>1, Zenon
    <3> QED
      BY <1>5, <3>1, <3>2
  <2>2. \A k \in (i + 1)..(i + n) : q[k].no = q[i + 1].no
    <3> TAKE k \in (i + 1)..(i + n)
    <3>1. (k - 1) - i \in 0..(n - 1) /\ i + ((k - 1) - i) = k - 1 /\ k \in (i + 1)..h
      BY <1>2, <1>9
    <3> QED
      BY <1>9, <2>1, <3>1
  <2>3. i + n = h \/ q[i + n + 1].no # q[i + 1].no
    <3>1. CASE i + n # h
      <4>1. i + n + 1 \in (i + 1)..h /\ (i + n + 1) - 1 = i + n
        BY <1>2, <1>9, <3>1
      <4> QED
        BY <1>9, <2>1, <4>1
    <3> QED
      BY <3>1
  <2>4. E(i + n) /\ i + n \in (i + 1)..h
    BY <1>2, <1>9, <2>2, <2>3 DEF h
  <2>5. ASSUME NEW j \in (i + 1)..h, E(j) PROVE j = i + n
    <3>1. CASE j < i + n
      <4>1. j + 1 \in (i + 1)..(i + n) /\ j # h
        BY <1>2, <1>9, <3>1
      <4> QED
        BY <2>2, <2>5, <4>1 DEF h
    <3>2. CASE j > i + n
      <4>1. i + n + 1 \in (i + 1)..j /\ i + n # h
        BY <1>2, <1>9, <3>2
      <4> QED
        BY <2>3, <2>5, <4>1
    <3> QED
      BY <1>2, <1>9, <3>1, <3>2
  <2>6. SB!Q!Behind(i + 1) = CHOOSE j \in (i + 1)..h : E(j)
    BY <1>3 DEF SB!Q!Behind, h
  <2> HIDE DEF E
  <2>7. \A j \in (i + 1)..h : E(j) <=> j = i + n
    BY <2>4, <2>5
  <2>8. (CHOOSE j \in (i + 1)..h : E(j)) = i + n
    BY <2>4, <2>7, Zenon
  <2> QED
    BY <2>6, <2>8, Zenon
<1>12. \A k \in 0..n : SB!Ahead(o[i], k) = o[i + k]
  <2>1. \A k \in 0..n : k \in 0..(h - i)
    BY <1>2, <1>9
  <2> QED
    BY <1>4, <2>1, Zenon
<1> QED
  BY <1>9, <1>10, <1>11, <1>12, Zenon DEF h
LEMMA ReadExpiredKeeps ==
    ASSUME SB!Bounds, BufferInv, NEW i \in Nat, SB!readExpired(i)
    PROVE  BufferInv' /\ SB!Q!Expire(i + 1)
<1>1. PICK o, q, s : BufferIs(o, q, s)
  BY DEF BufferInv
<1>2. SB!Held = q /\ SB!Sent = s /\ \A k \in 0..(Len(block) - 1) : SB!Ahead(firstBlock, k) = o[k]
  BY <1>1, BufferShows, Zenon
<1>3. /\ block \in Blocks /\ IsRing(block, o) /\ Len(block) \in Nat /\ Len(q) \in Nat
      /\ q \in Seq(Content) /\ Len(q) < Len(block) /\ s \in 0..Len(q)
      /\ o[0] = firstBlock /\ o[s] = currBlock /\ o[Len(q)] = lastBlock
      /\ \A k \in 1..Len(q) : block[o[k - 1]].data = q[k]
      /\ Aged(block, o, Len(q), NextNo)
  BY <1>1 DEF BufferIs, Marked, Blocks
<1>4. i < s
  BY <1>2 DEF SB!readExpired, SB!Sent
<1>5. /\ i + 1 \in 1..Len(q) /\ (i + 1) - 1 = i /\ i \in 0..(Len(block) - 1) /\ i < Len(q)
      /\ s \in Nat
  BY <1>3, <1>4
<1>6. /\ blockRet' = [no |-> block[o[i]].data.no, dropped |-> SB!SameMsg(o[i])]
      /\ currBlock' = SB!Reached(o[i])
      /\ block' = block /\ firstBlock' = firstBlock /\ lastBlock' = lastBlock
      /\ blockCount' = blockCount /\ adding' = adding /\ msgNo' = msgNo
  BY <1>2, <1>5 DEF SB!readExpired
<1>7. PICK n \in 1..(Len(q) - i) : /\ SB!SameMsg(o[i]) = n /\ SB!Q!Behind(i + 1) = i + n
                                  /\ \A k \in 0..n : SB!Ahead(o[i], k) = o[i + k]
  BY <1>1, <1>5, MessageEnds
<1>8. PICK t : t = IF s < i + n THEN i + n ELSE s
  OBVIOUS
<1>9. t \in 0..Len(q)
  BY <1>3, <1>7, <1>8
<1>10. currBlock' = o[t]
  <2>1. n \in 0..n /\ SB!Ahead(o[i], n) = o[i + n]
    BY <1>7
  <2>2. CASE s < i + n
    <3>1. s - i \in 1..(n - 1) /\ i + (s - i) = s /\ s - i \in 0..n
      BY <1>4, <1>5, <1>7, <2>2
    <3>2. SB!Ahead(o[i], s - i) = currBlock
      BY <1>3, <1>7, <3>1
    <3> QED
      BY <1>6, <1>7, <1>8, <2>1, <2>2, <3>1, <3>2, Zenon DEF SB!Reached
  <2>3. CASE ~(s < i + n)
    <3>1. ASSUME NEW k \in 1..(n - 1) PROVE SB!Ahead(o[i], k) # currBlock
      <4>1. /\ k \in 0..n /\ i + k \in 0..(Len(block) - 1) /\ s \in 0..(Len(block) - 1)
            /\ i + k # s
        BY <1>3, <1>5, <1>7, <2>3
      <4>2. o[i + k] # o[s]
        BY <1>3, <4>1, Zenon DEF IsRing
      <4> QED
        BY <1>3, <1>7, <4>1, <4>2, Zenon
    <3>2. SB!Reached(o[i]) = currBlock
      BY <1>7, <3>1, Zenon DEF SB!Reached
    <3> QED
      BY <1>3, <1>6, <1>8, <2>3, <3>2, Zenon
  <2> QED
    BY <2>2, <2>3, Zenon
<1>11. Marked(block', o, firstBlock', currBlock', lastBlock', q, t, NextNo')
  <2>1. NextNo' = NextNo
    BY <1>6, Zenon DEF NextNo
  <2> QED
    BY <1>3, <1>6, <1>9, <1>10, <2>1, Zenon DEF Marked
<1>12. BufferInv'
  <2>1. BufferIs(o, q, t)'
    BY <1>1, <1>6, <1>11, Zenon DEF BufferIs
  <2>2. \E o1, q1, s1 : BufferIs(o1, q1, s1)'
    BY <2>1, Zenon
  <2> QED
    BY <1>6, <2>2 DEF BufferInv
<1>13. SB!Held' = q /\ SB!Sent' = t
  BY <1>11, BufferShowsNext, Zenon
<1>14. SB!Q!Expire(i + 1)
  <2>1. block[o[i]].data.no = q[i + 1].no
    <3>1. block[o[(i + 1) - 1]].data = q[i + 1]
      BY <1>3, <1>5, Zenon
    <3> QED
      BY <1>5, <3>1
  <2>2. n = (i + n) - (i + 1) + 1
    BY <1>7
  <2>3. blockRet' = [no |-> q[i + 1].no, dropped |-> (i + n) - (i + 1) + 1]
    BY <1>6, <1>7, <2>1, <2>2, Zenon
  <2>4. SB!Sent' = IF SB!Sent < i + n THEN i + n ELSE SB!Sent
    BY <1>2, <1>8, <1>13, Zenon
  <2> QED
    BY <1>2, <1>7, <1>13, <2>3, <2>4, Zenon DEF SB!Q!Expire
<1> QED
  BY <1>12, <1>14

LEMMA AckDataKeeps ==
    ASSUME SB!Bounds, BufferInv, NEW n \in Nat \ {0}, SB!ackData(n)
    PROVE  BufferInv' /\ SB!Q!Forget(n)
<1>1. PICK o, q, s : BufferIs(o, q, s)
  BY DEF BufferInv
<1>2. SB!Held = q /\ SB!Sent = s /\ \A k \in 0..(Len(block) - 1) : SB!Ahead(firstBlock, k) = o[k]
  BY <1>1, BufferShows, Zenon
<1>3. /\ Marked(block, o, firstBlock, currBlock, lastBlock, q, s, NextNo)
      /\ Len(q) = blockCount + adding
      /\ Len(block) \in Nat /\ q \in Seq(Content) /\ Len(q) \in Nat /\ Len(q) < Len(block) /\ s \in 0..Len(q)
  BY <1>1 DEF BufferIs, Marked, Blocks
<1>4. n <= s
  BY <1>2 DEF SB!ackData, SB!Sent
<1>5. n \in 0..s /\ n \in 0..(Len(block) - 1) /\ n <= Len(q)
  BY <1>3, <1>4
<1>6. /\ firstBlock' = o[n] /\ blockCount' = blockCount - n
      /\ block' = block /\ currBlock' = currBlock /\ lastBlock' = lastBlock
      /\ adding' = adding /\ msgNo' = msgNo /\ blockRet' = blockRet
  BY <1>2, <1>5 DEF SB!ackData
<1>7. PICK w, r, t : w = Turned(o, Len(block), n) /\ r = SubSeq(q, n + 1, Len(q)) /\ t = s - n
  OBVIOUS
<1>8. Marked(block', w, firstBlock', currBlock', lastBlock', r, t, NextNo')
  <2>1. NextNo' = NextNo
    BY <1>6, Zenon DEF NextNo
  <2>2. Marked(block, Turned(o, Len(block), n), o[n], currBlock, lastBlock,
               SubSeq(q, n + 1, Len(q)), s - n, NextNo)
    BY <1>3, <1>5, MarkForgets, Zenon
  <2> QED
    BY <1>6, <1>7, <2>1, <2>2, Zenon
<1>9. Len(r) = Len(q) - n
  <2>1. \A i \in (n + 1)..Len(q) : q[i] \in Content
    BY <1>3, <1>5
  <2>2. Len(SubSeq(q, n + 1, Len(q))) = IF n + 1 <= Len(q) THEN Len(q) - (n + 1) + 1 ELSE 0
    BY <1>3, <1>5, <2>1, SubSeqProperties
  <2> QED
    BY <1>3, <1>5, <1>7, <2>2
<1>10. BufferInv'
  <2>1. Len(r) = blockCount' + adding' /\ blockCount' \in Int
    BY <1>3, <1>5, <1>6, <1>9 DEF BufferInv
  <2>2. BufferIs(w, r, t)'
    BY <1>8, <2>1, Zenon DEF BufferIs
  <2>3. \E o1, q1, s1 : BufferIs(o1, q1, s1)'
    BY <2>2, Zenon
  <2> QED
    BY <1>6, <2>1, <2>3 DEF BufferInv
<1>11. SB!Held' = r /\ SB!Sent' = t
  BY <1>8, BufferShowsNext, Zenon
<1> QED
  BY <1>2, <1>6, <1>7, <1>10, <1>11, Zenon DEF SB!Q!Forget

\* Whatever the buffer does, it does to the queue.
LEMMA BufferKeepsQueue == ASSUME SB!Bounds, BufferInv PROVE SB!KeepsQueue
<1>1. \A i \in 0..(MaxSize - 1) : i \in Nat /\ i + 1 \in Nat \ {0}
  BY DEF SB!Bounds
<1>2. \A n \in 1..MaxLen : SB!addBuffer(n) => SB!Q!Add(SB!Message(n))
  BY AddBufferKeeps, Zenon
<1>3. SB!addBufferCounts => UNCHANGED <<SB!Held, SB!Sent>>
  BY AddBufferCountsKeeps, Zenon
<1>4. SB!readNew => SB!Q!ReadNew
  BY ReadNewKeeps, Zenon
<1>5. ASSUME NEW i \in 0..(MaxSize - 1)
      PROVE  /\ SB!readAgain(i) => SB!Q!ReadAgain(i + 1)
             /\ SB!readExpired(i) => SB!Q!Expire(i + 1)
             /\ SB!ackData(i + 1) => SB!Q!Forget(i + 1)
  BY <1>1, ReadAgainKeeps, ReadExpiredKeeps, AckDataKeeps, Zenon
<1> QED
  BY <1>2, <1>3, <1>4, <1>5, Zenon DEF SB!KeepsQueue

LEMMA BufferStepKeeps == ASSUME SB!Bounds, BufferInv, [SB!Next]_SB!vars PROVE BufferInv'
<1>1. CASE SB!Next
  <2>1. \A i \in 0..(MaxSize - 1) : i \in Nat /\ i + 1 \in Nat \ {0}
    BY DEF SB!Bounds
  <2>2. CASE \E n \in 1..MaxLen : SB!addBuffer(n)
    BY <2>2, AddBufferKeeps, Zenon
  <2>3. CASE SB!addBufferCounts
    BY <2>3, AddBufferCountsKeeps, Zenon
  <2>4. CASE SB!readNew
    BY <2>4, ReadNewKeeps, Zenon
  <2>5. CASE \E i \in 0..(MaxSize - 1) : SB!readAgain(i) \/ SB!readExpired(i) \/ SB!ackData(i + 1)
    BY <2>1, <2>5, ReadAgainKeeps, ReadExpiredKeeps, AckDataKeeps, Zenon
  <2> QED
    BY <1>1, <2>2, <2>3, <2>4, <2>5, Zenon DEF SB!Next
<1>2. CASE UNCHANGED SB!vars
  <2>1. /\ block' = block /\ firstBlock' = firstBlock /\ currBlock' = currBlock /\ lastBlock' = lastBlock
        /\ blockCount' = blockCount /\ adding' = adding /\ msgNo' = msgNo
    BY <1>2 DEF SB!vars
  <2> QED
    BY <2>1, Zenon DEF BufferInv, BufferIs, NextNo
<1> QED
  BY <1>1, <1>2, Zenon

LEMMA BufferIsSound == ASSUME SB!Bounds, BufferInv PROVE SB!CountsPackets /\ SB!RingIsWhole
<1>1. PICK o, q, s : BufferIs(o, q, s)
  BY DEF BufferInv
<1>2. SB!Held = q
  BY <1>1, BufferShows, Zenon
<1>3. /\ block \in Blocks /\ IsRing(block, o) /\ Len(block) \in Nat \ {0}
      /\ Len(q) = blockCount + adding /\ Len(q) < Len(block)
  BY <1>1 DEF BufferIs, Marked, Blocks
<1> DEFINE N == Len(block)
<1>4. PICK a \in 0..(N - 1) : o[a] = 1
  <2>1. 1 \in 1..N
    BY <1>3
  <2> QED
    BY <1>3, <2>1, Zenon DEF IsRing
<1>5. IsRing(block, Turned(o, N, a))
  BY <1>3, RingTurns, Zenon
<1>6. ASSUME NEW k \in 0..(N - 1) PROVE SB!Ahead(1, k) = Turned(o, N, a)[k]
  <2>1. k \in 0..N /\ k + a = a + k
    BY <1>3
  <2>2. SB!AheadIn(block, o[a], k) = o[Wrap(N, a + k)]
    BY <1>3, <2>1, WalkOnRing, Zenon
  <2>3. Turned(o, N, a)[k] = o[Wrap(N, k + a)]
    BY DEF Turned
  <2> QED
    BY <1>4, <2>1, <2>2, <2>3, Zenon DEF SB!Ahead
<1>7. {SB!Ahead(1, k) : k \in 0..(N - 1)} = 1..N
  <2> DEFINE w == Turned(o, N, a)
  <2>1. /\ \A k \in 0..(N - 1) : w[k] \in 1..N
        /\ \A b \in 1..N : \E k \in 0..(N - 1) : w[k] = b
    BY <1>5 DEF IsRing
  <2>2. \A k \in 0..(N - 1) : SB!Ahead(1, k) = w[k]
    BY <1>6, Zenon
  <2> HIDE DEF w, N
  <2>3. ASSUME NEW b \in 1..N PROVE b \in {SB!Ahead(1, k) : k \in 0..(N - 1)}
    <3>1. PICK k \in 0..(N - 1) : w[k] = b
      BY <2>1, Zenon
    <3> QED
      BY <2>2, <3>1, Zenon
  <2>4. ASSUME NEW b \in {SB!Ahead(1, k) : k \in 0..(N - 1)} PROVE b \in 1..N
    <3>1. PICK k \in 0..(N - 1) : b = SB!Ahead(1, k)
      BY <2>4, Zenon
    <3> QED
      BY <2>1, <2>2, <3>1, Zenon
  <2> QED
    BY <2>3, <2>4, Zenon
<1> QED
  BY <1>2, <1>3, <1>7 DEF SB!CountsPackets, SB!RingIsWhole

\* The ring is one ring with a block to spare however often it grew, and m_iCount, which
\* send waits on, is short of the packets in it by those being added and by no others.
THEOREM SendBufferIsSound ==
    ASSUME SB!Bounds PROVE SB!Spec => [](SB!CountsPackets /\ SB!RingIsWhole)
<1>1. SB!Init => BufferInv
  BY BufferBegins
<1>2. BufferInv /\ [SB!Next]_SB!vars => BufferInv'
  BY BufferStepKeeps
<1>3. BufferInv => SB!CountsPackets /\ SB!RingIsWhole
  BY BufferIsSound
<1> QED
  BY <1>1, <1>2, <1>3, PTL DEF SB!Spec

\* To addBuffer, readData and ackData, whatever their order, the ring is a queue: a packet
\* is sent as it was added, one that is sent again or whose message expired is the one at
\* that place, and an acknowledgement forgets the oldest ones only.
THEOREM SendBufferIsQueue == ASSUME SB!Bounds PROVE SB!Spec => [][SB!KeepsQueue]_SB!vars
<1>1. SB!Init => BufferInv
  BY BufferBegins
<1>2. BufferInv /\ [SB!Next]_SB!vars => BufferInv'
  BY BufferStepKeeps
<1>3. BufferInv => SB!KeepsQueue
  BY BufferKeepsQueue
<1> QED
  BY <1>1, <1>2, <1>3, PTL DEF SB!Spec
-----------------------------------------------------------------------------
(* The windows of acknowledgements and of arrivals, by which the other end     *)
(* has the time of a round trip and the rate at which packets come.            *)

CONSTANTS ackSize, ackMax, ackPayload, arrSize, arrIntervals, arrSecond

VARIABLES ackSeqNo, ackData, ackHead, ackTail, ackLast, ackRet, arrivals, arrPtr

W == INSTANCE UDTWindow WITH Size <- ackSize, MaxSeq <- ackMax, Payload <- ackPayload,
        AWSize <- arrSize, Intervals <- arrIntervals, Second <- arrSecond,
        seqNo <- ackSeqNo, ack <- ackData, head <- ackHead, tail <- ackTail, last <- ackLast,
        ret <- ackRet, ptr <- arrPtr

\* Counting round an array, from less than twice its size.
Round(n, i) == IF i < n THEN i ELSE i - n

LEMMA RoundIs ==
    ASSUME NEW n \in Nat \ {0}, NEW i \in 0..(2 * n - 1)
    PROVE  i % n = Round(n, i) /\ Round(n, i) \in 0..(n - 1)
<1> DEFINE r == i % n
           q == i \div n
<1>1. i = n * q + r /\ r \in 0..(n - 1) /\ q \in Int
  OBVIOUS
<1>2. CASE i < n
  BY <1>2 DEF Round
<1>3. CASE ~(i < n)
  BY <1>3 DEF Round
<1> QED
  BY <1>1, <1>2, <1>3 DEF Round

\* How many entries there are from tail t to head h, and the log they are.
Stretch(h, t) == IF h >= t THEN h - t ELSE h - t + ackSize

Log(s, d, h, t) ==
    [i \in 1..Stretch(h, t) |-> <<s[Round(ackSize, t + (i - 1))], d[Round(ackSize, t + (i - 1))]>>]

IsWindow(s, d, h, t) ==
    /\ h \in 0..(ackSize - 1) /\ t \in 0..(ackSize - 1)
    /\ s \in [0..(ackSize - 1) -> Int] /\ d \in [0..(ackSize - 1) -> {-1} \cup ackPayload]

AckInv == IsWindow(ackSeqNo, ackData, ackHead, ackTail)

LEMMA StretchIs ==
    ASSUME W!Sizes, NEW h \in 0..(ackSize - 1), NEW t \in 0..(ackSize - 1)
    PROVE  /\ Stretch(h, t) \in 0..(ackSize - 1)
           /\ (h - t + ackSize) % ackSize = Stretch(h, t)
           /\ \A i \in 0..(ackSize - 1) : (t + i) % ackSize = Round(ackSize, t + i)
           /\ \A i \in 1..Stretch(h, t) : (t + (i - 1)) % ackSize = Round(ackSize, t + (i - 1))
<1>1. ackSize \in Nat \ {0}
  BY DEF W!Sizes
<1>2. /\ h - t + ackSize \in 0..(2 * ackSize - 1)
      /\ Stretch(h, t) = Round(ackSize, h - t + ackSize)
      /\ Stretch(h, t) \in 0..(ackSize - 1)
  BY <1>1 DEF Stretch, Round
<1>3. ASSUME NEW i \in 0..(ackSize - 1) PROVE (t + i) % ackSize = Round(ackSize, t + i)
  BY <1>1, RoundIs
<1>4. \A i \in 1..Stretch(h, t) : i - 1 \in 0..(ackSize - 1)
  BY <1>1, <1>2
<1>5. (h - t + ackSize) % ackSize = Stretch(h, t)
  BY <1>1, <1>2, RoundIs, Zenon
<1> QED
  BY <1>2, <1>3, <1>4, <1>5, Zenon

LEMMA PendingIs ==
    ASSUME W!Sizes, AckInv
    PROVE  /\ W!Length = Stretch(ackHead, ackTail)
           /\ \A i \in 0..(ackSize - 1) : W!Place(i) = Round(ackSize, ackTail + i)
           /\ W!Pending = Log(ackSeqNo, ackData, ackHead, ackTail)
<1>1. ackHead \in 0..(ackSize - 1) /\ ackTail \in 0..(ackSize - 1)
  BY DEF AckInv, IsWindow
<1> QED
  BY <1>1, StretchIs, Zenon DEF W!Pending, W!Length, W!Place, Log

LEMMA PendingIsNext ==
    ASSUME W!Sizes, AckInv'
    PROVE  W!Pending' = Log(ackSeqNo, ackData, ackHead, ackTail)'
<1>1. ackHead' \in 0..(ackSize - 1) /\ ackTail' \in 0..(ackSize - 1)
  BY DEF AckInv, IsWindow
<1> QED
  BY <1>1, StretchIs, Zenon DEF W!Pending, W!Length, W!Place, Log

\* One more entry: the oldest goes when all places but one are taken.
Longer(log, x) == LET all == Append(log, x) IN IF Len(all) < ackSize THEN all ELSE Tail(all)

Lengthens(r, e, g, u, s, d, h, t, x) == /\ IsWindow(r, e, g, u)
                                        /\ Log(r, e, g, u) = Longer(Log(s, d, h, t), x)

LEMMA LogGrows ==
    ASSUME W!Sizes, NEW s, NEW d, NEW h, NEW t, IsWindow(s, d, h, t), NEW seq \in Int,
           NEW a \in ackPayload,
           NEW g, g = Round(ackSize, h + 1),
           NEW u, u = IF g = t THEN Round(ackSize, t + 1) ELSE t,
           NEW r, r = [s EXCEPT ![h] = seq], NEW e, e = [d EXCEPT ![h] = a]
    PROVE  Lengthens(r, e, g, u, s, d, h, t, <<seq, a>>)
<1> DEFINE n == Stretch(h, t)
           all == Append(Log(s, d, h, t), <<seq, a>>)
<1>1. /\ ackSize \in Nat \ {0} /\ h \in 0..(ackSize - 1) /\ t \in 0..(ackSize - 1)
      /\ s \in [0..(ackSize - 1) -> Int] /\ d \in [0..(ackSize - 1) -> {-1} \cup ackPayload]
  BY DEF W!Sizes, IsWindow
<1>2. g = Round(ackSize, h + 1) /\ u = IF g = t THEN Round(ackSize, t + 1) ELSE t
  OBVIOUS
<1>3. IsWindow(r, e, g, u) /\ n \in 0..(ackSize - 1)
  BY <1>1, <1>2 DEF IsWindow, Round, Stretch
<1>4. /\ Log(s, d, h, t) \in Seq(Int \X ({-1} \cup ackPayload)) /\ Len(Log(s, d, h, t)) = n
      /\ \A i \in 1..n : Round(ackSize, t + (i - 1)) \in (0..(ackSize - 1)) \ {h}
  <2>1. \A i \in 1..n : Round(ackSize, t + (i - 1)) \in (0..(ackSize - 1)) \ {h}
    BY <1>1, <1>3 DEF Round, Stretch
  <2>2. \A i \in 1..n : <<s[Round(ackSize, t + (i - 1))], d[Round(ackSize, t + (i - 1))]>>
                         \in Int \X ({-1} \cup ackPayload)
    BY <1>1, <2>1
  <2>3. Log(s, d, h, t) = [i \in 1..n |-> <<s[Round(ackSize, t + (i - 1))],
                                           d[Round(ackSize, t + (i - 1))]>>]
    BY DEF Log
  <2> HIDE DEF n
  <2> QED
    BY <1>3, <2>1, <2>2, <2>3
<1>5. /\ all \in Seq(Int \X ({-1} \cup ackPayload)) /\ Len(all) = n + 1
      /\ all[n + 1] = <<seq, a>>
      /\ \A i \in 1..n : all[i] = <<s[Round(ackSize, t + (i - 1))], d[Round(ackSize, t + (i - 1))]>>
  BY <1>3, <1>4 DEF Log
<1>6. Round(ackSize, t + n) = h
  <2>1. CASE h >= t
    BY <1>1, <2>1 DEF Round, Stretch
  <2>2. CASE ~(h >= t)
    BY <1>1, <2>2 DEF Round, Stretch
  <2> QED
    BY <2>1, <2>2
<1>7. \A i \in 1..(n + 1) : all[i] = <<r[Round(ackSize, t + (i - 1))], e[Round(ackSize, t + (i - 1))]>>
  <2>1. ASSUME NEW i \in 1..n
        PROVE  all[i] = <<r[Round(ackSize, t + (i - 1))], e[Round(ackSize, t + (i - 1))]>>
    BY <1>1, <1>4, <1>5
  <2>2. all[n + 1] = <<r[h], e[h]>>
    BY <1>1, <1>5
  <2>3. (n + 1) - 1 = n /\ \A i \in 1..(n + 1) : i \in 1..n \/ i = n + 1
    BY <1>3
  <2> HIDE DEF all, n
  <2> QED
    BY <1>6, <2>1, <2>2, <2>3, Zenon
<1>8. CASE n + 1 < ackSize
  <2>1. u = t /\ Stretch(g, u) = n + 1
    BY <1>1, <1>2, <1>8 DEF Round, Stretch
  <2>2. Log(r, e, g, u) = all
    <3> HIDE DEF all, n
    <3> QED
      BY <1>5, <1>7, <2>1 DEF Log
  <2> QED
    BY <1>3, <1>5, <1>8, <2>2 DEF Longer, Lengthens
<1>9. CASE ~(n + 1 < ackSize)
  <2>1. n + 1 = ackSize /\ u = Round(ackSize, t + 1) /\ Stretch(g, u) = n
    BY <1>1, <1>2, <1>3, <1>9 DEF Round, Stretch
  <2>2. \A i \in 1..n : Round(ackSize, u + (i - 1)) = Round(ackSize, t + ((i + 1) - 1))
    BY <1>1, <1>3, <2>1 DEF Round
  <2>3. Tail(all) = [i \in 1..n |-> all[i + 1]]
    BY <1>3, <1>5
  <2>4. \A i \in 1..n : i + 1 \in 1..(n + 1)
    BY <1>3
  <2>5. Log(r, e, g, u) = Tail(all)
    <3>1. Log(r, e, g, u) = [i \in 1..n |-> <<r[Round(ackSize, u + (i - 1))],
                                             e[Round(ackSize, u + (i - 1))]>>]
      BY <2>1 DEF Log
    <3>2. ASSUME NEW i \in 1..n
          PROVE  <<r[Round(ackSize, u + (i - 1))], e[Round(ackSize, u + (i - 1))]>> = all[i + 1]
      BY <1>7, <2>2, <2>4, Zenon
    <3> HIDE DEF all, n
    <3> QED
      BY <2>3, <3>1, <3>2, Zenon
  <2> QED
    BY <1>3, <1>5, <1>9, <2>5 DEF Longer, Lengthens
<1> QED
  BY <1>8, <1>9

LEMMA StoreKeeps ==
    ASSUME W!Sizes, AckInv, NEW seq \in Int, NEW a \in ackPayload, W!store(seq, a)
    PROVE  AckInv' /\ W!Remember(seq, a)
<1>1. /\ ackSeqNo' = [ackSeqNo EXCEPT ![ackHead] = seq]
      /\ ackData' = [ackData EXCEPT ![ackHead] = a]
      /\ ackHead' = (ackHead + 1) % ackSize
      /\ ackTail' = IF ackHead' = ackTail THEN (ackTail + 1) % ackSize ELSE ackTail
      /\ UNCHANGED ackRet
  BY DEF W!store
<1>2. /\ ackHead' = Round(ackSize, ackHead + 1)
      /\ ackTail' = IF ackHead' = ackTail THEN Round(ackSize, ackTail + 1) ELSE ackTail
  <2>1. /\ ackSize \in Nat \ {0} /\ ackHead + 1 \in 0..(2 * ackSize - 1)
        /\ ackTail + 1 \in 0..(2 * ackSize - 1)
    BY DEF W!Sizes, AckInv, IsWindow
  <2> QED
    BY <1>1, <2>1, RoundIs, Zenon
<1>3. /\ AckInv'
      /\ Log(ackSeqNo, ackData, ackHead, ackTail)'
           = Longer(Log(ackSeqNo, ackData, ackHead, ackTail), <<seq, a>>)
  <2>1. IsWindow(ackSeqNo, ackData, ackHead, ackTail)
    BY DEF AckInv
  <2>2. Lengthens(ackSeqNo', ackData', ackHead', ackTail', ackSeqNo, ackData, ackHead, ackTail, <<seq, a>>)
    BY <1>1, <1>2, <2>1, LogGrows, Zenon
  <2> QED
    BY <2>2, Zenon DEF AckInv, Lengthens
<1> QED
  BY <1>1, <1>3, PendingIs, PendingIsNext, Zenon DEF W!Remember, Longer

\* The entries up to the p-th, counted from 0, are gone.
LEMMA LogShortens ==
    ASSUME W!Sizes, NEW s, NEW d, NEW h, NEW t, IsWindow(s, d, h, t),
           NEW p \in 0..(Stretch(h, t) - 1)
    PROVE  LET u == Round(ackSize, Round(ackSize, t + p) + 1)
               log == Log(s, d, h, t)
           IN /\ u \in 0..(ackSize - 1)
              /\ h >= t /\ Round(ackSize, t + p) + 1 = h => SubSeq(log, p + 2, Len(log)) = << >>
              /\ ~(h >= t /\ Round(ackSize, t + p) + 1 = h)
                   => Log(s, d, h, u) = SubSeq(log, p + 2, Len(log))
<1> DEFINE u == Round(ackSize, Round(ackSize, t + p) + 1)
           log == Log(s, d, h, t)
           n == Stretch(h, t)
<1>1. ackSize \in Nat \ {0} /\ h \in 0..(ackSize - 1) /\ t \in 0..(ackSize - 1)
  BY DEF W!Sizes, IsWindow
<1>2. n \in 0..(ackSize - 1)
  BY <1>1, StretchIs
<1>3. Len(log) = n /\ log = [i \in 1..n |-> <<s[Round(ackSize, t + (i - 1))],
                                             d[Round(ackSize, t + (i - 1))]>>]
  BY <1>2 DEF Log
<1>4. u \in 0..(ackSize - 1)
  BY <1>1, <1>2 DEF Round
<1>5. SubSeq(log, p + 2, n) = [i \in 1..(n - p - 1) |-> log[i + p + 1]]
  <2> HIDE DEF log, n
  <2>1. p \in Nat /\ p + 2 \in Int /\ n \in Int /\ (n - (p + 2)) + 1 = n - p - 1
        /\ \A i \in 1..(n - p - 1) : (p + 2 + i) - 1 = i + p + 1
    BY <1>2
  <2> QED
    BY <2>1
<1>6. ASSUME h >= t, Round(ackSize, t + p) + 1 = h PROVE SubSeq(log, p + 2, n) = << >>
  <2>1. n - p - 1 = 0
    BY <1>1, <1>2, <1>6 DEF Round, Stretch
  <2>2. SubSeq(log, p + 2, n) = [i \in 1..0 |-> log[i + p + 1]]
    BY <1>5, <2>1, Zenon
  <2> HIDE DEF log, n
  <2> QED
    BY <2>2
<1>7. ASSUME ~(h >= t /\ Round(ackSize, t + p) + 1 = h) PROVE Log(s, d, h, u) = SubSeq(log, p + 2, n)
  <2>1. Stretch(h, u) = n - p - 1
    BY <1>1, <1>2, <1>7 DEF Round, Stretch
  <2>2. ASSUME NEW i \in 1..(n - p - 1)
        PROVE  /\ Round(ackSize, u + (i - 1)) = Round(ackSize, t + ((i + p + 1) - 1))
               /\ i + p + 1 \in 1..n
    BY <1>1, <1>2 DEF Round
  <2>3. ASSUME NEW i \in 1..(n - p - 1)
        PROVE  log[i + p + 1] = <<s[Round(ackSize, u + (i - 1))], d[Round(ackSize, u + (i - 1))]>>
    <3> HIDE DEF u, n, log
    <3> QED
      BY <1>3, <2>2, Zenon
  <2>4. Log(s, d, h, u) = [i \in 1..(n - p - 1) |-> <<s[Round(ackSize, u + (i - 1))],
                                                    d[Round(ackSize, u + (i - 1))]>>]
    BY <2>1 DEF Log
  <2> HIDE DEF u, n, log
  <2> QED
    BY <1>5, <2>3, <2>4, Zenon
<1> QED
  BY <1>3, <1>4, <1>6, <1>7, Zenon

\* The first of some numbers, and of the same numbers counted from 1.
LEMMA FirstIs ==
    ASSUME NEW S \in SUBSET Nat, S # {}
    PROVE  /\ (CHOOSE i \in S : \A j \in S : i <= j) \in S
           /\ LET T == {i + 1 : i \in S}
              IN (CHOOSE i \in T : \A j \in T : i <= j) = (CHOOSE i \in S : \A j \in S : i <= j) + 1
<1> DEFINE T == {i + 1 : i \in S}
           m == CHOOSE i \in S : \A j \in S : i <= j
           k == CHOOSE i \in T : \A j \in T : i <= j
<1>1. PICK x \in S : \A y \in S : ~(<<y, x>> \in Less)
  BY LessWellFounded, WFMin
<1>2. ASSUME NEW y \in S PROVE x <= y
  <2>1. y \in Nat /\ x \in Nat /\ <<y, x>> \in Nat \X Nat /\ <<y, x>>[1] = y /\ <<y, x>>[2] = x
    OBVIOUS
  <2>2. ~(y < x)
    BY <1>1, <2>1, Zenon DEF Less
  <2> QED
    BY <2>1, <2>2
<1>3. m \in S /\ \A j \in S : m <= j
  BY <1>2
<1>4. m + 1 \in T /\ \A j \in T : m + 1 <= j
  <2>1. m + 1 \in T
    BY <1>3
  <2>2. ASSUME NEW j \in T PROVE m + 1 <= j
    <3>1. PICK i \in S : j = i + 1
      OBVIOUS
    <3>2. m <= i /\ m \in Nat /\ i \in Nat
      BY <1>3
    <3> HIDE DEF m
    <3> QED
      BY <3>1, <3>2
  <2> QED
    BY <2>1, <2>2
<1>5. k \in T /\ \A j \in T : k <= j
  <2> HIDE DEF T, m
  <2> QED
    BY <1>4
<1>6. k <= m + 1 /\ m + 1 <= k /\ k \in Nat /\ m \in Nat
  <2>1. \A j \in T : j \in Nat
    OBVIOUS
  <2> HIDE DEF T, m, k
  <2> QED
    BY <1>3, <1>4, <1>5, <2>1
<1>7. k = m + 1
  <2> HIDE DEF m, k
  <2> QED
    BY <1>6
<1> QED
  BY <1>3, <1>7, Zenon

LEMMA AcknowledgeKeeps ==
    ASSUME W!Sizes, AckInv, NEW seq, W!acknowledge(seq)
    PROVE  AckInv' /\ W!Answer(seq)
<1> DEFINE n == Stretch(ackHead, ackTail)
           log == Log(ackSeqNo, ackData, ackHead, ackTail)
           hits == {i \in 0..(n - 1) : ackSeqNo[Round(ackSize, ackTail + i)] = seq}
           at == {i \in DOMAIN W!Pending : W!Pending[i][1] = seq}
           p == CHOOSE i \in hits : \A j \in hits : i <= j
           place == Round(ackSize, ackTail + p)
<1>1. /\ ackSize \in Nat \ {0} /\ ackHead \in 0..(ackSize - 1) /\ ackTail \in 0..(ackSize - 1)
      /\ n \in 0..(ackSize - 1)
  BY StretchIs DEF W!Sizes, AckInv, IsWindow
<1>2. W!Length = n /\ W!Pending = log /\ \A i \in 0..(n - 1) : W!Place(i) = Round(ackSize, ackTail + i)
  <2>1. \A i \in 0..(n - 1) : i \in 0..(ackSize - 1)
    BY <1>1
  <2> QED
    BY <2>1, PendingIs, Zenon
<1>3. hits = {i \in 0..(W!Length - 1) : ackSeqNo[W!Place(i)] = seq}
  <2> HIDE DEF n
  <2> QED
    BY <1>2, Zenon
<1>4. /\ Len(log) = n /\ DOMAIN log = 1..n
      /\ \A i \in 1..n : log[i] = <<ackSeqNo[Round(ackSize, ackTail + (i - 1))],
                                   ackData[Round(ackSize, ackTail + (i - 1))]>>
  BY <1>1 DEF Log
<1>5. at = {i + 1 : i \in hits}
  <2>1. ASSUME NEW i \in 0..(n - 1)
        PROVE  i + 1 \in 1..n /\ (i + 1) - 1 = i
    BY <1>1
  <2>2. ASSUME NEW i \in 1..n
        PROVE  i - 1 \in 0..(n - 1) /\ (i - 1) + 1 = i
    BY <1>1
  <2>3. \A i \in 1..n : log[i][1] = ackSeqNo[Round(ackSize, ackTail + (i - 1))]
    BY <1>4
  <2>4. at = {i \in 1..n : ackSeqNo[Round(ackSize, ackTail + (i - 1))] = seq}
    <3> HIDE DEF n, log
    <3> QED
      BY <1>2, <1>4, <2>3, Zenon
  <2>5. ASSUME NEW i \in at PROVE i \in {j + 1 : j \in hits}
    <3> HIDE DEF n, at
    <3> QED
      BY <2>2, <2>4, <2>5
  <2>6. ASSUME NEW i \in {j + 1 : j \in hits} PROVE i \in at
    <3>1. PICK j \in hits : i = j + 1
      BY <2>6, Zenon
    <3> HIDE DEF n, at
    <3> QED
      BY <2>1, <2>4, <3>1
  <2> QED
    BY <2>5, <2>6, Zenon
<1>6. CASE hits = {}
  <2>1. UNCHANGED <<ackSeqNo, ackData, ackHead, ackTail>> /\ ackRet' = -1
    BY <1>3, <1>6, Zenon DEF W!acknowledge
  <2>2. AckInv' /\ W!Pending' = W!Pending
    BY <1>2, <2>1, PendingIsNext, Zenon DEF AckInv
  <2>3. at = {}
    BY <1>5, <1>6
  <2> QED
    BY <2>1, <2>2, <2>3, Zenon DEF W!Answer
<1>7. CASE hits # {}
  <2>1. p \in hits /\ (CHOOSE i \in at : \A j \in at : i <= j) = p + 1 /\ at # {}
    <3>1. hits \in SUBSET Nat
      OBVIOUS
    <3>2. at # {}
      BY <1>5, <1>7
    <3> HIDE DEF hits, at
    <3> QED
      BY <1>5, <1>7, <3>1, <3>2, FirstIs, Zenon
  <2>2. p \in 0..(n - 1) /\ W!Place(p) = place
    BY <1>2, <2>1
  <2>3. /\ ackRet' = ackData[place] /\ UNCHANGED ackData
        /\ IF ackHead >= ackTail /\ place + 1 = ackHead
           THEN ackTail' = 0 /\ ackHead' = 0 /\ ackSeqNo' = [ackSeqNo EXCEPT ![0] = -1]
           ELSE ackTail' = (place + 1) % ackSize /\ UNCHANGED <<ackHead, ackSeqNo>>
    <3> HIDE DEF n, hits, place
    <3> QED
      BY <1>3, <1>7, <2>2, Zenon DEF W!acknowledge
  <2>4. place \in 0..(ackSize - 1) /\ (place + 1) % ackSize = Round(ackSize, place + 1)
    <3>1. place \in 0..(ackSize - 1)
      BY <1>1, <2>2 DEF Round
    <3>2. place + 1 \in 0..(2 * ackSize - 1)
      BY <1>1, <3>1
    <3> QED
      BY <1>1, <3>1, <3>2, RoundIs, Zenon
  <2>5. /\ Round(ackSize, place + 1) \in 0..(ackSize - 1)
        /\ ackHead >= ackTail /\ place + 1 = ackHead => SubSeq(log, p + 2, Len(log)) = << >>
        /\ ~(ackHead >= ackTail /\ place + 1 = ackHead)
              => Log(ackSeqNo, ackData, ackHead, Round(ackSize, place + 1)) = SubSeq(log, p + 2, Len(log))
    <3> HIDE DEF p, n
    <3> QED
      BY <2>2, LogShortens, Zenon DEF AckInv, n
  <2>6. AckInv' /\ W!Pending' = SubSeq(log, p + 2, Len(log))
    <3>1. CASE ackHead >= ackTail /\ place + 1 = ackHead
      <4>1. ackTail' = 0 /\ ackHead' = 0 /\ ackSeqNo' = [ackSeqNo EXCEPT ![0] = -1] /\ UNCHANGED ackData
        BY <2>3, <3>1
      <4>2. AckInv'
        BY <1>1, <4>1 DEF AckInv, IsWindow
      <4>3. Log(ackSeqNo, ackData, ackHead, ackTail)' = << >>
        BY <4>1 DEF Log, Stretch
      <4> QED
        BY <2>5, <3>1, <4>2, <4>3, PendingIsNext, Zenon
    <3>2. CASE ~(ackHead >= ackTail /\ place + 1 = ackHead)
      <4>1. ackTail' = Round(ackSize, place + 1) /\ UNCHANGED <<ackHead, ackSeqNo, ackData>>
        BY <2>3, <2>4, <3>2, Zenon
      <4>2. AckInv'
        BY <2>5, <4>1, Zenon DEF AckInv, IsWindow
      <4>3. Log(ackSeqNo, ackData, ackHead, ackTail)' = SubSeq(log, p + 2, Len(log))
        BY <2>5, <3>2, <4>1, Zenon
      <4> QED
        BY <4>2, <4>3, PendingIsNext, Zenon
    <3> QED
      BY <3>1, <3>2
  <2>7. W!Pending[p + 1][2] = ackData[place] /\ p + 2 = (p + 1) + 1
    <3>1. p + 1 \in 1..n /\ (p + 1) - 1 = p /\ p + 2 = (p + 1) + 1
      BY <1>1, <2>2
    <3>2. log[p + 1] = <<ackSeqNo[place], ackData[place]>>
      BY <1>4, <3>1, Zenon
    <3> HIDE DEF log, place, p
    <3> QED
      BY <1>2, <3>1, <3>2
  <2>8. W!Answer(seq)
    <3> DEFINE c == CHOOSE i \in at : \A j \in at : i <= j
    <3>1. W!Answer(seq) <=> IF at = {} THEN ackRet' = -1 /\ UNCHANGED W!Pending
                            ELSE /\ ackRet' = W!Pending[c][2]
                                 /\ W!Pending' = SubSeq(W!Pending, c + 1, Len(W!Pending))
      BY Zenon DEF W!Answer
    <3>2. c = p + 1
      BY <2>1
    <3> HIDE DEF c, at, p, log, n, place
    <3> QED
      BY <1>2, <2>1, <2>3, <2>6, <2>7, <3>1, <3>2, Zenon
  <2> QED
    BY <2>6, <2>8
<1> QED
  BY <1>6, <1>7

\* g adds up what array a has at the places in R, place by place.
Sums(g, n, R, a) == g = [i \in 0..n |-> IF i = 0 THEN 0
                                        ELSE g[i - 1] + (IF i - 1 \in R THEN a[i - 1] ELSE 0)]

\* What is true of 0, and of n + 1 if it is of n, is true of all numbers.
LEMMA CountUp ==
    ASSUME NEW S, 0 \in S, \A n \in Nat : n \in S => n + 1 \in S
    PROVE  Nat \subseteq S
<1> SUFFICES ASSUME Nat \ S # {} PROVE FALSE
  OBVIOUS
<1>1. PICK x \in Nat \ S : \A y \in Nat \ S : ~(<<y, x>> \in Less)
  BY LessWellFounded, WFMin, Zenon
<1>2. x # 0 /\ x - 1 \in Nat
  BY <1>1
<1>3. <<x - 1, x>> \in Less
  BY <1>2 DEF Less
<1>4. x - 1 \in S
  BY <1>1, <1>2, <1>3
<1> QED
  BY <1>1, <1>2, <1>4

LEMMA SumsExist ==
    ASSUME NEW n \in Nat, NEW R, NEW a
    PROVE  \E g : Sums(g, n, R, a)
<1> DEFINE S == {m \in Nat : \E g : Sums(g, m, R, a)}
<1>1. 0 \in S
  <2>1. Sums([i \in 0..0 |-> 0], 0, R, a)
    BY DEF Sums
  <2> QED
    BY <2>1
<1>2. ASSUME NEW m \in Nat, m \in S PROVE m + 1 \in S
  <2>1. PICK g : Sums(g, m, R, a)
    BY <1>2
  <2> DEFINE h == [i \in 0..(m + 1) |-> IF i <= m THEN g[i]
                                       ELSE g[m] + (IF m \in R THEN a[m] ELSE 0)]
  <2>2. \A i \in 0..m : g[i] = IF i = 0 THEN 0 ELSE g[i - 1] + (IF i - 1 \in R THEN a[i - 1] ELSE 0)
    <3> DEFINE f == [i \in 0..m |-> IF i = 0 THEN 0
                                    ELSE g[i - 1] + (IF i - 1 \in R THEN a[i - 1] ELSE 0)]
    <3>1. g = f
      BY <2>1, Zenon DEF Sums
    <3>2. \A i \in 0..m : f[i] = IF i = 0 THEN 0 ELSE g[i - 1] + (IF i - 1 \in R THEN a[i - 1] ELSE 0)
      OBVIOUS
    <3> HIDE DEF f
    <3> QED
      BY <3>1, <3>2
  <2>3. ASSUME NEW i \in 0..(m + 1)
        PROVE  h[i] = IF i = 0 THEN 0 ELSE h[i - 1] + (IF i - 1 \in R THEN a[i - 1] ELSE 0)
    <3>1. CASE i = 0
      BY <2>2, <3>1
    <3>2. CASE i \in 1..m
      BY <2>2, <3>2
    <3>3. CASE i = m + 1
      BY <3>3
    <3> QED
      BY <3>1, <3>2, <3>3
  <2>4. h = [i \in 0..(m + 1) |-> IF i = 0 THEN 0 ELSE h[i - 1] + (IF i - 1 \in R THEN a[i - 1] ELSE 0)]
    <3>1. DOMAIN h = 0..(m + 1) /\ h = [i \in 0..(m + 1) |-> h[i]]
      OBVIOUS
    <3> HIDE DEF h
    <3> QED
      BY <2>3, <3>1
  <2>5. Sums(h, m + 1, R, a)
    <3> HIDE DEF h
    <3> QED
      BY <2>4, Zenon DEF Sums
  <2> QED
    BY <2>5
<1>3. Nat \subseteq S
  <2> HIDE DEF S
  <2> QED
    BY <1>1, <1>2, CountUp
<1> QED
  BY <1>3

\* If each of them is at least m, or at most m, so is what they add up to, m for each.
LEMMA SumsBound ==
    ASSUME NEW n \in Nat, NEW R \in SUBSET (0..(n - 1)), NEW a \in [0..(n - 1) -> Nat],
           NEW g, Sums(g, n, R, a), NEW m \in Int
    PROVE  /\ g[n] \in Nat /\ Cardinality(R) \in Nat
           /\ (\A i \in R : a[i] >= m) => g[n] >= m * Cardinality(R)
           /\ (\A i \in R : a[i] <= m) => g[n] <= m * Cardinality(R)
<1> DEFINE Up(k) == {i \in R : i < k}
           S == {k \in Nat : k <= n => /\ g[k] \in Nat
                                       /\ IsFiniteSet(Up(k)) /\ Cardinality(Up(k)) \in Nat
                                       /\ (\A i \in R : a[i] >= m) => g[k] >= m * Cardinality(Up(k))
                                       /\ (\A i \in R : a[i] <= m) => g[k] <= m * Cardinality(Up(k))}
<1>0. \A i \in R : i \in Int /\ 0 <= i /\ i < n
  OBVIOUS
<1>1. \A i \in 0..n : g[i] = IF i = 0 THEN 0 ELSE g[i - 1] + (IF i - 1 \in R THEN a[i - 1] ELSE 0)
  <2> DEFINE f == [i \in 0..n |-> IF i = 0 THEN 0
                                  ELSE g[i - 1] + (IF i - 1 \in R THEN a[i - 1] ELSE 0)]
  <2>1. g = f
    BY Zenon DEF Sums
  <2>2. \A i \in 0..n : f[i] = IF i = 0 THEN 0 ELSE g[i - 1] + (IF i - 1 \in R THEN a[i - 1] ELSE 0)
    OBVIOUS
  <2> HIDE DEF f
  <2> QED
    BY <2>1, <2>2
<1>2. 0 \in S
  <2>1. Up(0) = {}
    <3>1. \A i \in R : ~(i < 0)
      BY <1>0
    <3> QED
      BY <3>1, Zenon
  <2>2. IsFiniteSet(Up(0)) /\ Cardinality(Up(0)) = 0
    BY <2>1, FS_EmptySet
  <2>3. g[0] = 0
    BY <1>1
  <2> HIDE DEF Up
  <2> QED
    BY <2>2, <2>3
<1>3. ASSUME NEW k \in Nat, k \in S PROVE k + 1 \in S
  <2>1. SUFFICES ASSUME k + 1 <= n
                 PROVE  /\ g[k + 1] \in Nat
                        /\ IsFiniteSet(Up(k + 1)) /\ Cardinality(Up(k + 1)) \in Nat
                        /\ (\A i \in R : a[i] >= m) => g[k + 1] >= m * Cardinality(Up(k + 1))
                        /\ (\A i \in R : a[i] <= m) => g[k + 1] <= m * Cardinality(Up(k + 1))
    OBVIOUS
  <2>2. /\ g[k] \in Nat /\ IsFiniteSet(Up(k)) /\ Cardinality(Up(k)) \in Nat
        /\ (\A i \in R : a[i] >= m) => g[k] >= m * Cardinality(Up(k))
        /\ (\A i \in R : a[i] <= m) => g[k] <= m * Cardinality(Up(k))
    BY <1>3, <2>1
  <2>3. g[k + 1] = g[k] + (IF k \in R THEN a[k] ELSE 0)
    BY <1>1, <2>1
  <2>4. CASE k \in R
    <3>1. Up(k + 1) = Up(k) \cup {k} /\ k \notin Up(k)
      <4>1. \A i \in R : i < k + 1 <=> i < k \/ i = k
        BY <1>0
      <4>2. ~(k < k)
        OBVIOUS
      <4> QED
        BY <2>4, <4>1, <4>2, Zenon
    <3>2. IsFiniteSet(Up(k + 1)) /\ Cardinality(Up(k + 1)) = Cardinality(Up(k)) + 1
      <4> HIDE DEF Up
      <4> QED
        BY <2>2, <3>1, FS_AddElement
    <3>3. a[k] \in Nat
      BY <2>4
    <3> DEFINE c == Cardinality(Up(k))
    <3>4. c \in Nat
      BY <2>2
    <3>5. m * (c + 1) = m * c + m
      <4> HIDE DEF c
      <4> QED
        BY <3>4
    <3>6. g[k + 1] = g[k] + a[k]
      BY <2>3, <2>4
    <3>7. m * c \in Int /\ g[k] \in Int
      <4> HIDE DEF c
      <4> QED
        BY <2>2, <3>4
    <3>8. (\A i \in R : a[i] >= m) => g[k + 1] >= m * c + m
      <4> DEFINE x == m * c
      <4>1. (\A i \in R : a[i] >= m) => g[k] >= x
        BY <2>2
      <4> HIDE DEF c, x
      <4>2. (\A i \in R : a[i] >= m) => g[k + 1] >= x + m
        BY <2>2, <2>4, <3>3, <3>6, <3>7, <4>1 DEF x
      <4> QED
        BY <4>2 DEF x
    <3>9. (\A i \in R : a[i] <= m) => g[k + 1] <= m * c + m
      <4> DEFINE x == m * c
      <4>1. (\A i \in R : a[i] <= m) => g[k] <= x
        BY <2>2
      <4> HIDE DEF c, x
      <4>2. (\A i \in R : a[i] <= m) => g[k + 1] <= x + m
        BY <2>2, <2>4, <3>3, <3>6, <3>7, <4>1 DEF x
      <4> QED
        BY <4>2 DEF x
    <3>10. g[k + 1] \in Nat /\ Cardinality(Up(k + 1)) \in Nat /\ m * Cardinality(Up(k + 1)) = m * c + m
      BY <2>2, <3>2, <3>3, <3>4, <3>5, <3>6
    <3> HIDE DEF c, Up
    <3> QED
      BY <3>2, <3>8, <3>9, <3>10
  <2>5. CASE k \notin R
    <3>1. Up(k + 1) = Up(k)
      <4>1. \A i \in R : i < k + 1 <=> i < k \/ i = k
        BY <1>0
      <4> QED
        BY <2>5, <4>1, Zenon
    <3> HIDE DEF Up
    <3> QED
      BY <2>2, <2>3, <2>5, <3>1
  <2> QED
    BY <2>4, <2>5
<1>4. Nat \subseteq S
  <2> HIDE DEF S
  <2> QED
    BY <1>2, <1>3, CountUp
<1>5. Up(n) = R
  BY <1>0, Zenon
<1>6. n \in S /\ n <= n
  <2> HIDE DEF S
  <2> QED
    BY <1>4
<1> HIDE DEF Up
<1> QED
  BY <1>5, <1>6

\* In the order of an array's values, and of places with the same, every rank is taken.
LEMMA RankIsTaken ==
    ASSUME NEW n \in Nat, NEW a \in [0..n -> Nat], NEW k \in 0..(n - 1)
    PROVE  LET Below(i) == {j \in 0..(n - 1) : a[j] < a[i] \/ (a[j] = a[i] /\ j < i)}
           IN \E i \in 0..(n - 1) : Cardinality(Below(i)) = k
<1> DEFINE P == 0..(n - 1)
           Lt(j, i) == a[j] < a[i] \/ (a[j] = a[i] /\ j < i)
           Below(i) == {j \in P : Lt(j, i)}
           r == [i \in P |-> Cardinality(Below(i))]
<1>1. /\ IsFiniteSet(P) /\ Cardinality(P) = n
      /\ \A i \in P : a[i] \in Nat /\ i \in Nat
  <2>1. 0 \in Int /\ n - 1 \in Int /\ (IF 0 > n - 1 THEN 0 ELSE (n - 1) - 0 + 1) = n
    OBVIOUS
  <2>2. IsFiniteSet(P) /\ Cardinality(P) = n
    BY <2>1, FS_Interval, Zenon
  <2> QED
    BY <2>2
<1>2. \A i \in P : ~Lt(i, i)
  <2> HIDE DEF P
  <2> QED
    BY <1>1
<1>3. \A h, i, j \in P : Lt(h, i) /\ Lt(i, j) => Lt(h, j)
  <2> HIDE DEF P
  <2> QED
    BY <1>1
<1>4. \A i, j \in P : i # j => Lt(i, j) \/ Lt(j, i)
  <2> HIDE DEF P
  <2> QED
    BY <1>1
<1> HIDE DEF P, Lt
<1>5. ASSUME NEW i \in P
      PROVE  IsFiniteSet(Below(i)) /\ Cardinality(Below(i)) \in 0..(n - 1) /\ i \notin Below(i)
  <2>1. i \notin Below(i) /\ Below(i) \subseteq P \ {i}
    BY <1>2, Zenon
  <2>2. IsFiniteSet(P \ {i}) /\ Cardinality(P \ {i}) = n - 1
    BY <1>1, FS_RemoveElement
  <2>3. IsFiniteSet(Below(i)) /\ Cardinality(Below(i)) <= n - 1
    BY <2>1, <2>2, FS_Subset
  <2>4. Cardinality(Below(i)) \in Nat
    BY <2>3, FS_CardinalityType
  <2> QED
    BY <2>1, <2>3, <2>4
<1>6. ASSUME NEW i \in P, NEW j \in P, Lt(i, j) PROVE r[i] # r[j]
  <2>1. Below(i) \cup {i} \subseteq Below(j)
    BY <1>3, <1>6, Zenon
  <2>2. IsFiniteSet(Below(i)) /\ i \notin Below(i) /\ IsFiniteSet(Below(j))
        /\ Cardinality(Below(i)) \in Nat /\ Cardinality(Below(j)) \in Nat
    <3> HIDE DEF Below
    <3>1. \A x \in 0..(n - 1) : x \in Nat
      OBVIOUS
    <3> QED
      BY <1>5, <3>1, Zenon
  <2> HIDE DEF Below
  <2>3. Cardinality(Below(i) \cup {i}) = Cardinality(Below(i)) + 1
    BY <2>2, FS_AddElement
  <2>4. Cardinality(Below(i) \cup {i}) <= Cardinality(Below(j))
    BY <2>1, <2>2, FS_Subset
  <2> QED
    BY <2>2, <2>3, <2>4
<1>7. SUFFICES ASSUME \A i \in P : r[i] # k PROVE FALSE
  BY Zenon DEF P, Lt
<1> DEFINE T == (0..(n - 1)) \ {k}
<1>8. IsFiniteSet(T) /\ Cardinality(T) = n - 1
  <2>1. IsFiniteSet(0..(n - 1)) /\ Cardinality(0..(n - 1)) = n
    BY <1>1 DEF P
  <2> QED
    BY <2>1, FS_RemoveElement
<1>9. r \in [P -> T]
  BY <1>5, <1>7
<1>10. \E i, j \in P : i # j /\ r[i] = r[j]
  <2>1. Cardinality(T) < Cardinality(P)
    BY <1>1, <1>8
  <2> HIDE DEF r, T
  <2> QED
    BY <1>1, <1>8, <1>9, <2>1, FS_PigeonHole
<1> HIDE DEF r
<1> QED
  BY <1>4, <1>6, <1>10

\* The library's count, by whichever module it comes.
LEMMA SameCount == ASSUME NEW S PROVE W!Cardinality(S) = Cardinality(S)
  BY Zenon DEF W!Cardinality, Cardinality

ArrivalsInv == arrivals \in [0..(arrSize - 1) -> Nat] /\ arrPtr \in 0..(arrSize - 1)

\* A mean is between what it is the mean of.
LEMMA MeanIsBetween ==
    ASSUME NEW t \in Nat, NEW c \in Nat, c > 0
    PROVE  /\ t \div c \in Nat
           /\ t < ((t \div c) + 1) * c
           /\ t > ((t \div c) - 1) * c
           /\ t >= 1 * c => t \div c > 0
<1> DEFINE q == t \div c
           r == t % c
<1>1. q \in Int /\ r \in 0..(c - 1) /\ t = c * q + r
  OBVIOUS
<1> HIDE DEF q, r
<1>2. c * q = q * c /\ (q + 1) * c = q * c + c /\ (q - 1) * c = q * c - c
  BY <1>1
<1>3. q >= 0
  <2>1. CASE q <= -1
    <3>1. q * c <= -c
      BY <1>1, <2>1
    <3> QED
      BY <1>1, <1>2, <3>1
  <2> QED
    BY <1>1, <2>1
<1>4. t >= 1 * c => q > 0
  <2>1. CASE q = 0
    BY <1>1, <1>2, <2>1
  <2> QED
    BY <1>1, <1>3, <2>1
<1> QED
  BY <1>1, <1>2, <1>3, <1>4 DEF q

LEMMA SpeedIs == ASSUME W!Sizes, ArrivalsInv PROVE W!SpeedIsSound
<1> DEFINE n == arrSize - 1
           R == W!Regular
           t == W!Total
           c == Cardinality(R)
<1>1. /\ n \in Nat /\ arrSize = n + 1 /\ arrSize \in Nat /\ arrSize \div 2 \in 0..(n - 1)
      /\ arrivals \in [0..(arrSize - 1) -> Nat]
  BY DEF W!Sizes, ArrivalsInv
<1>2. W!Median \in Nat
  <2> DEFINE Below(i) == {j \in 0..(arrSize - 2) : \/ arrivals[j] < arrivals[i]
                                                   \/ arrivals[j] = arrivals[i] /\ j < i}
             m == CHOOSE i \in 0..(arrSize - 2) : W!Cardinality(Below(i)) = arrSize \div 2
  <2>1. n - 1 = arrSize - 2
    BY <1>1
  <2>2. \E i \in 0..(arrSize - 2) : Cardinality(Below(i)) = arrSize \div 2
    <3>1. \E i \in 0..(n - 1) :
            Cardinality({j \in 0..(n - 1) : \/ arrivals[j] < arrivals[i]
                                            \/ (arrivals[j] = arrivals[i] /\ j < i)}) = arrSize \div 2
      <4>1. arrivals \in [0..n -> Nat]
        BY <1>1
      <4> QED
        BY <1>1, <4>1, RankIsTaken, Zenon
    <3> QED
      BY <2>1, <3>1, Zenon
  <2>3. m \in 0..(arrSize - 2)
    <3> HIDE DEF Below
    <3> QED
      BY <2>2, SameCount, Zenon
  <2>4. W!Median = arrivals[m]
    BY Zenon DEF W!Median
  <2> HIDE DEF m
  <2> QED
    BY <1>1, <2>3, <2>4
<1>3. SUFFICES ASSUME W!Enough
               PROVE  /\ W!Mean > 0
                      /\ \E i \in R : arrivals[i] <= W!Mean
                      /\ \E i \in R : arrivals[i] >= W!Mean
  BY DEF W!SpeedIsSound
<1>4. R \in SUBSET (0..(arrSize - 1)) /\ \A i \in R : arrivals[i] \in Nat /\ arrivals[i] >= 1
  <2>1. \A i \in R : i \in 0..(arrSize - 1) /\ arrivals[i] > W!Median \div 8
    BY DEF W!Regular
  <2>2. W!Median \div 8 \in Nat
    BY <1>2
  <2> HIDE DEF R
  <2> QED
    BY <1>1, <2>1, <2>2
<1>5. c \in Nat /\ c > 0
  <2>1. IsFiniteSet(R)
    <3>1. IsFiniteSet(0..(arrSize - 1))
      BY <1>1, FS_Interval
    <3> HIDE DEF R
    <3> QED
      BY <1>4, <3>1, FS_Subset
  <2>2. c \in Nat
    BY <2>1, FS_CardinalityType
  <2>3. c > arrSize \div 2
    BY <1>3, SameCount, Zenon DEF W!Enough
  <2> HIDE DEF c
  <2> QED
    BY <1>1, <2>2, <2>3
<1>6. PICK g : Sums(g, arrSize, R, arrivals) /\ t = g[arrSize]
  <2> DEFINE g == CHOOSE g : Sums(g, arrSize, R, arrivals)
  <2>1. Sums(g, arrSize, R, arrivals)
    BY <1>1, SumsExist
  <2>2. t = g[arrSize]
    BY Zenon DEF W!Total, Sums
  <2> QED
    BY <2>1, <2>2
<1>7. W!Mean = t \div c
  BY SameCount, Zenon DEF W!Mean
<1> HIDE DEF R, t
<1>8. ASSUME NEW m \in Int
      PROVE  /\ t \in Nat
             /\ (\A i \in R : arrivals[i] >= m) => t >= m * c
             /\ (\A i \in R : arrivals[i] <= m) => t <= m * c
  BY <1>1, <1>4, <1>6, SumsBound, Zenon
<1> HIDE DEF c
<1> DEFINE q == t \div c
<1>9. q \in Nat /\ t \in Nat /\ t < (q + 1) * c /\ t > (q - 1) * c /\ (t >= 1 * c => q > 0)
  <2>1. 0 \in Int
    OBVIOUS
  <2>2. t \in Nat
    BY <1>8, <2>1, Zenon
  <2> QED
    BY <1>5, <2>2, MeanIsBetween
<1>10. q \in Nat
  BY <1>9
<1> HIDE DEF q
<1>11. q > 0
  <2>1. 1 \in Int
    OBVIOUS
  <2>2. t >= 1 * c
    BY <1>4, <1>8, <2>1, Zenon
  <2> QED
    BY <1>9, <2>2, Zenon
<1>12. \E i \in R : arrivals[i] <= q
  <2>1. SUFFICES ASSUME \A i \in R : ~(arrivals[i] <= q) PROVE FALSE
    OBVIOUS
  <2>2. \A i \in R : arrivals[i] >= q + 1
    BY <1>4, <1>10, <2>1
  <2>3. q + 1 \in Int
    BY <1>10
  <2>4. t >= (q + 1) * c
    BY <1>8, <2>2, <2>3, Zenon
  <2> DEFINE x == (q + 1) * c
  <2>5. x \in Int
    BY <1>5, <1>10
  <2>6. t < x /\ t >= x /\ t \in Nat
    BY <1>9, <2>4
  <2> HIDE DEF x
  <2> QED
    BY <2>5, <2>6
<1>13. \E i \in R : arrivals[i] >= q
  <2>1. SUFFICES ASSUME \A i \in R : ~(arrivals[i] >= q) PROVE FALSE
    OBVIOUS
  <2>2. \A i \in R : arrivals[i] <= q - 1
    BY <1>4, <1>10, <2>1
  <2>3. q - 1 \in Int
    BY <1>10
  <2>4. t <= (q - 1) * c
    BY <1>8, <2>2, <2>3, Zenon
  <2> DEFINE x == (q - 1) * c
  <2>5. x \in Int
    BY <1>5, <1>10
  <2>6. t > x /\ t <= x /\ t \in Nat
    BY <1>9, <2>4
  <2> HIDE DEF x
  <2> QED
    BY <2>5, <2>6
<1> QED
  BY <1>7, <1>11, <1>12, <1>13, Zenon DEF q

WindowInv == AckInv /\ ackLast \in 0..(ackMax - 1) /\ ArrivalsInv

LEMMA WindowBegins == ASSUME W!Sizes, W!Init PROVE WindowInv
  BY DEF W!Sizes, W!Init, WindowInv, AckInv, IsWindow, ArrivalsInv

LEMMA WindowStepKeeps == ASSUME W!Sizes, WindowInv, [W!Next]_W!vars PROVE WindowInv'
<1>1. CASE W!AckStep
  <2>1. UNCHANGED <<arrivals, arrPtr>>
    BY <1>1 DEF W!AckStep
  <2>2. ASSUME NEW seq \in 0..(ackMax - 1), W!acknowledge(seq), UNCHANGED ackLast PROVE WindowInv'
    BY <2>1, <2>2, AcknowledgeKeeps, Zenon DEF WindowInv, ArrivalsInv
  <2>3. ASSUME ackLast' = (ackLast + 1) % ackMax, NEW a \in ackPayload, W!store(ackLast', a)
        PROVE  WindowInv'
    <3>1. ackLast' \in 0..(ackMax - 1) /\ ackLast' \in Int
      BY <2>3 DEF WindowInv, W!Sizes
    <3>2. AckInv'
      BY <2>3, <3>1, StoreKeeps, Zenon DEF WindowInv
    <3> QED
      BY <2>1, <3>1, <3>2, Zenon DEF WindowInv, ArrivalsInv
  <2> QED
    BY <1>1, <2>2, <2>3 DEF W!AckStep
<1>2. CASE W!ArrivalStep
  <2>1. PICK x \in arrIntervals : W!onPktArrival(x)
    BY <1>2 DEF W!ArrivalStep
  <2>2. ArrivalsInv'
    BY <2>1 DEF W!onPktArrival, W!Sizes, WindowInv, ArrivalsInv
  <2>3. AckInv' /\ ackLast' \in 0..(ackMax - 1)
    BY <1>2 DEF W!ArrivalStep, W!ackVars, WindowInv, AckInv
  <2> QED
    BY <2>2, <2>3 DEF WindowInv
<1>3. CASE UNCHANGED W!vars
  BY <1>3 DEF W!vars, W!ackVars, WindowInv, AckInv, ArrivalsInv
<1> QED
  BY <1>1, <1>2, <1>3 DEF W!Next

LEMMA WindowKeepsLog == ASSUME W!Sizes, WindowInv, [W!Next]_W!vars PROVE W!KeepsLog
<1>1. ASSUME NEW seq \in 0..(ackMax - 1), W!acknowledge(seq) PROVE W!Answer(seq)
  BY <1>1, AcknowledgeKeeps, Zenon DEF WindowInv
<1>2. ASSUME NEW seq \in 0..(ackMax - 1), NEW a \in ackPayload, W!store(seq, a)
      PROVE  W!Remember(seq, a)
  <2>1. seq \in Int
    BY DEF W!Sizes
  <2> QED
    BY <1>2, <2>1, StoreKeeps, Zenon DEF WindowInv
<1> QED
  BY <1>1, <1>2, Zenon DEF W!KeepsLog

\* To store and acknowledge, whatever their order, the two arrays are a log of the last
\* acknowledgements sent: the oldest one is lost when another would make the ring look
\* empty, and one that is acknowledged takes those before it out and finds its own data.
THEOREM WindowIsLog == ASSUME W!Sizes PROVE W!Spec => [][W!KeepsLog]_W!vars
<1>1. W!Init => WindowInv
  BY WindowBegins
<1>2. WindowInv /\ [W!Next]_W!vars => WindowInv'
  BY WindowStepKeeps
<1>3. WindowInv /\ [W!Next]_W!vars => W!KeepsLog
  BY WindowKeepsLog
<1> QED
  BY <1>1, <1>2, <1>3, PTL DEF W!Spec

\* When getPktRcvSpeed gives a speed it divides by no zero, whatever the intervals are
\* and however many, and the mean it divides by lies between two of the regular ones.
THEOREM SpeedOfArrivals == ASSUME W!Sizes PROVE W!Spec => []W!SpeedIsSound
<1>1. W!Init => WindowInv
  BY WindowBegins
<1>2. WindowInv /\ [W!Next]_W!vars => WindowInv'
  BY WindowStepKeeps
<1>3. WindowInv => W!SpeedIsSound
  BY SpeedIs DEF WindowInv
<1> QED
  BY <1>1, <1>2, <1>3, PTL DEF W!Spec
-----------------------------------------------------------------------------
(* Events, of which an application is told by epoll_wait.                      *)

CONSTANTS PollSocks, MaxPoll

VARIABLES seed, polls, pollIn, pollOut, reads, writes, ids, data, room, pollSt,
          workerPc, readerPc, senderPc, appPc, waiter

E == INSTANCE UDTEPoll WITH Socks <- PollSocks, MaxEid <- MaxPoll, in <- pollIn, out <- pollOut,
        st <- pollSt, wpc <- workerPc, rpc <- readerPc, spc <- senderPc, apc <- appPc

Tables == [E!Eids -> SUBSET PollSocks]

PollsOK == /\ {pollIn, pollOut, reads, writes} \subseteq Tables
           /\ E!ReportedIsWatched

\* Each of what is in a table, without a socket or without all.
LEMMA TablesShrink ==
    ASSUME PollsOK, NEW u \in PollSocks, NEW gone,
           pollIn' = [e \in E!Eids |-> IF e \in gone THEN pollIn[e] \ {u} ELSE pollIn[e]],
           pollOut' = [e \in E!Eids |-> IF e \in gone THEN pollOut[e] \ {u} ELSE pollOut[e]],
           reads' = [e \in E!Eids |-> IF e \in gone THEN reads[e] \ {u} ELSE reads[e]],
           writes' = [e \in E!Eids |-> IF e \in gone THEN writes[e] \ {u} ELSE writes[e]]
    PROVE  PollsOK'
  BY DEF PollsOK, Tables, E!ReportedIsWatched, E!Eids

LEMMA EventsKeep ==
    ASSUME PollsOK, NEW u \in PollSocks,
           \/ E!enable_read(u) /\ UNCHANGED writes
           \/ E!enable_write(u) /\ UNCHANGED reads
           \/ E!disable_read(u) /\ UNCHANGED writes
           \/ E!disable_write(u) /\ UNCHANGED reads
    PROVE  PollsOK'
<1>1. CASE E!enable_read(u) /\ UNCHANGED writes
  BY <1>1 DEF E!enable_read, PollsOK, Tables, E!ReportedIsWatched, E!Eids
<1>2. CASE E!enable_write(u) /\ UNCHANGED reads
  BY <1>2 DEF E!enable_write, PollsOK, Tables, E!ReportedIsWatched, E!Eids
<1>3. CASE E!disable_read(u) /\ UNCHANGED writes
  BY <1>3 DEF E!disable_read, PollsOK, Tables, E!ReportedIsWatched, E!Eids
<1>4. CASE E!disable_write(u) /\ UNCHANGED reads
  BY <1>4 DEF E!disable_write, PollsOK, Tables, E!ReportedIsWatched, E!Eids
<1> QED
  BY <1>1, <1>2, <1>3, <1>4

LEMMA PollsBegin == E!Init => PollsOK
  BY DEF E!Init, PollsOK, Tables, E!ReportedIsWatched, E!Eids

LEMMA PollsStepKeeps == PollsOK /\ [E!Next]_E!vars => PollsOK'
<1> SUFFICES ASSUME PollsOK, [E!Next]_E!vars PROVE PollsOK'
  OBVIOUS
<1>0. ASSUME UNCHANGED E!tables PROVE PollsOK'
  BY <1>0 DEF E!tables, PollsOK, Tables, E!ReportedIsWatched, E!Eids
<1>1. CASE E!create
  BY <1>0, <1>1 DEF E!create
<1>2. CASE E!release
  <2>1. PICK e \in polls : /\ pollIn' = [pollIn EXCEPT ![e] = {}] /\ pollOut' = [pollOut EXCEPT ![e] = {}]
                           /\ reads' = [reads EXCEPT ![e] = {}] /\ writes' = [writes EXCEPT ![e] = {}]
    BY <1>2 DEF E!release
  <2>2. {pollIn', pollOut', reads', writes'} \subseteq Tables
    BY <2>1 DEF PollsOK, Tables
  <2>3. E!ReportedIsWatched'
    BY <2>1 DEF PollsOK, Tables, E!ReportedIsWatched
  <2> QED
    BY <2>2, <2>3 DEF PollsOK
<1>3. ASSUME NEW u \in PollSocks, E!Worker(u) PROVE PollsOK'
  BY <1>0, <1>3, EventsKeep DEF E!Worker
<1>4. ASSUME NEW u \in PollSocks, E!Reader(u) PROVE PollsOK'
  BY <1>0, <1>4, EventsKeep DEF E!Reader
<1>5. ASSUME NEW u \in PollSocks, E!Sender(u) PROVE PollsOK'
  BY <1>0, <1>5, EventsKeep DEF E!Sender
<1>6. ASSUME NEW u \in PollSocks, E!Add(u) PROVE PollsOK'
  <2>1. ASSUME NEW e, E!add_usock(e, u) PROVE PollsOK'
    <3>1. /\ pollIn' \in {pollIn, [pollIn EXCEPT ![e] = @ \cup {u}]}
          /\ pollOut' \in {pollOut, [pollOut EXCEPT ![e] = @ \cup {u}]}
          /\ UNCHANGED <<reads, writes>>
      BY <2>1 DEF E!add_usock
    <3>2. {pollIn', pollOut', reads', writes'} \subseteq Tables
      BY <3>1 DEF PollsOK, Tables
    <3>3. \A x \in E!Eids : pollIn[x] \subseteq pollIn'[x] /\ pollOut[x] \subseteq pollOut'[x]
      BY <3>1 DEF PollsOK, Tables
    <3>4. E!ReportedIsWatched'
      BY <3>1, <3>3, Zenon DEF PollsOK, E!ReportedIsWatched
    <3> QED
      BY <3>2, <3>4 DEF PollsOK
  <2> QED
    BY <1>0, <1>6, <2>1, EventsKeep DEF E!Add
<1>7. ASSUME NEW u \in PollSocks, E!Remove(u) PROVE PollsOK'
  <2>1. ASSUME NEW e, E!remove_usock(e, u) PROVE PollsOK'
    <3>1. {pollIn', pollOut', reads', writes'} \subseteq Tables
      <4>1. ASSUME NEW f \in Tables PROVE [f EXCEPT ![e] = @ \ {u}] \in Tables
        BY DEF Tables
      <4>2. pollIn \in Tables /\ pollOut \in Tables /\ reads \in Tables /\ writes \in Tables
        BY DEF PollsOK
      <4> QED
        BY <2>1, <4>1, <4>2 DEF E!remove_usock
    <3>2. E!ReportedIsWatched'
      BY <2>1 DEF E!remove_usock, PollsOK, Tables, E!ReportedIsWatched
    <3> QED
      BY <3>1, <3>2 DEF PollsOK
  <2> QED
    BY <1>0, <1>7, <2>1 DEF E!Remove
<1>8. ASSUME NEW u \in PollSocks, E!Close(u) PROVE PollsOK'
  BY <1>8, TablesShrink, Zenon DEF E!Close
<1>9. CASE E!WaitStep
  BY <1>0, <1>9 DEF E!WaitStep
<1>10. CASE UNCHANGED E!vars
  BY <1>0, <1>10 DEF E!vars
<1> QED
  BY <1>1, <1>2, <1>3, <1>4, <1>5, <1>6, <1>7, <1>8, <1>9, <1>10 DEF E!Next

\* Whatever sockets and applications do to the polls, and in any order, no table of them
\* holds a socket that the poll does not watch, so that epoll_wait reports none.
THEOREM EventsAreWatched == E!Spec => []E!ReportedIsWatched
<1>1. PollsOK => E!ReportedIsWatched
  BY DEF PollsOK
<1> QED
  BY <1>1, PollsBegin, PollsStepKeeps, PTL DEF E!Spec
-----------------------------------------------------------------------------
(* The thread that receives: its list of sockets, whose nodes each have a link *)
(* to the next one and to the one before.                                      *)

CONSTANTS RcvSocks, RcvAsync, RcvStored, NoRcv

VARIABLES rcvFirst, rcvLast, rcvNext, rcvPrev, rcvOld, onList, hash, fresh, rid, stored,
          rcvSt, callerPc, rcvPc, rcvSock

R == INSTANCE UDTRcvQueue WITH Socks <- RcvSocks, Async <- RcvAsync, MaxStored <- RcvStored,
        NoSock <- NoRcv, first <- rcvFirst, last <- rcvLast, next <- rcvNext, prev <- rcvPrev,
        old <- rcvOld, st <- rcvSt, cpc <- callerPc, wpc <- rcvPc, wsock <- rcvSock

\* The socket at place i of the order c, or none.
Nth(c, i) == IF i \in 1..Len(c) THEN c[i] ELSE NoRcv

Among(c) == {c[i] : i \in 1..Len(c)}

\* From f to l the links nx lead through c, each once, and the links pv back.
Linked(c, f, l, nx, pv) ==
    /\ c \in Seq(RcvSocks) /\ \A i, j \in 1..Len(c) : c[i] = c[j] => i = j
    /\ f = Nth(c, 1) /\ l = Nth(c, Len(c))
    /\ nx \in [RcvSocks -> RcvSocks \cup {NoRcv}] /\ pv \in [RcvSocks -> RcvSocks \cup {NoRcv}]
    /\ \A i \in 1..Len(c) : nx[c[i]] = Nth(c, i + 1) /\ pv[c[i]] = Nth(c, i - 1)

\* Behind one that is young all are young.
ByAge(c, o) == o \in [RcvSocks -> BOOLEAN] /\ \A i \in 2..Len(c) : o[c[i]] => o[c[i - 1]]

\* The nodes make such a list, of these sockets.
IsList(S, o, f, l, nx, pv) ==
    \E c : Linked(c, f, l, nx, pv) /\ ByAge(c, o) /\ Among(c) = S

Joined(S, o, f, l, nx, pv, u) ==
    IsList(S \cup {u}, [o EXCEPT ![u] = FALSE], IF f = NoRcv THEN u ELSE f, u,
           [v \in RcvSocks |-> IF v = u THEN NoRcv ELSE IF v = l THEN u ELSE nx[v]],
           [pv EXCEPT ![u] = l])

LEMMA LastJoins ==
    ASSUME R!Given, NEW S, NEW o, NEW f, NEW l, NEW nx, NEW pv, IsList(S, o, f, l, nx, pv),
           NEW u \in RcvSocks, u \notin S
    PROVE  Joined(S, o, f, l, nx, pv, u)
<1>0. PICK c : Linked(c, f, l, nx, pv) /\ ByAge(c, o) /\ Among(c) = S
  BY DEF IsList
<1> DEFINE p == [o EXCEPT ![u] = FALSE]
           g == IF f = NoRcv THEN u ELSE f
           ny == [v \in RcvSocks |-> IF v = u THEN NoRcv ELSE IF v = l THEN u ELSE nx[v]]
           pw == [pv EXCEPT ![u] = l]
<1> DEFINE d == Append(c, u)
           n == Len(c)
<1>1. /\ c \in Seq(RcvSocks) /\ n \in Nat /\ \A i \in 1..n : c[i] \in RcvSocks /\ c[i] # u
      /\ \A i, j \in 1..n : c[i] = c[j] => i = j
      /\ NoRcv \notin RcvSocks
  BY <1>0 DEF Linked, Among, R!Given
<1>2. /\ d \in Seq(RcvSocks) /\ Len(d) = n + 1 /\ d[n + 1] = u
      /\ \A i \in 1..n : d[i] = c[i]
  BY <1>1
<1>3. \A i, j \in 1..Len(d) : d[i] = d[j] => i = j
  <2> HIDE DEF d, n
  <2> QED
    BY <1>1, <1>2
<1>4. /\ f = Nth(c, 1) /\ l = Nth(c, n)
      /\ nx \in [RcvSocks -> RcvSocks \cup {NoRcv}] /\ pv \in [RcvSocks -> RcvSocks \cup {NoRcv}]
      /\ \A i \in 1..n : nx[c[i]] = Nth(c, i + 1) /\ pv[c[i]] = Nth(c, i - 1)
      /\ o \in [RcvSocks -> BOOLEAN] /\ \A i \in 2..n : o[c[i]] => o[c[i - 1]]
  BY <1>0 DEF Linked, ByAge
<1>5. f \in RcvSocks \cup {NoRcv} /\ l \in RcvSocks \cup {NoRcv}
      /\ (n = 0 => f = NoRcv /\ l = NoRcv) /\ (n > 0 => f = c[1] /\ l = c[n])
  <2> HIDE DEF n
  <2> QED
    BY <1>1, <1>4 DEF Nth, n
<1> HIDE DEF d
<1>6. g = Nth(d, 1) /\ u = Nth(d, Len(d))
  BY <1>1, <1>2, <1>5 DEF Nth
<1>7. ny \in [RcvSocks -> RcvSocks \cup {NoRcv}] /\ pw \in [RcvSocks -> RcvSocks \cup {NoRcv}]
      /\ p \in [RcvSocks -> BOOLEAN]
  BY <1>4, <1>5
<1>8. ASSUME NEW i \in 1..(n + 1) PROVE ny[d[i]] = Nth(d, i + 1) /\ pw[d[i]] = Nth(d, i - 1)
  <2>1. CASE i = n + 1
    <3>1. ny[u] = NoRcv /\ pw[u] = l
      BY <1>4
    <3>2. Nth(d, (n + 1) + 1) = NoRcv /\ Nth(d, (n + 1) - 1) = l
      BY <1>1, <1>2, <1>5 DEF Nth
    <3> QED
      BY <1>2, <2>1, <3>1, <3>2
  <2>2. CASE i = n /\ n > 0
    <3>1. ny[c[n]] = u /\ pw[c[n]] = Nth(c, n - 1)
      BY <1>1, <1>4, <1>5, <2>2
    <3>2. Nth(d, n + 1) = u
      BY <1>1, <1>2 DEF Nth
    <3>3. Nth(d, n - 1) = Nth(c, n - 1)
      <4>1. CASE n = 1
        BY <4>1 DEF Nth
      <4>2. CASE n > 1
        <5>1. n - 1 \in 1..n /\ n - 1 \in 1..(n + 1)
          BY <1>1, <4>2
        <5> QED
          BY <1>2, <5>1, Zenon DEF Nth, n
      <4> QED
        BY <1>1, <2>2, <4>1, <4>2
    <3> QED
      BY <1>1, <1>2, <2>2, <3>1, <3>2, <3>3
  <2>3. CASE i \in 1..(n - 1)
    <3>1. c[i] # c[n] /\ i \in 1..n /\ n > 0
      BY <1>1, <2>3
    <3>2. ny[c[i]] = Nth(c, i + 1) /\ pw[c[i]] = Nth(c, i - 1)
      BY <1>1, <1>4, <1>5, <3>1
    <3>3. Nth(d, i + 1) = Nth(c, i + 1)
      <4>1. i + 1 \in 1..n /\ i + 1 \in 1..(n + 1)
        BY <1>1, <2>3
      <4> QED
        BY <1>2, <4>1, Zenon DEF Nth, n
    <3>4. Nth(d, i - 1) = Nth(c, i - 1)
      <4>1. CASE i = 1
        BY <4>1 DEF Nth
      <4>2. CASE i # 1
        <5>1. i - 1 \in 1..n /\ i - 1 \in 1..(n + 1)
          BY <1>1, <2>3, <4>2
        <5> QED
          BY <1>2, <5>1, Zenon DEF Nth, n
      <4> QED
        BY <4>1, <4>2
    <3> QED
      BY <1>2, <3>1, <3>2, <3>3, <3>4
  <2> QED
    BY <1>1, <2>1, <2>2, <2>3
<1>9. ASSUME NEW i \in 2..(n + 1), p[d[i]] PROVE p[d[i - 1]]
  <2>1. i # n + 1
    BY <1>2, <1>4, <1>9
  <2>2. i \in 2..n /\ i - 1 \in 1..n
    BY <1>1, <2>1
  <2>3. o[c[i]]
    BY <1>1, <1>2, <1>4, <1>9, <2>2
  <2> QED
    BY <1>1, <1>2, <1>4, <2>2, <2>3
<1>10. Among(d) = Among(c) \cup {u}
  <2>1. ASSUME NEW i \in 1..(n + 1) PROVE d[i] \in Among(c) \cup {u}
    <3>1. i \in 1..n \/ i = n + 1
      BY <1>1
    <3> QED
      BY <1>2, <3>1, Zenon DEF Among, n
  <2>2. ASSUME NEW i \in 1..n PROVE c[i] \in Among(d)
    <3>1. i \in 1..(n + 1)
      BY <1>1
    <3> QED
      BY <1>2, <3>1, Zenon DEF Among
  <2>3. u \in Among(d)
    <3>1. n + 1 \in 1..(n + 1)
      BY <1>1
    <3> QED
      BY <1>2, <3>1, Zenon DEF Among
  <2> QED
    BY <1>2, <2>1, <2>2, <2>3, Zenon DEF Among, n
<1>11. Linked(d, g, u, ny, pw)
  BY <1>2, <1>3, <1>6, <1>7, <1>8 DEF Linked
<1>12. ByAge(d, p)
  BY <1>2, <1>7, <1>9 DEF ByAge
<1> QED
  BY <1>0, <1>10, <1>11, <1>12, Zenon DEF IsList, Joined

Parted(S, o, f, l, nx, pv, u) ==
    IsList(S \ {u}, o, IF pv[u] = NoRcv THEN nx[u] ELSE f, IF nx[u] = NoRcv THEN pv[u] ELSE l,
           [v \in RcvSocks |-> IF v = u THEN NoRcv ELSE IF v = pv[u] THEN nx[u] ELSE nx[v]],
           [v \in RcvSocks |-> IF v = u THEN NoRcv ELSE IF v = nx[u] THEN pv[u] ELSE pv[v]])

LEMMA OneLeaves ==
    ASSUME R!Given, NEW S, NEW o, NEW f, NEW l, NEW nx, NEW pv, IsList(S, o, f, l, nx, pv),
           NEW u \in S
    PROVE  Parted(S, o, f, l, nx, pv, u)
<1> DEFINE g == IF pv[u] = NoRcv THEN nx[u] ELSE f
           b == IF nx[u] = NoRcv THEN pv[u] ELSE l
           ny == [v \in RcvSocks |-> IF v = u THEN NoRcv ELSE IF v = pv[u] THEN nx[u] ELSE nx[v]]
           pw == [v \in RcvSocks |-> IF v = u THEN NoRcv ELSE IF v = nx[u] THEN pv[u] ELSE pv[v]]
<1>0. PICK c : Linked(c, f, l, nx, pv) /\ ByAge(c, o) /\ Among(c) = S
  BY DEF IsList
<1> DEFINE n == Len(c)
<1>1. /\ c \in Seq(RcvSocks) /\ n \in Nat /\ \A i \in 1..n : c[i] \in RcvSocks
      /\ \A i, j \in 1..n : c[i] = c[j] => i = j
      /\ NoRcv \notin RcvSocks
  BY <1>0 DEF Linked, R!Given
<1>2. /\ f = Nth(c, 1) /\ l = Nth(c, n)
      /\ nx \in [RcvSocks -> RcvSocks \cup {NoRcv}] /\ pv \in [RcvSocks -> RcvSocks \cup {NoRcv}]
      /\ \A i \in 1..n : nx[c[i]] = Nth(c, i + 1) /\ pv[c[i]] = Nth(c, i - 1)
      /\ o \in [RcvSocks -> BOOLEAN] /\ \A i \in 2..n : o[c[i]] => o[c[i - 1]]
  BY <1>0 DEF Linked, ByAge
<1>3. PICK k \in 1..n : c[k] = u
  BY <1>0, Zenon DEF Among
<1> DEFINE d == [i \in 1..(n - 1) |-> IF i < k THEN c[i] ELSE c[i + 1]]
<1>4. n \in Nat /\ n > 0 /\ k \in Nat /\ k >= 1 /\ k <= n /\ n - 1 \in Nat
  <2> HIDE DEF n
  <2> QED
    BY <1>1, <1>3
<1>5. ASSUME NEW i \in 1..(n - 1)
      PROVE  /\ i \in 1..n /\ i + 1 \in 1..n
             /\ d[i] = IF i < k THEN c[i] ELSE c[i + 1]
             /\ d[i] \in RcvSocks /\ d[i] # u
  <2>1. i \in 1..n /\ i + 1 \in 1..n
    <3> HIDE DEF n
    <3> QED
      BY <1>4
  <2>2. d[i] = IF i < k THEN c[i] ELSE c[i + 1]
    OBVIOUS
  <2>3. CASE i < k
    <3>1. i # k
      BY <1>4, <2>3
    <3> QED
      BY <1>1, <1>3, <2>1, <2>2, <2>3, <3>1, Zenon
  <2>4. CASE ~(i < k)
    <3>1. i + 1 # k
      BY <1>4, <2>4
    <3> QED
      BY <1>1, <1>3, <2>1, <2>2, <2>4, <3>1, Zenon
  <2> QED
    BY <2>1, <2>2, <2>3, <2>4, Zenon
<1>6. d \in Seq(RcvSocks) /\ Len(d) = n - 1
  <2>1. d \in [1..(n - 1) -> RcvSocks]
    <3> SUFFICES ASSUME NEW i \in 1..(n - 1)
                 PROVE  (IF i < k THEN c[i] ELSE c[i + 1]) \in RcvSocks
      OBVIOUS
    <3> QED
      BY <1>5
  <2> HIDE DEF d, n
  <2> QED
    BY <1>4, <2>1
<1> HIDE DEF d, n
<1>7. ASSUME NEW i \in 1..(n - 1), NEW j \in 1..(n - 1), d[i] = d[j] PROVE i = j
  <2>1. (IF i < k THEN i ELSE i + 1) \in 1..n /\ (IF j < k THEN j ELSE j + 1) \in 1..n
    BY <1>4
  <2>2. (IF i < k THEN i ELSE i + 1) = (IF j < k THEN j ELSE j + 1)
    <3>1. d[i] = c[IF i < k THEN i ELSE i + 1] /\ d[j] = c[IF j < k THEN j ELSE j + 1]
      BY <1>5
    <3> QED
      BY <1>1, <1>7, <2>1, <3>1
  <2> QED
    BY <1>4, <2>2
<1>8. ASSUME NEW i \in 0..n PROVE Nth(d, i) = IF i < k THEN Nth(c, i) ELSE Nth(c, i + 1)
  <2>1. CASE i = 0
    BY <1>4, <1>6, <2>1 DEF Nth, n
  <2>2. CASE i = n
    BY <1>4, <1>6, <2>2 DEF Nth, n
  <2>3. CASE i \in 1..(n - 1)
    <3>1. i \in 1..Len(d) /\ i \in 1..Len(c) /\ i + 1 \in 1..Len(c)
      BY <1>4, <1>6, <2>3 DEF n
    <3> QED
      BY <1>5, <2>3, <3>1 DEF Nth
  <2> QED
    BY <1>4, <2>1, <2>2, <2>3
<1>9. ASSUME NEW i \in 1..n PROVE Nth(c, i) = c[i] /\ c[i] # NoRcv
  BY <1>1 DEF Nth, n
<1>10. ASSUME NEW i \in 1..n, NEW j \in 0..(n + 1), c[i] = Nth(c, j) PROVE i = j
  <2>1. CASE j \in 1..n
    BY <1>1, <1>9, <1>10, <2>1
  <2>2. CASE j \notin 1..n
    BY <1>9, <1>10, <2>2, Zenon DEF Nth, n
  <2> QED
    BY <2>1, <2>2
<1>11. nx[u] = Nth(c, k + 1) /\ pv[u] = Nth(c, k - 1) /\ u \in RcvSocks
  BY <1>1, <1>2, <1>3
<1>12. Nth(c, 0) = NoRcv /\ Nth(c, n + 1) = NoRcv
  BY <1>4 DEF Nth, n
<1>13. g = Nth(d, 1)
  <2>1. CASE k = 1
    <3>1. Nth(d, 1) = Nth(c, 2)
      BY <1>4, <1>8, <2>1
    <3> QED
      BY <1>11, <1>12, <2>1, <3>1
  <2>2. CASE k > 1
    <3>1. Nth(d, 1) = Nth(c, 1) /\ k - 1 \in 1..n
      BY <1>4, <1>8, <2>2
    <3> QED
      BY <1>2, <1>9, <1>11, <3>1
  <2> QED
    BY <1>4, <2>1, <2>2
<1>14. b = Nth(d, n - 1)
  <2>0. n - 1 \in 0..n
    BY <1>4
  <2>1. CASE k = n
    <3>1. Nth(d, n - 1) = Nth(c, n - 1)
      BY <1>4, <1>8, <2>0, <2>1
    <3> QED
      BY <1>11, <1>12, <2>1, <3>1
  <2>2. CASE k < n
    <3>1. Nth(d, n - 1) = Nth(c, n) /\ k + 1 \in 1..n
      <4>1. ~(n - 1 < k) /\ (n - 1) + 1 = n /\ k + 1 \in 1..n
        BY <1>4, <2>2
      <4> QED
        BY <1>8, <2>0, <4>1
    <3> QED
      BY <1>2, <1>9, <1>11, <3>1
  <2> QED
    BY <1>4, <2>1, <2>2
<1>15. ny \in [RcvSocks -> RcvSocks \cup {NoRcv}] /\ pw \in [RcvSocks -> RcvSocks \cup {NoRcv}]
  BY <1>2, <1>11
<1>16. ASSUME NEW i \in 1..(n - 1) PROVE ny[d[i]] = Nth(d, i + 1) /\ pw[d[i]] = Nth(d, i - 1)
  <2> DEFINE j == IF i < k THEN i ELSE i + 1
  <2>1. /\ j \in 1..n /\ d[i] = c[j] /\ c[j] # u /\ c[j] \in RcvSocks /\ j # k
        /\ k - 1 \in 0..(n + 1) /\ k + 1 \in 0..(n + 1)
    <3>1. j \in 1..n /\ j # k /\ k - 1 \in 0..(n + 1) /\ k + 1 \in 0..(n + 1)
      BY <1>4
    <3> QED
      BY <1>5, <3>1
  <2>2. /\ ny[c[j]] = IF c[j] = Nth(c, k - 1) THEN Nth(c, k + 1) ELSE Nth(c, j + 1)
        /\ pw[c[j]] = IF c[j] = Nth(c, k + 1) THEN Nth(c, k - 1) ELSE Nth(c, j - 1)
    BY <1>2, <1>11, <2>1
  <2>3. /\ i + 1 \in 0..n /\ i - 1 \in 0..n
        /\ j = k - 1 => i + 1 = k
        /\ j = k + 1 => i = k
    BY <1>4
  <2>4. ny[d[i]] = Nth(d, i + 1)
    <3>1. CASE j = k - 1
      <4>1. c[j] = Nth(c, k - 1) /\ ~(i + 1 < k) /\ (i + 1) + 1 = k + 1
        BY <1>4, <1>9, <2>1, <2>3, <3>1
      <4> QED
        BY <1>8, <2>1, <2>2, <2>3, <4>1
    <3>2. CASE j # k - 1
      <4>1. c[j] # Nth(c, k - 1)
        BY <1>10, <2>1, <3>2
      <4>2. (IF i + 1 < k THEN i + 1 ELSE (i + 1) + 1) = j + 1
        BY <1>4, <3>2
      <4> QED
        BY <1>8, <2>1, <2>2, <2>3, <4>1, <4>2
    <3> QED
      BY <3>1, <3>2
  <2>5. pw[d[i]] = Nth(d, i - 1)
    <3>1. CASE j = k + 1
      <4>1. c[j] = Nth(c, k + 1) /\ i - 1 < k /\ i - 1 = k - 1
        BY <1>4, <1>9, <2>1, <2>3, <3>1
      <4> QED
        BY <1>8, <2>1, <2>2, <2>3, <4>1
    <3>2. CASE j # k + 1
      <4>1. c[j] # Nth(c, k + 1)
        BY <1>10, <2>1, <3>2
      <4>2. (IF i - 1 < k THEN i - 1 ELSE (i - 1) + 1) = j - 1
        BY <1>4, <3>2
      <4> QED
        BY <1>8, <2>1, <2>2, <2>3, <4>1, <4>2
    <3> QED
      BY <3>1, <3>2
  <2> QED
    BY <2>4, <2>5
<1>17. ASSUME NEW i \in 2..(n - 1), o[d[i]] PROVE o[d[i - 1]]
  <2>1. i \in 1..(n - 1) /\ i - 1 \in 1..(n - 1)
    BY <1>4
  <2>2. CASE i < k
    <3>1. i \in 2..n /\ i - 1 < k
      BY <1>4, <2>2
    <3> QED
      BY <1>2, <1>5, <1>17, <2>1, <2>2, <3>1
  <2>3. CASE i = k
    <3>1. i \in 2..n /\ i + 1 \in 2..n /\ (i + 1) - 1 = i /\ i - 1 < k /\ ~(i < k)
      BY <1>4, <2>3
    <3>2. o[c[i + 1]] /\ d[i - 1] = c[i - 1]
      BY <1>5, <1>17, <2>1, <3>1
    <3> QED
      BY <1>2, <3>1, <3>2
  <2>4. CASE i > k
    <3>1. i + 1 \in 2..n /\ (i + 1) - 1 = i /\ (i - 1) + 1 = i /\ ~(i - 1 < k) /\ ~(i < k)
      BY <1>4, <2>4
    <3>2. o[c[i + 1]] /\ d[i - 1] = c[i]
      BY <1>5, <1>17, <2>1, <3>1
    <3> QED
      BY <1>2, <3>1, <3>2
  <2> QED
    BY <1>4, <2>2, <2>3, <2>4
<1>18. Among(d) = Among(c) \ {u}
  <2>1. Among(d) \subseteq Among(c) \ {u}
    <3>1. ASSUME NEW i \in 1..(n - 1) PROVE d[i] \in Among(c) /\ d[i] # u
      <4>1. d[i] = c[i] \/ d[i] = c[i + 1]
        BY <1>5
      <4> QED
        BY <1>5, <4>1, Zenon DEF Among, n
    <3> QED
      BY <1>6, <3>1, Zenon DEF Among
  <2>2. ASSUME NEW i \in 1..n, c[i] # u PROVE c[i] \in Among(d)
    <3>1. i # k
      BY <1>3, <2>2
    <3>2. CASE i < k
      <4>1. i \in 1..(n - 1)
        BY <1>4, <3>2
      <4>2. d[i] = c[i]
        BY <1>5, <3>2, <4>1
      <4> QED
        BY <1>6, <4>1, <4>2, Zenon DEF Among
    <3>3. CASE i > k
      <4>1. i - 1 \in 1..(n - 1) /\ ~(i - 1 < k) /\ (i - 1) + 1 = i
        BY <1>4, <3>3
      <4>2. d[i - 1] = c[i]
        BY <1>5, <4>1
      <4> QED
        BY <1>6, <4>1, <4>2, Zenon DEF Among
    <3> QED
      BY <1>4, <3>1, <3>2, <3>3
  <2> QED
    BY <2>1, <2>2, Zenon DEF Among, n
<1>19. Linked(d, g, b, ny, pw)
  <2>1. b = Nth(d, Len(d)) /\ \A i, j \in 1..Len(d) : d[i] = d[j] => i = j
    BY <1>6, <1>7, <1>14, Zenon
  <2>2. \A i \in 1..Len(d) : ny[d[i]] = Nth(d, i + 1) /\ pw[d[i]] = Nth(d, i - 1)
    BY <1>6, <1>16, Zenon
  <2> QED
    BY <1>6, <1>13, <1>15, <2>1, <2>2, Zenon DEF Linked
<1>20. ByAge(d, o)
  BY <1>2, <1>6, <1>17 DEF ByAge
<1> QED
  BY <1>0, <1>18, <1>19, <1>20, Zenon DEF IsList, Parted

\* update is to leave and to join at the end.
Moved(S, o, f, l, nx, pv, u) ==
    IsList(S, [o EXCEPT ![u] = FALSE], IF pv[u] = NoRcv THEN nx[u] ELSE f, u,
           [v \in RcvSocks |-> IF v = u THEN NoRcv ELSE IF v = l THEN u
                               ELSE IF v = pv[u] THEN nx[u] ELSE nx[v]],
           [v \in RcvSocks |-> IF v = u THEN l ELSE IF v = nx[u] THEN pv[u] ELSE pv[v]])

LEMMA OneMoves ==
    ASSUME R!Given, NEW S, NEW o, NEW f, NEW l, NEW nx, NEW pv, IsList(S, o, f, l, nx, pv),
           NEW u \in S, nx[u] # NoRcv
    PROVE  Moved(S, o, f, l, nx, pv, u)
<1> DEFINE g == IF pv[u] = NoRcv THEN nx[u] ELSE f
           ny == [v \in RcvSocks |-> IF v = u THEN NoRcv ELSE IF v = l THEN u
                                     ELSE IF v = pv[u] THEN nx[u] ELSE nx[v]]
           pw == [v \in RcvSocks |-> IF v = u THEN l ELSE IF v = nx[u] THEN pv[u] ELSE pv[v]]
           ry == [v \in RcvSocks |-> IF v = u THEN NoRcv ELSE IF v = pv[u] THEN nx[u] ELSE nx[v]]
           rw == [v \in RcvSocks |-> IF v = u THEN NoRcv ELSE IF v = nx[u] THEN pv[u] ELSE pv[v]]
           r == IF nx[u] = NoRcv THEN pv[u] ELSE l
<1>1. IsList(S \ {u}, o, g, r, ry, rw)
  <2> HIDE DEF g, ny, pw, ry, rw, r
  <2>1. Parted(S, o, f, l, nx, pv, u)
    BY OneLeaves, Zenon
  <2> QED
    BY <2>1, Zenon DEF Parted, g, r, ry, rw
<1>2. r = l
  OBVIOUS
<1>3. u \in RcvSocks /\ g # NoRcv
  <2>1. PICK c : Linked(c, f, l, nx, pv) /\ Among(c) = S
    BY DEF IsList
  <2>2. PICK k \in 1..Len(c) : c[k] = u
    BY <2>1, Zenon DEF Among
  <2>3. 1 \in 1..Len(c) /\ c[1] \in RcvSocks /\ c[k] \in RcvSocks
    BY <2>1, <2>2 DEF Linked
  <2>4. f \in RcvSocks
    BY <2>1, <2>3, Zenon DEF Linked, Nth
  <2> QED
    BY <2>2, <2>3, <2>4 DEF R!Given
<1>4. /\ g = IF g = NoRcv THEN u ELSE g
      /\ ny = [v \in RcvSocks |-> IF v = u THEN NoRcv ELSE IF v = r THEN u ELSE ry[v]]
      /\ pw = [rw EXCEPT ![u] = r]
  BY <1>2, <1>3
<1> DEFINE T == S \ {u}
<1>5. T \cup {u} = S
  OBVIOUS
<1>6. u \notin T
  OBVIOUS
<1>7. IsList(T, o, g, r, ry, rw)
  BY <1>1
<1>8. u \in RcvSocks
  BY <1>3
<1> HIDE DEF ry, rw, r, T
<1>9. Joined(T, o, g, r, ry, rw, u)
  BY <1>6, <1>7, <1>8, LastJoins, Zenon
<1> QED
  BY <1>4, <1>5, <1>9, Zenon DEF Joined, Moved

-----------------------------------------------------------------------------
LEMMA SameSize == ASSUME NEW S PROVE R!Cardinality(S) = Cardinality(S)
  BY Zenon DEF R!Cardinality, Cardinality

IsWalk(w) ==
    w = [i \in 1..(R!Cardinality(RcvSocks) + 1) |->
           IF i = 1 THEN rcvFirst ELSE IF w[i - 1] = NoRcv THEN NoRcv ELSE rcvNext[w[i - 1]]]

\* The walk from the first node leads through the list and stops.
LEMMA OrderIs ==
    ASSUME R!Given, NEW c, Linked(c, rcvFirst, rcvLast, rcvNext, rcvPrev)
    PROVE  R!Order = c
<1> DEFINE n == Len(c)
           N == R!Cardinality(RcvSocks) + 1
           T == 1..N
           h == [i \in T |-> Nth(c, i)]
<1>1. /\ c \in Seq(RcvSocks) /\ n \in Nat /\ \A i \in 1..n : c[i] \in RcvSocks
      /\ \A i, j \in 1..n : c[i] = c[j] => i = j
      /\ NoRcv \notin RcvSocks
      /\ c = [i \in 1..n |-> c[i]]
  BY DEF Linked, R!Given
<1>0. IsFiniteSet(RcvSocks)
  BY Zenon DEF R!Given, R!IsFiniteSet, IsFiniteSet
<1>2. rcvFirst = Nth(c, 1) /\ \A i \in 1..n : rcvNext[c[i]] = Nth(c, i + 1)
  BY DEF Linked
<1>3. N \in Nat /\ n < N /\ Cardinality(1..n) = n
  <2>1. Cardinality(RcvSocks) \in Nat /\ R!Cardinality(RcvSocks) = Cardinality(RcvSocks)
    BY <1>0, FS_CardinalityType, SameSize, Zenon
  <2>2. c \in Injection(1..n, RcvSocks)
    BY <1>1 DEF Injection, IsInjective
  <2>3. Cardinality(1..n) <= Cardinality(RcvSocks)
    BY <1>0, <2>2, FS_Injection, Zenon
  <2>4. Cardinality(1..n) = n
    <3>1. 1 \in Int /\ n \in Int /\ (IF 1 > n THEN 0 ELSE n - 1 + 1) = n
      BY <1>1
    <3> QED
      BY <3>1, FS_Interval
  <2> HIDE DEF n
  <2> QED
    BY <1>1, <2>1, <2>3, <2>4
<1> HIDE DEF n
<1>4. ASSUME NEW i \in Nat, i >= 1
      PROVE  Nth(c, i + 1) = IF Nth(c, i) = NoRcv THEN NoRcv ELSE rcvNext[Nth(c, i)]
  <2>1. CASE i \in 1..n
    <3>1. Nth(c, i) = c[i] /\ c[i] # NoRcv
      BY <1>1, <2>1, Zenon DEF Nth, n
    <3> QED
      BY <1>2, <2>1, <3>1
  <2>2. CASE i \notin 1..n
    <3>1. i + 1 \notin 1..n
      BY <1>1, <1>4, <2>2
    <3> QED
      BY <2>2, <3>1, Zenon DEF Nth, n
  <2> QED
    BY <2>1, <2>2
<1>5. IsWalk(h)
  <2>1. ASSUME NEW i \in T
        PROVE  h[i] = IF i = 1 THEN rcvFirst ELSE IF h[i - 1] = NoRcv THEN NoRcv ELSE rcvNext[h[i - 1]]
    <3>1. CASE i = 1
      BY <1>2, <3>1
    <3>2. CASE i # 1
      <4>1. i - 1 \in T /\ i - 1 \in Nat /\ i - 1 >= 1 /\ (i - 1) + 1 = i
        BY <1>3, <3>2
      <4> QED
        BY <1>4, <3>2, <4>1
    <3> QED
      BY <3>1, <3>2
  <2>2. h = [i \in T |-> h[i]]
    OBVIOUS
  <2> HIDE DEF h
  <2>3. h = [i \in T |-> IF i = 1 THEN rcvFirst ELSE IF h[i - 1] = NoRcv THEN NoRcv ELSE rcvNext[h[i - 1]]]
    BY <2>1, <2>2
  <2> QED
    BY <2>3, Zenon DEF IsWalk, T, N
<1> DEFINE w == R!Walk
<1>6. IsWalk(w)
  <2>1. w = CHOOSE x : IsWalk(x)
    BY Zenon DEF R!Walk, IsWalk
  <2> QED
    BY <1>5, <2>1, Zenon
<1> HIDE DEF h, w
<1>7. /\ DOMAIN w = T
      /\ \A i \in T : w[i] = IF i = 1 THEN rcvFirst ELSE IF w[i - 1] = NoRcv THEN NoRcv ELSE rcvNext[w[i - 1]]
  <2> DEFINE f == [i \in T |-> IF i = 1 THEN rcvFirst
                               ELSE IF w[i - 1] = NoRcv THEN NoRcv ELSE rcvNext[w[i - 1]]]
  <2>1. w = f
    BY <1>6, Zenon DEF IsWalk
  <2>2. /\ DOMAIN f = T
        /\ \A i \in T : f[i] = IF i = 1 THEN rcvFirst ELSE IF w[i - 1] = NoRcv THEN NoRcv ELSE rcvNext[w[i - 1]]
    OBVIOUS
  <2> HIDE DEF f
  <2> QED
    BY <2>1, <2>2
<1>8. ASSUME NEW i \in T PROVE w[i] = Nth(c, i)
  <2> DEFINE S == {m \in Nat : m + 1 \in T => w[m + 1] = Nth(c, m + 1)}
  <2>1. 0 \in S
    BY <1>2, <1>3, <1>7
  <2>2. ASSUME NEW m \in Nat, m \in S PROVE m + 1 \in S
    <3>1. ASSUME (m + 1) + 1 \in T PROVE w[(m + 1) + 1] = Nth(c, (m + 1) + 1)
      <4>1. /\ m + 1 \in T /\ (m + 1) + 1 # 1 /\ ((m + 1) + 1) - 1 = m + 1
            /\ m + 1 \in Nat /\ m + 1 >= 1
        BY <1>3, <3>1
      <4>2. w[m + 1] = Nth(c, m + 1)
        BY <2>2, <4>1
      <4>3. w[(m + 1) + 1] = IF w[m + 1] = NoRcv THEN NoRcv ELSE rcvNext[w[m + 1]]
        BY <1>7, <3>1, <4>1
      <4> QED
        BY <1>4, <4>1, <4>2, <4>3
    <3> QED
      BY <3>1
  <2> HIDE DEF S
  <2>3. Nat \subseteq S
    BY <2>1, <2>2, CountUp
  <2>4. i - 1 \in Nat /\ (i - 1) + 1 = i
    BY <1>3
  <2>5. i - 1 \in S
    BY <2>3, <2>4
  <2> QED
    BY <2>4, <2>5 DEF S
<1>9. {j \in DOMAIN w : w[j] # NoRcv} = 1..n
  <2>1. ASSUME NEW j \in 1..n PROVE j \in T /\ w[j] = c[j] /\ w[j] # NoRcv
    <3>1. j \in T
      BY <1>1, <1>3
    <3> QED
      BY <1>1, <1>8, <3>1, Zenon DEF Nth, n
  <2>2. ASSUME NEW j \in T, w[j] # NoRcv PROVE j \in 1..n
    BY <1>8, <2>2, Zenon DEF Nth, n
  <2> QED
    BY <1>7, <2>1, <2>2
<1>10. R!Order = [i \in 1..n |-> w[i]]
  <2>1. R!Cardinality({j \in DOMAIN w : w[j] # NoRcv}) = n
    BY <1>3, <1>9, SameSize, Zenon
  <2> QED
    BY <2>1, Zenon DEF R!Order, w
<1>11. \A i \in 1..n : w[i] = c[i]
  <2>1. ASSUME NEW i \in 1..n PROVE w[i] = c[i]
    <3>1. i \in T
      BY <1>1, <1>3
    <3> QED
      BY <1>8, <3>1, Zenon DEF Nth, n
  <2> QED
    BY <2>1
<1> QED
  BY <1>1, <1>10, <1>11

-----------------------------------------------------------------------------
NodesOK == IsList(hash, rcvOld, rcvFirst, rcvLast, rcvNext, rcvPrev)

States == {"init", "connecting", "open", "broken", "closed", "freed"}

IsFresh(u) == \E i \in 1..Len(fresh) : fresh[i] = u

\* A socket is on the list, or among the new ones, once; from connect until the worker
\* takes it off, and so not when it is freed.
PlacesOK ==
    /\ onList \in [RcvSocks -> BOOLEAN] /\ hash \subseteq RcvSocks /\ fresh \in Seq(RcvSocks)
    /\ rcvSt \in [RcvSocks -> States]
    /\ \A i, j \in 1..Len(fresh) : fresh[i] = fresh[j] => i = j
    /\ \A u \in RcvSocks : /\ onList[u] <=> (u \in hash \/ IsFresh(u))
                           /\ ~(u \in hash /\ IsFresh(u))
                           /\ onList[u] => rcvSt[u] \in {"open", "broken", "closed"}

\* Only for a socket that connects are packets kept; the one the worker has looked up
\* may leave before its packet is stored, and then none was left.
StoresOK ==
    /\ stored \in [RcvSocks -> Nat] /\ (rcvPc = "store" => rcvSock \in RcvSocks)
    /\ rid \subseteq RcvSocks
    /\ \A u \in RcvSocks : /\ u \in rid => rcvSt[u] = "connecting"
                           /\ u \notin rid => stored[u] <= 1
                           /\ u \notin rid /\ rcvSock = u => stored[u] = 0

RcvInv == NodesOK /\ PlacesOK /\ StoresOK

LEMMA RcvBegins == ASSUME R!Given, R!Init PROVE RcvInv
<1>1. NodesOK
  <2>1. Linked(<< >>, NoRcv, NoRcv, rcvNext, rcvPrev)
    BY DEF R!Init, Linked, Nth
  <2>2. ByAge(<< >>, rcvOld) /\ Among(<< >>) = hash
    BY DEF R!Init, ByAge, Among
  <2> QED
    BY <2>1, <2>2, Zenon DEF NodesOK, IsList, R!Init
<1>2. PlacesOK
  BY DEF R!Init, PlacesOK, IsFresh, States
<1>3. StoresOK
  BY DEF R!Init, StoresOK, R!Given
<1> QED
  BY <1>1, <1>2, <1>3 DEF RcvInv

\* Of a list's nodes: which is the first, and what is known of the others.
LEMMA NodesAre ==
    ASSUME R!Given, NEW S, NEW o, NEW f, NEW l, NEW nx, NEW pv, IsList(S, o, f, l, nx, pv)
    PROVE  /\ S \subseteq RcvSocks /\ f \in S \cup {NoRcv} /\ (f = NoRcv => S = {})
           /\ o \in [RcvSocks -> BOOLEAN]
           /\ \A u \in S : nx[u] = NoRcv => IsList(S, [o EXCEPT ![u] = FALSE], f, l, nx, pv)
           /\ \A u \in S : (pv[u] # NoRcv => o[pv[u]])
                             => IsList(S, [o EXCEPT ![u] = TRUE], f, l, nx, pv)
<1>1. PICK c : Linked(c, f, l, nx, pv) /\ ByAge(c, o) /\ Among(c) = S
  BY DEF IsList
<1> DEFINE n == Len(c)
<1>2. /\ c \in Seq(RcvSocks) /\ n \in Nat /\ \A i \in 1..n : c[i] \in RcvSocks
      /\ \A i, j \in 1..n : c[i] = c[j] => i = j
      /\ NoRcv \notin RcvSocks /\ f = Nth(c, 1)
      /\ \A i \in 1..n : nx[c[i]] = Nth(c, i + 1) /\ pv[c[i]] = Nth(c, i - 1)
      /\ o \in [RcvSocks -> BOOLEAN] /\ \A i \in 2..n : o[c[i]] => o[c[i - 1]]
  BY <1>1 DEF Linked, R!Given, ByAge
<1>3. S = {c[i] : i \in 1..n}
  BY <1>1 DEF Among
<1> HIDE DEF n
<1>4. S \subseteq RcvSocks
  BY <1>2, <1>3
<1>5. f \in S \cup {NoRcv} /\ (f = NoRcv => S = {})
  <2>1. CASE n = 0
    BY <1>2, <1>3, <2>1 DEF Nth, n
  <2>2. CASE n # 0
    <3>1. 1 \in 1..n
      BY <1>2, <2>2
    <3>2. f = c[1] /\ c[1] # NoRcv
      BY <1>2, <3>1, Zenon DEF Nth, n
    <3> QED
      BY <1>3, <3>1, <3>2, Zenon
  <2> QED
    BY <2>1, <2>2
<1>6. ASSUME NEW u \in S, nx[u] = NoRcv
      PROVE  IsList(S, [o EXCEPT ![u] = FALSE], f, l, nx, pv)
  <2>1. PICK k \in 1..n : c[k] = u
    BY <1>3
  <2>2. k = n
    <3>1. CASE k + 1 \in 1..n
      <4>1. Nth(c, k + 1) = c[k + 1]
        BY <3>1, Zenon DEF Nth, n
      <4> QED
        BY <1>2, <1>6, <2>1, <3>1, <4>1
    <3>2. CASE k + 1 \notin 1..n
      BY <1>2, <3>2
    <3> QED
      BY <3>1, <3>2
  <2> DEFINE p == [o EXCEPT ![u] = FALSE]
  <2>3. p \in [RcvSocks -> BOOLEAN]
    BY <1>2
  <2>4. ASSUME NEW i \in 2..n, p[c[i]] PROVE p[c[i - 1]]
    <3>1. i \in 1..n /\ i - 1 \in 1..n /\ i - 1 # n
      BY <1>2
    <3>2. c[i - 1] # u /\ c[i] \in RcvSocks /\ c[i - 1] \in RcvSocks
      BY <1>2, <2>1, <2>2, <3>1
    <3>3. o[c[i]]
      BY <1>2, <2>4, <3>2
    <3> QED
      BY <1>2, <3>2, <3>3
  <2>5. ByAge(c, p)
    BY <2>3, <2>4 DEF ByAge, n
  <2> QED
    BY <1>1, <2>5, Zenon DEF IsList
<1>7. ASSUME NEW u \in S, pv[u] # NoRcv => o[pv[u]]
      PROVE  IsList(S, [o EXCEPT ![u] = TRUE], f, l, nx, pv)
  <2>1. PICK k \in 1..n : c[k] = u
    BY <1>3
  <2> DEFINE p == [o EXCEPT ![u] = TRUE]
  <2>2. p \in [RcvSocks -> BOOLEAN]
    BY <1>2
  <2>3. ASSUME NEW i \in 2..n, p[c[i]] PROVE p[c[i - 1]]
    <3>1. i \in 1..n /\ i - 1 \in 1..n /\ c[i] \in RcvSocks /\ c[i - 1] \in RcvSocks
      BY <1>2
    <3>2. o[c[i - 1]]
      <4>1. CASE c[i] = u
        <5>1. pv[u] = Nth(c, i - 1)
          BY <1>2, <3>1, <4>1
        <5>2. Nth(c, i - 1) = c[i - 1]
          BY <3>1, Zenon DEF Nth, n
        <5> QED
          BY <1>2, <1>7, <3>1, <5>1, <5>2
      <4>2. CASE c[i] # u
        BY <1>2, <2>3, <3>1, <4>2
      <4> QED
        BY <4>1, <4>2
    <3> QED
      BY <1>2, <3>1, <3>2
  <2>4. ByAge(c, p)
    BY <2>2, <2>3 DEF ByAge, n
  <2> QED
    BY <1>1, <2>4, Zenon DEF IsList
<1> QED
  BY <1>2, <1>4, <1>5, <1>6, <1>7

LEMMA ListIsSound ==
    ASSUME R!Given, NodesOK
    PROVE  R!ListIsWhole /\ R!OldestFirst /\ R!ToSet(R!Order) = hash
<1>1. PICK c : Linked(c, rcvFirst, rcvLast, rcvNext, rcvPrev) /\ ByAge(c, rcvOld) /\ Among(c) = hash
  BY DEF NodesOK, IsList
<1> DEFINE n == Len(c)
<1>2. R!Order = c
  BY <1>1, OrderIs
<1>3. /\ c \in Seq(RcvSocks) /\ n \in Nat /\ \A i \in 1..n : c[i] \in RcvSocks
      /\ \A i, j \in 1..n : c[i] = c[j] => i = j
      /\ NoRcv \notin RcvSocks /\ rcvFirst = Nth(c, 1) /\ rcvLast = Nth(c, n)
      /\ \A i \in 1..n : rcvPrev[c[i]] = Nth(c, i - 1)
      /\ \A i \in 2..n : rcvOld[c[i]] => rcvOld[c[i - 1]]
      /\ hash = {c[i] : i \in 1..n} /\ DOMAIN c = 1..n /\ c = [i \in 1..n |-> c[i]]
  BY <1>1 DEF Linked, R!Given, ByAge, Among
<1>4. R!ToSet(c) = hash
  BY <1>3 DEF R!ToSet
<1>5. n = R!Cardinality(hash)
  <2>1. c \in Bijection(1..n, hash)
    <3> HIDE DEF n
    <3>1. c \in [1..n -> hash]
      BY <1>3
    <3>2. \A v \in hash : \E i \in 1..n : c[i] = v
      BY <1>3
    <3> QED
      BY <1>3, <3>1, <3>2 DEF Bijection, Injection, Surjection, IsInjective
  <2>2. IsFiniteSet(1..n) /\ Cardinality(1..n) = n
    <3>1. 1 \in Int /\ n \in Int /\ (IF 1 > n THEN 0 ELSE n - 1 + 1) = n
      BY <1>3
    <3> QED
      BY <3>1, FS_Interval
  <2>3. Cardinality(1..n) = Cardinality(hash)
    <3>1. ExistsBijection(1..n, hash)
      BY <2>1, Zenon DEF ExistsBijection
    <3> QED
      BY <2>2, <3>1, FS_Bijection, Zenon
  <2> QED
    BY <2>2, <2>3, SameSize, Zenon
<1>6. rcvLast = IF c = << >> THEN NoRcv ELSE c[n]
  <2>1. CASE n = 0
    BY <1>3, <2>1 DEF Nth
  <2>2. CASE n # 0
    <3>1. n \in 1..n /\ c # << >>
      BY <1>3, <2>2
    <3> QED
      BY <1>3, <3>1, Zenon DEF Nth
  <2> QED
    BY <2>1, <2>2
<1>7. ASSUME NEW i \in 2..n PROVE rcvPrev[c[i]] = c[i - 1]
  <2>1. i \in 1..n /\ i - 1 \in 1..n
    BY <1>3
  <2> QED
    BY <1>3, <2>1, Zenon DEF Nth
<1>8. rcvFirst # NoRcv => rcvPrev[rcvFirst] = NoRcv
  <2>1. ASSUME rcvFirst # NoRcv PROVE rcvPrev[rcvFirst] = NoRcv
    <3>1. 1 \in 1..n /\ rcvFirst = c[1]
      BY <1>3, <2>1, Zenon DEF Nth
    <3>2. rcvPrev[c[1]] = Nth(c, 0) /\ Nth(c, 0) = NoRcv
      <4>1. 1 - 1 = 0 /\ 0 \notin 1..n
        OBVIOUS
      <4>2. rcvPrev[c[1]] = Nth(c, 1 - 1)
        BY <1>3, <3>1, Zenon
      <4> QED
        BY <4>1, <4>2, Zenon DEF Nth
    <3> QED
      BY <3>1, <3>2
  <2> QED
    BY <2>1
<1> HIDE DEF n
<1>9. R!ListIsWhole
  BY <1>2, <1>4, <1>5, <1>6, <1>7, <1>8 DEF R!ListIsWhole, n
<1>10. R!OldestFirst
  BY <1>2, <1>3, Zenon DEF R!OldestFirst, n
<1> QED
  BY <1>2, <1>4, <1>9, <1>10

LEMMA RcvIsSound ==
    ASSUME R!Given, RcvInv
    PROVE  R!ListIsWhole /\ R!OldestFirst /\ R!FreedIsForgotten /\ R!OneStray
<1>1. R!ListIsWhole /\ R!OldestFirst /\ R!ToSet(R!Order) = hash
  BY ListIsSound, Zenon DEF RcvInv
<1>2. R!FreedIsForgotten
  <2>1. ASSUME NEW u \in RcvSocks, rcvSt[u] = "freed"
        PROVE  u \notin hash \cup R!ToSet(fresh) \cup rid
    BY <2>1 DEF RcvInv, PlacesOK, StoresOK, IsFresh, R!ToSet
  <2> QED
    BY <1>1, <2>1 DEF R!FreedIsForgotten
<1>3. R!OneStray
  BY DEF RcvInv, StoresOK, R!OneStray
<1> QED
  BY <1>1, <1>2, <1>3

\* The nodes: what is looked at of a socket that is touched.
LEMMA UpdateKeeps ==
    ASSUME R!Given, NodesOK, NEW u \in hash, R!update(u), UNCHANGED hash
    PROVE  NodesOK'
<1>1. CASE ~onList[u]
  <2>1. UNCHANGED <<hash, rcvOld, rcvFirst, rcvLast, rcvNext, rcvPrev>>
    BY <1>1 DEF R!update, R!list
  <2> QED
    BY <2>1, Zenon DEF NodesOK, IsList, Linked, ByAge
<1>2. CASE onList[u] /\ rcvNext[u] = NoRcv
  <2>1. IsList(hash, [rcvOld EXCEPT ![u] = FALSE], rcvFirst, rcvLast, rcvNext, rcvPrev)
    BY <1>2, NodesAre, Zenon DEF NodesOK
  <2>2. /\ rcvOld' = [rcvOld EXCEPT ![u] = FALSE]
        /\ rcvFirst' = rcvFirst /\ rcvLast' = rcvLast /\ rcvNext' = rcvNext /\ rcvPrev' = rcvPrev
        /\ hash' = hash
    BY <1>2 DEF R!update
  <2>3. IsList(hash', rcvOld', rcvFirst', rcvLast', rcvNext', rcvPrev')
    BY <2>1, <2>2, Zenon
  <2> QED
    BY <2>3, Zenon DEF NodesOK, IsList, Linked, ByAge
<1>3. CASE onList[u] /\ rcvNext[u] # NoRcv
  <2>1. IsList(hash, rcvOld, rcvFirst, rcvLast, rcvNext, rcvPrev)
    BY DEF NodesOK
  <2>2. /\ rcvOld' = [rcvOld EXCEPT ![u] = FALSE]
        /\ rcvFirst' = IF rcvPrev[u] = NoRcv THEN rcvNext[u] ELSE rcvFirst
        /\ rcvNext' = [v \in RcvSocks |-> IF v = u THEN NoRcv ELSE IF v = rcvLast THEN u
                                          ELSE IF v = rcvPrev[u] THEN rcvNext[u] ELSE rcvNext[v]]
        /\ rcvPrev' = [v \in RcvSocks |-> IF v = u THEN rcvLast
                                          ELSE IF v = rcvNext[u] THEN rcvPrev[u] ELSE rcvPrev[v]]
        /\ rcvLast' = u /\ hash' = hash
    BY <1>3 DEF R!update
  <2>3. IsList(hash, rcvOld', rcvFirst', u, rcvNext', rcvPrev')
    <3>1. Moved(hash, rcvOld, rcvFirst, rcvLast, rcvNext, rcvPrev, u)
      BY <1>3, <2>1, OneMoves, Zenon
    <3> QED
      BY <2>2, <3>1, Zenon DEF Moved
  <2>4. IsList(hash', rcvOld', rcvFirst', rcvLast', rcvNext', rcvPrev')
    BY <2>2, <2>3, Zenon
  <2> QED
    BY <2>4, Zenon DEF NodesOK, IsList, Linked, ByAge
<1> QED
  BY <1>1, <1>2, <1>3

LEMMA InsertKeeps ==
    ASSUME R!Given, NodesOK, NEW u \in RcvSocks, u \notin hash, R!insert(u), hash' = hash \cup {u}
    PROVE  NodesOK'
<1>1. Joined(hash, rcvOld, rcvFirst, rcvLast, rcvNext, rcvPrev, u)
  BY LastJoins, Zenon DEF NodesOK
<1>2. /\ rcvOld' = [rcvOld EXCEPT ![u] = FALSE] /\ rcvLast' = u
      /\ rcvNext' = [v \in RcvSocks |-> IF v = u THEN NoRcv ELSE IF v = rcvLast THEN u ELSE rcvNext[v]]
      /\ rcvPrev' = [rcvPrev EXCEPT ![u] = rcvLast]
      /\ rcvFirst' = IF rcvFirst = NoRcv THEN u ELSE rcvFirst
  BY DEF R!insert
<1>3. IsList(hash', rcvOld', rcvFirst', rcvLast', rcvNext', rcvPrev')
  BY <1>1, <1>2, Zenon DEF Joined
<1> QED
  BY <1>3, Zenon DEF NodesOK, IsList, Linked, ByAge

LEMMA RemoveKeeps ==
    ASSUME R!Given, NodesOK, NEW u \in hash, R!remove(u), hash' = hash \ {u}
    PROVE  NodesOK'
<1>1. IsList(hash, rcvOld, rcvFirst, rcvLast, rcvNext, rcvPrev)
  BY DEF NodesOK
<1>2. /\ rcvNext' = [v \in RcvSocks |-> IF v = u THEN NoRcv ELSE IF v = rcvPrev[u] THEN rcvNext[u] ELSE rcvNext[v]]
      /\ rcvPrev' = [v \in RcvSocks |-> IF v = u THEN NoRcv ELSE IF v = rcvNext[u] THEN rcvPrev[u] ELSE rcvPrev[v]]
      /\ rcvFirst' = IF rcvPrev[u] = NoRcv THEN rcvNext[u] ELSE rcvFirst
      /\ rcvLast' = IF rcvNext[u] = NoRcv THEN rcvPrev[u] ELSE rcvLast
      /\ UNCHANGED rcvOld
  BY DEF R!remove
<1>3. IsList(hash \ {u}, rcvOld, rcvFirst', rcvLast', rcvNext', rcvPrev')
  <2>1. Parted(hash, rcvOld, rcvFirst, rcvLast, rcvNext, rcvPrev, u)
    BY <1>1, OneLeaves, Zenon
  <2> QED
    BY <1>2, <2>1, Zenon DEF Parted
<1>4. IsList(hash', rcvOld', rcvFirst', rcvLast', rcvNext', rcvPrev')
  BY <1>2, <1>3, Zenon
<1> QED
  BY <1>4, Zenon DEF NodesOK, IsList, Linked, ByAge

LEMMA NodesStay ==
    ASSUME NodesOK, UNCHANGED R!list, UNCHANGED hash PROVE NodesOK'
<1>1. UNCHANGED <<hash, rcvOld, rcvFirst, rcvLast, rcvNext, rcvPrev>>
  BY DEF R!list
<1> QED
  BY <1>1, Zenon DEF NodesOK, IsList, Linked, ByAge

-----------------------------------------------------------------------------
(* The steps of the worker. *)

\* What does not change the sockets' places changes nothing of them.
LEMMA PlacesStay ==
    ASSUME PlacesOK, UNCHANGED <<onList, hash, fresh, rcvSt>> PROVE PlacesOK'
  BY DEF PlacesOK, IsFresh

LEMMA StoresStay ==
    ASSUME StoresOK, UNCHANGED <<stored, rid, rcvSt, rcvSock>>, rcvPc' = "store" => rcvPc = "store"
    PROVE  StoresOK'
  BY DEF StoresOK

\* connect ends, by the worker or by its caller.
LEMMA ConnectedKeeps ==
    ASSUME R!Given, PlacesOK, StoresOK, NEW u \in RcvSocks, rcvSt[u] = "connecting", R!Connected(u),
           UNCHANGED <<hash, rcvSock>>, rcvPc' = "store" => rcvPc = "store"
    PROVE  PlacesOK' /\ StoresOK'
<1> DEFINE n == Len(fresh)
<1>1. /\ onList \in [RcvSocks -> BOOLEAN] /\ hash \subseteq RcvSocks /\ fresh \in Seq(RcvSocks)
      /\ rcvSt \in [RcvSocks -> States] /\ n \in Nat
      /\ \A i, j \in 1..n : fresh[i] = fresh[j] => i = j
      /\ \A v \in RcvSocks : /\ onList[v] <=> (v \in hash \/ IsFresh(v))
                             /\ ~(v \in hash /\ IsFresh(v))
                             /\ onList[v] => rcvSt[v] \in {"open", "broken", "closed"}
  BY DEF PlacesOK
<1>2. /\ rcvSt' = [rcvSt EXCEPT ![u] = "open"] /\ rid' = rid \ {u}
      /\ stored' = [stored EXCEPT ![u] = 0] /\ onList' = [onList EXCEPT ![u] = TRUE]
      /\ fresh' = Append(fresh, u) /\ hash' = hash /\ rcvSock' = rcvSock
  BY DEF R!Connected
<1>3. u \notin hash /\ ~IsFresh(u)
  BY <1>1
<1>4. /\ fresh' \in Seq(RcvSocks) /\ Len(fresh') = n + 1 /\ fresh'[n + 1] = u
      /\ \A i \in 1..n : fresh'[i] = fresh[i]
  BY <1>1, <1>2
<1>5. \A i \in 1..n : fresh[i] # u
  BY <1>3 DEF IsFresh
<1>6. \A i, j \in 1..Len(fresh') : fresh'[i] = fresh'[j] => i = j
  <2> HIDE DEF n
  <2> QED
    BY <1>1, <1>4, <1>5
<1>7. ASSUME NEW v \in RcvSocks PROVE IsFresh(v)' <=> IsFresh(v) \/ v = u
  <2>1. ASSUME IsFresh(v) PROVE IsFresh(v)'
    <3>1. PICK i \in 1..n : fresh[i] = v
      BY <2>1 DEF IsFresh
    <3>2. i \in 1..Len(fresh') /\ fresh'[i] = v
      BY <1>1, <1>4, <3>1
    <3> QED
      BY <3>2, Zenon DEF IsFresh
  <2>2. IsFresh(u)'
    <3>1. n + 1 \in 1..Len(fresh')
      BY <1>1, <1>4
    <3> QED
      BY <1>4, <3>1, Zenon DEF IsFresh
  <2>3. ASSUME IsFresh(v)', v # u PROVE IsFresh(v)
    <3>1. PICK i \in 1..Len(fresh') : fresh'[i] = v
      BY <2>3 DEF IsFresh
    <3>2. i # n + 1
      BY <1>4, <2>3, <3>1
    <3>3. i \in 1..n /\ fresh[i] = v
      BY <1>1, <1>4, <3>1, <3>2
    <3> QED
      BY <3>3, Zenon DEF IsFresh
  <2> QED
    BY <2>1, <2>2, <2>3, Zenon
<1>8. ASSUME NEW v \in RcvSocks
      PROVE  /\ (onList[v] <=> (v \in hash \/ IsFresh(v)))'
             /\ ~(v \in hash /\ IsFresh(v))'
             /\ (onList[v] => rcvSt[v] \in {"open", "broken", "closed"})'
  <2>1. CASE v = u
    BY <1>1, <1>2, <1>3, <1>7, <2>1
  <2>2. CASE v # u
    <3>1. onList'[v] = onList[v] /\ rcvSt'[v] = rcvSt[v] /\ (IsFresh(v)' <=> IsFresh(v))
      BY <1>1, <1>2, <1>7, <2>2
    <3> QED
      BY <1>1, <1>2, <3>1
  <2> QED
    BY <2>1, <2>2
<1>9. PlacesOK'
  <2>1. /\ onList' \in [RcvSocks -> BOOLEAN] /\ hash' \subseteq RcvSocks /\ fresh' \in Seq(RcvSocks)
        /\ rcvSt' \in [RcvSocks -> States]
    BY <1>1, <1>2, <1>4 DEF States
  <2> QED
    BY <1>6, <1>8, <2>1 DEF PlacesOK
<1>10. StoresOK'
  BY <1>1, <1>2 DEF StoresOK
<1> QED
  BY <1>9, <1>10

LEMMA TakeNewKeeps == ASSUME R!Given, RcvInv, R!TakeNew PROVE RcvInv'
<1>1. NodesOK /\ PlacesOK /\ StoresOK
  BY DEF RcvInv
<1>2. StoresOK'
  BY <1>1, StoresStay DEF R!TakeNew
<1>3. CASE fresh = << >>
  <2>1. UNCHANGED R!list /\ UNCHANGED hash /\ UNCHANGED <<onList, hash, fresh, rcvSt>>
    BY <1>3 DEF R!TakeNew
  <2> QED
    BY <1>1, <1>2, <2>1, NodesStay, PlacesStay DEF RcvInv
<1>4. CASE fresh # << >>
  <2> DEFINE u == Head(fresh)
             n == Len(fresh)
  <2>1. /\ R!insert(u) /\ hash' = hash \cup {u} /\ fresh' = Tail(fresh)
        /\ onList' = onList /\ rcvSt' = rcvSt
    BY <1>4 DEF R!TakeNew
  <2>2. /\ onList \in [RcvSocks -> BOOLEAN] /\ hash \subseteq RcvSocks /\ fresh \in Seq(RcvSocks)
        /\ rcvSt \in [RcvSocks -> States] /\ n \in Nat
        /\ \A i, j \in 1..n : fresh[i] = fresh[j] => i = j
        /\ \A v \in RcvSocks : /\ onList[v] <=> (v \in hash \/ IsFresh(v))
                               /\ ~(v \in hash /\ IsFresh(v))
                               /\ onList[v] => rcvSt[v] \in {"open", "broken", "closed"}
    BY <1>1 DEF PlacesOK
  <2>3. 1 \in 1..n /\ u = fresh[1] /\ u \in RcvSocks
    BY <1>4, <2>2
  <2>4. /\ fresh' \in Seq(RcvSocks) /\ Len(fresh') = n - 1
        /\ \A i \in 1..(n - 1) : fresh'[i] = fresh[i + 1]
    BY <1>4, <2>1, <2>2
  <2> HIDE DEF u, n
  <2>5. IsFresh(u)
    BY <2>3, Zenon DEF IsFresh, n
  <2>6. NodesOK'
    BY <1>1, <2>1, <2>2, <2>3, <2>5, InsertKeeps, Zenon
  <2>7. \A i, j \in 1..Len(fresh') : fresh'[i] = fresh'[j] => i = j
    <3>1. ASSUME NEW i \in 1..(n - 1), NEW j \in 1..(n - 1), fresh'[i] = fresh'[j] PROVE i = j
      <4>1. i + 1 \in 1..n /\ j + 1 \in 1..n
        BY <2>2
      <4>2. i + 1 = j + 1
        BY <2>2, <2>4, <3>1, <4>1
      <4> QED
        BY <4>2
    <3> QED
      BY <2>4, <3>1, Zenon
  <2>8. ASSUME NEW v \in RcvSocks PROVE IsFresh(v)' <=> IsFresh(v) /\ v # u
    <3>1. ASSUME IsFresh(v)' PROVE IsFresh(v) /\ v # u
      <4>1. PICK i \in 1..(n - 1) : fresh'[i] = v
        BY <2>4, <3>1, Zenon DEF IsFresh
      <4>2. i + 1 \in 1..n /\ fresh[i + 1] = v /\ i + 1 # 1
        BY <2>2, <2>4, <4>1
      <4>3. v # u
        BY <2>2, <2>3, <4>2, Zenon
      <4> QED
        BY <4>2, <4>3, Zenon DEF IsFresh, n
    <3>2. ASSUME IsFresh(v), v # u PROVE IsFresh(v)'
      <4>1. PICK i \in 1..n : fresh[i] = v
        BY <3>2, Zenon DEF IsFresh, n
      <4>2. i # 1
        BY <2>3, <3>2, <4>1
      <4>3. i - 1 \in 1..(n - 1) /\ (i - 1) + 1 = i
        BY <2>2, <4>2
      <4>4. i - 1 \in 1..Len(fresh') /\ fresh'[i - 1] = v
        BY <2>4, <4>1, <4>3
      <4> QED
        BY <4>4, Zenon DEF IsFresh
    <3> QED
      BY <3>1, <3>2, Zenon
  <2>9. ASSUME NEW v \in RcvSocks
        PROVE  /\ (onList[v] <=> (v \in hash \/ IsFresh(v)))'
               /\ ~(v \in hash /\ IsFresh(v))'
               /\ (onList[v] => rcvSt[v] \in {"open", "broken", "closed"})'
    BY <2>1, <2>2, <2>5, <2>8
  <2>10. PlacesOK'
    <3>1. /\ onList' \in [RcvSocks -> BOOLEAN] /\ hash' \subseteq RcvSocks
          /\ rcvSt' \in [RcvSocks -> States]
      BY <2>1, <2>2, <2>3
    <3> QED
      BY <2>4, <2>7, <2>9, <3>1 DEF PlacesOK
  <2> QED
    BY <1>2, <2>6, <2>10 DEF RcvInv
<1> QED
  BY <1>3, <1>4

LEMMA ReceiveKeeps == ASSUME R!Given, RcvInv, NEW u \in RcvSocks, R!Receive(u) PROVE RcvInv'
<1>1. NodesOK /\ PlacesOK /\ StoresOK
  BY DEF RcvInv
<1>2. CASE u \in hash
  <2>1. /\ IF rcvSt[u] = "open" THEN R!update(u) ELSE UNCHANGED R!list
        /\ UNCHANGED <<onList, hash, fresh, rcvSt>> /\ UNCHANGED hash
        /\ UNCHANGED <<stored, rid, rcvSt, rcvSock>> /\ rcvPc' = "timers"
    BY <1>2 DEF R!Receive
  <2>2. NodesOK'
    BY <1>1, <1>2, <2>1, UpdateKeeps, NodesStay
  <2> QED
    BY <1>1, <2>1, <2>2, PlacesStay, StoresStay DEF RcvInv
<1>3. CASE u \in rid /\ u \in RcvAsync /\ u \notin hash
  <2>1. /\ UNCHANGED R!list /\ UNCHANGED hash /\ rcvPc' = "timers" /\ UNCHANGED rcvSock
        /\ IF rcvSt[u] = "connecting" THEN R!Connected(u)
           ELSE UNCHANGED <<onList, fresh, rid, stored, rcvSt>>
    BY <1>3 DEF R!Receive
  <2>2. NodesOK'
    BY <1>1, <2>1, NodesStay
  <2>3. PlacesOK' /\ StoresOK'
    <3>1. rcvSt[u] = "connecting"
      BY <1>1, <1>3 DEF StoresOK
    <3>2. R!Connected(u) /\ UNCHANGED <<hash, rcvSock>> /\ rcvPc' # "store"
      BY <2>1, <3>1
    <3> QED
      BY <1>1, <3>1, <3>2, ConnectedKeeps
  <2> QED
    BY <2>2, <2>3 DEF RcvInv
<1>4. CASE u \in rid /\ u \notin RcvAsync /\ u \notin hash
  <2>1. /\ UNCHANGED R!list /\ UNCHANGED hash /\ rcvSock' = u
        /\ UNCHANGED <<onList, hash, fresh, rcvSt>> /\ UNCHANGED <<rid, stored>>
    BY <1>4 DEF R!Receive
  <2>2. StoresOK'
    BY <1>1, <1>4, <2>1 DEF StoresOK
  <2> QED
    BY <1>1, <2>1, <2>2, NodesStay, PlacesStay DEF RcvInv
<1> QED
  BY <1>2, <1>3, <1>4 DEF R!Receive

LEMMA StorePktKeeps == ASSUME R!Given, RcvInv, R!storePkt PROVE RcvInv'
<1>1. NodesOK /\ PlacesOK /\ StoresOK
  BY DEF RcvInv
<1>2. /\ UNCHANGED R!list /\ UNCHANGED hash /\ UNCHANGED <<onList, hash, fresh, rcvSt>>
      /\ rcvPc = "store" /\ rcvPc' = "timers" /\ rcvSock' = NoRcv /\ UNCHANGED rid
      /\ stored' = [stored EXCEPT ![rcvSock] = IF @ > RcvStored THEN @ ELSE @ + 1]
  BY DEF R!storePkt
<1>3. StoresOK'
  <2>1. rcvSock \in RcvSocks /\ stored \in [RcvSocks -> Nat] /\ NoRcv \notin RcvSocks
    BY <1>1, <1>2 DEF StoresOK, R!Given
  <2>2. stored' \in [RcvSocks -> Nat]
    BY <1>2, <2>1
  <2>3. ASSUME NEW v \in RcvSocks, v \notin rid PROVE stored'[v] <= 1
    BY <1>1, <1>2, <2>1, <2>3 DEF StoresOK, R!Given
  <2> QED
    BY <1>1, <1>2, <2>1, <2>2, <2>3 DEF StoresOK
<1> QED
  BY <1>1, <1>2, <1>3, NodesStay, PlacesStay DEF RcvInv

LEMMA TimerKeeps == ASSUME R!Given, RcvInv, R!Timer PROVE RcvInv'
<1>1. NodesOK /\ PlacesOK /\ StoresOK
  BY DEF RcvInv
<1>2. UNCHANGED <<fresh, rid, stored, rcvSt, rcvSock>> /\ (rcvPc' = "store" => rcvPc = "store")
  BY DEF R!Timer
<1>3. StoresOK'
  BY <1>1, <1>2, StoresStay
<1>4. CASE rcvFirst = NoRcv \/ ~rcvOld[rcvFirst]
  <2>1. UNCHANGED R!list /\ UNCHANGED <<hash, onList>>
    BY <1>4 DEF R!Timer
  <2> QED
    BY <1>1, <1>2, <1>3, <2>1, NodesStay, PlacesStay DEF RcvInv
<1>5. CASE ~(rcvFirst = NoRcv \/ ~rcvOld[rcvFirst])
  <2> DEFINE u == rcvFirst
  <2>1. u \in hash /\ u \in RcvSocks
    BY <1>1, <1>5, NodesAre DEF NodesOK
  <2>2. CASE rcvSt[u] = "open"
    <3>1. R!update(u) /\ UNCHANGED <<hash, onList>>
      BY <1>5, <2>2 DEF R!Timer
    <3> QED
      BY <1>1, <1>2, <1>3, <2>1, <3>1, UpdateKeeps, PlacesStay DEF RcvInv
  <2>3. CASE rcvSt[u] # "open"
    <3>1. hash' = hash \ {u} /\ R!remove(u) /\ onList' = [onList EXCEPT ![u] = FALSE]
      BY <1>5, <2>3 DEF R!Timer
    <3>2. NodesOK'
      BY <1>1, <2>1, <3>1, RemoveKeeps
    <3>3. PlacesOK'
      <4> HIDE DEF u
      <4>1. ASSUME NEW v \in RcvSocks PROVE IsFresh(v)' <=> IsFresh(v)
        BY <1>2 DEF IsFresh
      <4>2. ASSUME NEW v \in RcvSocks
            PROVE  /\ (onList[v] <=> (v \in hash \/ IsFresh(v)))'
                   /\ ~(v \in hash /\ IsFresh(v))'
                   /\ (onList[v] => rcvSt[v] \in {"open", "broken", "closed"})'
        BY <1>1, <1>2, <2>1, <3>1, <4>1 DEF PlacesOK
      <4> QED
        BY <1>1, <1>2, <3>1, <4>2 DEF PlacesOK
    <3> QED
      BY <1>3, <3>2, <3>3 DEF RcvInv
  <2> QED
    BY <2>2, <2>3
<1> QED
  BY <1>4, <1>5

-----------------------------------------------------------------------------
(* The steps of the callers and of time. *)

\* A step of one socket which is not on its way to the list, or stays there.
LEMMA CallerKeeps ==
    ASSUME R!Given, RcvInv, NEW u \in RcvSocks,
           R!Connect(u) \/ R!WaitEnds(u) \/ R!GiveUp(u) \/ R!Break(u) \/ R!Close(u) \/ R!Free(u)
    PROVE  RcvInv'
<1>1. NodesOK /\ PlacesOK /\ StoresOK
  BY DEF RcvInv
<1>2. UNCHANGED R!list /\ UNCHANGED <<onList, hash, fresh, rcvPc, rcvSock>>
  BY DEF R!Connect, R!WaitEnds, R!GiveUp, R!Break, R!Close, R!Free
<1>3. NodesOK'
  BY <1>1, <1>2, NodesStay
<1>4. CASE R!Connect(u)
  <2>1. /\ rcvSt[u] = "init" /\ rcvSt' = [rcvSt EXCEPT ![u] = "connecting"]
        /\ rid' = rid \cup {u} /\ stored' = stored
    BY <1>4 DEF R!Connect
  <2>2. PlacesOK'
    BY <1>1, <1>2, <2>1 DEF PlacesOK, IsFresh, States
  <2>3. StoresOK'
    BY <1>1, <1>2, <2>1 DEF StoresOK, PlacesOK
  <2> QED
    BY <1>3, <2>2, <2>3 DEF RcvInv
<1>5. CASE R!WaitEnds(u) \/ R!GiveUp(u)
  <2>1. UNCHANGED <<stored, rid, rcvSt>>
    BY <1>5 DEF R!WaitEnds, R!GiveUp
  <2> QED
    BY <1>1, <1>2, <1>3, <2>1, PlacesStay, StoresStay DEF RcvInv
<1>6. CASE R!Break(u)
  <2>1. /\ rcvSt[u] = "open" /\ rcvSt' = [rcvSt EXCEPT ![u] = "broken"]
        /\ rid' = rid /\ stored' = stored
    BY <1>6 DEF R!Break
  <2>2. PlacesOK'
    BY <1>1, <1>2, <2>1 DEF PlacesOK, IsFresh, States
  <2>3. StoresOK'
    BY <1>1, <1>2, <2>1 DEF StoresOK, PlacesOK
  <2> QED
    BY <1>3, <2>2, <2>3 DEF RcvInv
<1>7. CASE R!Close(u)
  <2>1. /\ rcvSt[u] \in {"init", "connecting", "open", "broken"}
        /\ rcvSt' = [rcvSt EXCEPT ![u] = "closed"]
        /\ rid' = rid \ {u} /\ stored' = [stored EXCEPT ![u] = 0]
    BY <1>7 DEF R!Close, R!removeConnector
  <2>2. PlacesOK'
    BY <1>1, <1>2, <2>1 DEF PlacesOK, IsFresh, States
  <2>3. StoresOK'
    BY <1>1, <1>2, <2>1 DEF StoresOK, PlacesOK
  <2> QED
    BY <1>3, <2>2, <2>3 DEF RcvInv
<1>8. CASE R!Free(u)
  <2>1. /\ rcvSt[u] = "closed" /\ ~onList[u] /\ rcvSt' = [rcvSt EXCEPT ![u] = "freed"]
        /\ rid' = rid /\ stored' = stored
    BY <1>8 DEF R!Free
  <2>2. PlacesOK'
    BY <1>1, <1>2, <2>1 DEF PlacesOK, IsFresh, States
  <2>3. StoresOK'
    BY <1>1, <1>2, <2>1 DEF StoresOK, PlacesOK
  <2> QED
    BY <1>3, <2>2, <2>3 DEF RcvInv
<1> QED
  BY <1>4, <1>5, <1>6, <1>7, <1>8

LEMMA LookKeeps == ASSUME R!Given, RcvInv, NEW u \in RcvSocks, R!Look(u) PROVE RcvInv'
<1>1. NodesOK /\ PlacesOK /\ StoresOK
  BY DEF RcvInv
<1>2. UNCHANGED R!list /\ UNCHANGED hash /\ UNCHANGED <<rcvPc, rcvSock>>
  BY DEF R!Look
<1>3. NodesOK'
  BY <1>1, <1>2, NodesStay
<1>4. CASE rcvSt[u] = "connecting" /\ R!Connected(u)
  BY <1>1, <1>2, <1>3, <1>4, ConnectedKeeps DEF RcvInv
<1>5. CASE UNCHANGED <<onList, fresh, rid, rcvSt>> /\ stored[u] # 0
           /\ stored' = [stored EXCEPT ![u] = @ - 1]
  <2>1. stored \in [RcvSocks -> Nat] /\ stored[u] - 1 \in Nat
    BY <1>1, <1>5 DEF StoresOK
  <2>2. \A v \in RcvSocks : stored'[v] <= stored[v] /\ (stored[v] = 0 => stored'[v] = 0)
    BY <1>5, <2>1
  <2>3. StoresOK'
    <3>1. stored' \in [RcvSocks -> Nat]
      BY <1>5, <2>1
    <3> QED
      BY <1>1, <1>2, <1>5, <2>1, <2>2, <3>1 DEF StoresOK
  <2> QED
    BY <1>1, <1>2, <1>3, <1>5, <2>3, PlacesStay DEF RcvInv
<1>6. CASE UNCHANGED <<onList, fresh, rid, stored, rcvSt>>
  BY <1>1, <1>2, <1>3, <1>6, PlacesStay, StoresStay DEF RcvInv
<1> QED
  BY <1>4, <1>5, <1>6 DEF R!Look

LEMMA AgeKeeps == ASSUME R!Given, RcvInv, R!Age PROVE RcvInv'
<1>1. NodesOK /\ PlacesOK /\ StoresOK
  BY DEF RcvInv
<1>2. PICK k \in hash : /\ rcvPrev[k] # NoRcv => rcvOld[rcvPrev[k]]
                        /\ rcvOld' = [rcvOld EXCEPT ![k] = TRUE]
  BY DEF R!Age
<1>3. /\ UNCHANGED <<rcvFirst, rcvLast, rcvNext, rcvPrev, hash>>
      /\ UNCHANGED <<onList, hash, fresh, rcvSt>> /\ UNCHANGED <<stored, rid, rcvSt, rcvSock>>
      /\ UNCHANGED rcvPc
  BY DEF R!Age
<1>4. IsList(hash, [rcvOld EXCEPT ![k] = TRUE], rcvFirst, rcvLast, rcvNext, rcvPrev)
  BY <1>1, <1>2, NodesAre, Zenon DEF NodesOK
<1>5. IsList(hash', rcvOld', rcvFirst', rcvLast', rcvNext', rcvPrev')
  BY <1>2, <1>3, <1>4
<1>6. NodesOK'
  BY <1>5, Zenon DEF NodesOK, IsList, Linked, ByAge
<1> QED
  BY <1>1, <1>3, <1>6, PlacesStay, StoresStay DEF RcvInv

LEMMA RcvStepKeeps == ASSUME R!Given, RcvInv, [R!Next]_R!vars PROVE RcvInv'
<1>1. CASE R!TakeNew
  BY <1>1, TakeNewKeeps
<1>2. CASE \E u \in RcvSocks : R!Receive(u)
  BY <1>2, ReceiveKeeps
<1>3. CASE R!NoPacket
  <2>1. /\ UNCHANGED R!list /\ UNCHANGED hash /\ UNCHANGED <<onList, hash, fresh, rcvSt>>
        /\ UNCHANGED <<stored, rid, rcvSt, rcvSock>> /\ rcvPc' = "timers"
    BY <1>3 DEF R!NoPacket
  <2> QED
    BY <2>1, NodesStay, PlacesStay, StoresStay DEF RcvInv
<1>4. CASE R!storePkt
  BY <1>4, StorePktKeeps
<1>5. CASE R!Timer
  BY <1>5, TimerKeeps
<1>6. CASE R!Age
  BY <1>6, AgeKeeps
<1>7. CASE \E u \in RcvSocks : R!Look(u)
  BY <1>7, LookKeeps
<1>8. CASE \E u \in RcvSocks : \/ R!Connect(u) \/ R!WaitEnds(u) \/ R!GiveUp(u)
                               \/ R!Break(u) \/ R!Close(u) \/ R!Free(u)
  BY <1>8, CallerKeeps
<1>9. CASE UNCHANGED R!vars
  <2>1. /\ UNCHANGED R!list /\ UNCHANGED hash /\ UNCHANGED <<onList, hash, fresh, rcvSt>>
        /\ UNCHANGED <<stored, rid, rcvSt, rcvSock>> /\ UNCHANGED rcvPc
    BY <1>9 DEF R!vars
  <2> QED
    BY <2>1, NodesStay, PlacesStay, StoresStay DEF RcvInv
<1> QED
  BY <1>1, <1>2, <1>3, <1>4, <1>5, <1>6, <1>7, <1>8, <1>9 DEF R!Next, R!Worker

\* However sockets connect, are heard of, break and close, the nodes of CRcvUList are one list
\* of the sockets in CHash, both ways, oldest first; a socket that was freed is in neither,
\* nor in m_vNewEntry or m_lRendezvousID; and of packets stored for a socket that had left
\* there is never more than one.
THEOREM ReceivingListIsSound ==
    ASSUME R!Given
    PROVE  R!Spec => [](R!ListIsWhole /\ R!OldestFirst /\ R!FreedIsForgotten /\ R!OneStray)
<1>1. R!Init => RcvInv
  BY RcvBegins
<1>2. RcvInv /\ [R!Next]_R!vars => RcvInv'
  BY RcvStepKeeps
<1>3. RcvInv => R!ListIsWhole /\ R!OldestFirst /\ R!FreedIsForgotten /\ R!OneStray
  BY RcvIsSound
<1> QED
  BY <1>1, <1>2, <1>3, PTL DEF R!Spec
-----------------------------------------------------------------------------
(* The thread that sends: a heap of sockets by the time of their next packet,  *)
(* each of which knows its place.                                              *)

CONSTANTS SendSocks, MaxWait

VARIABLES heap, loc, due, up, lock, sendPc, ahead, sched, closing

S == INSTANCE UDTSchedule WITH Socks <- SendSocks, MaxDelay <- MaxWait, wpc <- sendPc

Heaps == [h : Seq(SendSocks), l : [SendSocks -> Nat]]

\* The places are right but for the sockets of G, which are not on the heap.
Agree(x, G) ==
    /\ x \in Heaps
    /\ \A i \in 1..Len(x.h) : x.h[i] \notin G /\ x.l[x.h[i]] = i
    /\ \A v \in SendSocks \ G : x.l[v] # 0 => x.l[v] \in 1..Len(x.h) /\ x.h[x.l[v]] = v

LEMMA SwapAgrees ==
    ASSUME NEW x, NEW G, Agree(x, G), NEW i \in 1..Len(x.h), NEW j \in 1..Len(x.h)
    PROVE  Agree(S!Swap(x, i, j), G) /\ Len(S!Swap(x, i, j).h) = Len(x.h)
<1> DEFINE n == Len(x.h)
           h == [x.h EXCEPT ![i] = x.h[j], ![j] = x.h[i]]
           l == [x.l EXCEPT ![x.h[i]] = j, ![x.h[j]] = i]
<1>1. /\ x.h \in Seq(SendSocks) /\ n \in Nat /\ x.l \in [SendSocks -> Nat]
      /\ i \in 1..n /\ j \in 1..n
      /\ \A k \in 1..n : x.h[k] \in SendSocks /\ x.h[k] \notin G /\ x.l[x.h[k]] = k
      /\ \A v \in SendSocks \ G : x.l[v] # 0 => x.l[v] \in 1..n /\ x.h[x.l[v]] = v
  BY DEF Agree, Heaps
<1>2. S!Swap(x, i, j) = [h |-> h, l |-> l]
  BY Zenon DEF S!Swap
<1>3. h \in Seq(SendSocks) /\ Len(h) = n /\ l \in [SendSocks -> Nat]
  BY <1>1
<1>4. /\ \A k \in 1..n : h[k] = IF k = j THEN x.h[i] ELSE IF k = i THEN x.h[j] ELSE x.h[k]
      /\ \A v \in SendSocks : l[v] = IF v = x.h[j] THEN i ELSE IF v = x.h[i] THEN j ELSE x.l[v]
  BY <1>1
<1> HIDE DEF h, l, n
<1>5. ASSUME NEW k \in 1..n PROVE h[k] \notin G /\ l[h[k]] = k
  <2>1. CASE k = j
    BY <1>1, <1>4, <2>1
  <2>2. CASE k = i /\ k # j
    BY <1>1, <1>4, <2>2
  <2>3. CASE k # i /\ k # j
    BY <1>1, <1>4, <2>3
  <2> QED
    BY <2>1, <2>2, <2>3
<1>6. ASSUME NEW v \in SendSocks \ G, l[v] # 0 PROVE l[v] \in 1..n /\ h[l[v]] = v
  <2>1. CASE v = x.h[j]
    BY <1>1, <1>4, <2>1
  <2>2. CASE v = x.h[i] /\ v # x.h[j]
    BY <1>1, <1>4, <2>2
  <2>3. CASE v # x.h[i] /\ v # x.h[j]
    BY <1>1, <1>4, <1>6, <2>3
  <2> QED
    BY <2>1, <2>2, <2>3
<1> QED
  BY <1>2, <1>3, <1>5, <1>6 DEF Agree, Heaps, n

\* A heap of n entries, and a place of it.
Spots(G, n) == {y \in [x : Heaps, at : 1..n] : Agree(y.x, G) /\ Len(y.x.h) = n}

LEMMA RaisedAgrees ==
    ASSUME NEW G, NEW n \in Nat, NEW y \in Spots(G, n), NEW d
    PROVE  S!Raised(y, d) \in Spots(G, n)
<1> DEFINE q == y.at \div 2
<1>1. /\ y.at \in 1..n /\ Agree(y.x, G) /\ Len(y.x.h) = n
  BY DEF Spots
<1>2. CASE y.at > 1 /\ d[y.x.h[q]] > d[y.x.h[y.at]]
  <2>1. q \in 1..n
    BY <1>1, <1>2
  <2> HIDE DEF q
  <2>2. Agree(S!Swap(y.x, q, y.at), G) /\ Len(S!Swap(y.x, q, y.at).h) = n
    BY <1>1, <2>1, SwapAgrees
  <2>3. S!Raised(y, d) = [x |-> S!Swap(y.x, q, y.at), at |-> q]
    BY <1>2, Zenon DEF S!Raised, q
  <2> QED
    BY <2>1, <2>2, <2>3 DEF Spots, Agree
<1>3. CASE ~(y.at > 1 /\ d[y.x.h[q]] > d[y.x.h[y.at]])
  BY <1>3, Zenon DEF S!Raised
<1> QED
  BY <1>2, <1>3

LEMMA LoweredAgrees ==
    ASSUME NEW G, NEW n \in Nat, NEW y \in Spots(G, n), NEW d \in [SendSocks -> Int]
    PROVE  S!Lowered(y, d) \in Spots(G, n)
<1> DEFINE q == y.at
           kids == {2 * q, 2 * q + 1} \cap DOMAIN y.x.h
           Least(k) == \A j \in kids : d[y.x.h[k]] < d[y.x.h[j]] + (IF k <= j THEN 1 ELSE 0)
           least == CHOOSE k \in kids : Least(k)
<1>1. /\ q \in 1..n /\ Agree(y.x, G) /\ Len(y.x.h) = n
  BY DEF Spots
<1>2. DOMAIN y.x.h = 1..n /\ \A k \in 1..n : y.x.h[k] \in SendSocks
  BY <1>1 DEF Agree, Heaps
<1>3. \A k \in kids : k \in 1..n /\ d[y.x.h[k]] \in Int
  BY <1>2
<1>4. CASE kids # {} /\ d[y.x.h[q]] > d[y.x.h[least]]
  <2>1. \E k \in kids : Least(k)
    <3>1. 2 * q \in kids
      <4>1. PICK k \in 1..n : k = 2 * q \/ k = 2 * q + 1
        BY <1>2, <1>4
      <4>2. 2 * q \in 1..n
        BY <1>1, <4>1
      <4> QED
        BY <1>2, <4>2
    <3>2. CASE 2 * q + 1 \notin kids
      <4>1. Least(2 * q)
        BY <1>3, <3>1, <3>2
      <4> QED
        BY <3>1, <4>1
    <3>3. CASE 2 * q + 1 \in kids /\ d[y.x.h[2 * q]] <= d[y.x.h[2 * q + 1]]
      <4>1. Least(2 * q)
        BY <1>1, <1>3, <3>1, <3>3
      <4> QED
        BY <3>1, <4>1
    <3>4. CASE 2 * q + 1 \in kids /\ d[y.x.h[2 * q]] > d[y.x.h[2 * q + 1]]
      <4>1. Least(2 * q + 1)
        BY <1>1, <1>3, <3>1, <3>4
      <4> QED
        BY <3>4, <4>1
    <3>5. ASSUME 2 * q + 1 \in kids
          PROVE  d[y.x.h[2 * q]] <= d[y.x.h[2 * q + 1]] \/ d[y.x.h[2 * q]] > d[y.x.h[2 * q + 1]]
      <4>1. d[y.x.h[2 * q]] \in Int /\ d[y.x.h[2 * q + 1]] \in Int
        BY <1>3, <3>1, <3>5, Zenon
      <4> QED
        BY <4>1
    <3> QED
      BY <3>2, <3>3, <3>4, <3>5, Zenon
  <2>2. least \in kids
    <3> HIDE DEF kids, Least
    <3> QED
      BY <2>1, Zenon
  <2>3. least \in 1..n
    BY <1>3, <2>2
  <2>4. S!Lowered(y, d) = [x |-> S!Swap(y.x, q, least), at |-> least]
    BY <1>4, Zenon DEF S!Lowered
  <2> HIDE DEF least, q
  <2>5. Agree(S!Swap(y.x, q, least), G) /\ Len(S!Swap(y.x, q, least).h) = n
    BY <1>1, <2>3, SwapAgrees
  <2> QED
    BY <2>3, <2>4, <2>5 DEF Spots, Agree
<1>5. CASE ~(kids # {} /\ d[y.x.h[q]] > d[y.x.h[least]])
  BY <1>5, Zenon DEF S!Lowered
<1> QED
  BY <1>4, <1>5

\* A step taken any number of times.
Repeats(f, m, y, F) == f = [n \in 0..m |-> IF n = 0 THEN y ELSE F[f[n - 1]]]

LEMMA RepeatsExist ==
    ASSUME NEW Y, NEW F \in [Y -> Y], NEW y \in Y, NEW m \in Nat
    PROVE  \E f \in [0..m -> Y] : Repeats(f, m, y, F)
<1> DEFINE Z == {k \in Nat : \E f \in [0..k -> Y] : Repeats(f, k, y, F)}
<1>1. 0 \in Z
  <2> DEFINE f == [n \in 0..0 |-> y]
  <2>1. f \in [0..0 -> Y] /\ Repeats(f, 0, y, F)
    BY DEF Repeats
  <2> QED
    BY <2>1
<1>2. ASSUME NEW k \in Nat, k \in Z PROVE k + 1 \in Z
  <2>1. PICK f \in [0..k -> Y] : Repeats(f, k, y, F)
    BY <1>2
  <2> DEFINE g == [n \in 0..(k + 1) |-> IF n <= k THEN f[n] ELSE F[f[k]]]
  <2>2. \A n \in 0..k : f[n] = IF n = 0 THEN y ELSE F[f[n - 1]]
    <3> DEFINE e == [n \in 0..k |-> IF n = 0 THEN y ELSE F[f[n - 1]]]
    <3>1. f = e
      BY <2>1, Zenon DEF Repeats
    <3>2. \A n \in 0..k : e[n] = IF n = 0 THEN y ELSE F[f[n - 1]]
      OBVIOUS
    <3> HIDE DEF e
    <3> QED
      BY <3>1, <3>2
  <2>3. g \in [0..(k + 1) -> Y]
    <3>1. ASSUME NEW n \in 0..(k + 1) PROVE (IF n <= k THEN f[n] ELSE F[f[k]]) \in Y
      BY <2>1
    <3> QED
      BY <3>1
  <2>4. ASSUME NEW n \in 0..(k + 1) PROVE g[n] = IF n = 0 THEN y ELSE F[g[n - 1]]
    <3>1. CASE n = 0
      BY <2>2, <3>1
    <3>2. CASE n \in 1..k
      BY <2>2, <3>2
    <3>3. CASE n = k + 1
      BY <3>3
    <3> QED
      BY <3>1, <3>2, <3>3
  <2>5. Repeats(g, k + 1, y, F)
    <3>1. g = [n \in 0..(k + 1) |-> g[n]]
      OBVIOUS
    <3> HIDE DEF g
    <3>2. g = [n \in 0..(k + 1) |-> IF n = 0 THEN y ELSE F[g[n - 1]]]
      BY <2>4, <3>1
    <3> QED
      BY <3>2, Zenon DEF Repeats
  <2> HIDE DEF g
  <2> QED
    BY <2>3, <2>5
<1> HIDE DEF Z
<1>3. m \in Z
  BY <1>1, <1>2, CountUp
<1> QED
  BY <1>3 DEF Z

\* What keeps Y keeps it however often it is done.
LEMMA StepsKeep ==
    ASSUME NEW Y, NEW y \in Y, NEW m \in Nat, NEW f, f[0] = y,
           \A k \in 1..m : f[k - 1] \in Y => f[k] \in Y
    PROVE  f[m] \in Y
<1> DEFINE Z == {k \in Nat : k <= m => f[k] \in Y}
<1>1. 0 \in Z
  OBVIOUS
<1>2. ASSUME NEW k \in Nat, k \in Z PROVE k + 1 \in Z
  <2>1. ASSUME k + 1 <= m PROVE f[k + 1] \in Y
    <3>1. k + 1 \in 1..m /\ (k + 1) - 1 = k /\ k <= m
      BY <2>1
    <3> QED
      BY <1>2, <3>1
  <2> QED
    BY <2>1
<1> HIDE DEF Z
<1>3. m \in Z
  BY <1>1, <1>2, CountUp
<1> QED
  BY <1>3 DEF Z

IsRise(f, x, d, q) == f = [n \in 0..S!Levels(x) |-> IF n = 0 THEN [x |-> x, at |-> q]
                                                 ELSE S!Raised(f[n - 1], d)]

IsSink(f, x, d, q) == f = [n \in 0..S!Levels(x) |-> IF n = 0 THEN [x |-> x, at |-> q]
                                                 ELSE S!Lowered(f[n - 1], d)]

LEMMA UpAgrees ==
    ASSUME NEW x, NEW G, Agree(x, G), NEW q \in 1..Len(x.h), NEW d
    PROVE  Agree(S!Up(x, d, q), G) /\ Len(S!Up(x, d, q).h) = Len(x.h)
<1> DEFINE n == Len(x.h)
           m == S!Levels(x)
           Y == Spots(G, n)
           y == [x |-> x, at |-> q]
           F == [z \in Y |-> S!Raised(z, d)]
           g == CHOOSE f : IsRise(f, x, d, q)
<1>1. n \in Nat /\ m \in Nat /\ y \in Y
  BY DEF Agree, Heaps, Spots, S!Levels
<1>2. \A z \in Y : S!Raised(z, d) \in Y
  BY <1>1, RaisedAgrees
<1>3. F \in [Y -> Y] /\ \A z \in Y : F[z] = S!Raised(z, d)
  BY <1>2
<1>4. S!Up(x, d, q) = g[m].x
  BY Zenon DEF S!Up, IsRise
<1> HIDE DEF Y, F, y, g, n, m
<1>5. \E f : IsRise(f, x, d, q)
  <2>1. PICK f \in [0..m -> Y] : Repeats(f, m, y, F)
    BY <1>1, <1>3, RepeatsExist
  <2>2. \A k \in 0..m : k # 0 => F[f[k - 1]] = S!Raised(f[k - 1], d)
    <3>1. ASSUME NEW k \in 0..m, k # 0 PROVE k - 1 \in 0..m
      BY <1>1, <3>1
    <3> QED
      BY <1>3, <2>1, <3>1
  <2>3. f = [k \in 0..m |-> IF k = 0 THEN y ELSE S!Raised(f[k - 1], d)]
    BY <2>1, <2>2 DEF Repeats
  <2> QED
    BY <2>3, Zenon DEF IsRise, m, y
<1>6. g = [k \in 0..m |-> IF k = 0 THEN y ELSE S!Raised(g[k - 1], d)]
  BY <1>5, Zenon DEF IsRise, g, m, y
<1>7. \A k \in 0..m : g[k] = IF k = 0 THEN y ELSE S!Raised(g[k - 1], d)
  <2> DEFINE e == [k \in 0..m |-> IF k = 0 THEN y ELSE S!Raised(g[k - 1], d)]
  <2>1. g = e /\ \A k \in 0..m : e[k] = IF k = 0 THEN y ELSE S!Raised(g[k - 1], d)
    BY <1>6
  <2> HIDE DEF e
  <2> QED
    BY <2>1
<1>8. g[m] \in Y
  <2>1. g[0] = y /\ \A k \in 1..m : g[k] = S!Raised(g[k - 1], d)
    BY <1>1, <1>7
  <2>2. \A k \in 1..m : g[k - 1] \in Y => g[k] \in Y
    BY <1>2, <2>1
  <2> QED
    BY <1>1, <2>1, <2>2, StepsKeep
<1> QED
  BY <1>4, <1>8, Zenon DEF Y, Spots, n

LEMMA DownAgrees ==
    ASSUME NEW x, NEW G, Agree(x, G), NEW q \in 1..Len(x.h), NEW d \in [SendSocks -> Int]
    PROVE  Agree(S!Down(x, d, q), G) /\ Len(S!Down(x, d, q).h) = Len(x.h)
<1> DEFINE n == Len(x.h)
           m == S!Levels(x)
           Y == Spots(G, n)
           y == [x |-> x, at |-> q]
           F == [z \in Y |-> S!Lowered(z, d)]
           g == CHOOSE f : IsSink(f, x, d, q)
<1>1. n \in Nat /\ m \in Nat /\ y \in Y
  BY DEF Agree, Heaps, Spots, S!Levels
<1>2. \A z \in Y : S!Lowered(z, d) \in Y
  BY <1>1, LoweredAgrees
<1>3. F \in [Y -> Y] /\ \A z \in Y : F[z] = S!Lowered(z, d)
  BY <1>2
<1>4. S!Down(x, d, q) = g[m].x
  BY Zenon DEF S!Down, IsSink
<1> HIDE DEF Y, F, y, g, n, m
<1>5. \E f : IsSink(f, x, d, q)
  <2>1. PICK f \in [0..m -> Y] : Repeats(f, m, y, F)
    BY <1>1, <1>3, RepeatsExist
  <2>2. \A k \in 0..m : k # 0 => F[f[k - 1]] = S!Lowered(f[k - 1], d)
    <3>1. ASSUME NEW k \in 0..m, k # 0 PROVE k - 1 \in 0..m
      BY <1>1, <3>1
    <3> QED
      BY <1>3, <2>1, <3>1
  <2>3. f = [k \in 0..m |-> IF k = 0 THEN y ELSE S!Lowered(f[k - 1], d)]
    BY <2>1, <2>2 DEF Repeats
  <2> QED
    BY <2>3, Zenon DEF IsSink, m, y
<1>6. g = [k \in 0..m |-> IF k = 0 THEN y ELSE S!Lowered(g[k - 1], d)]
  BY <1>5, Zenon DEF IsSink, g, m, y
<1>7. \A k \in 0..m : g[k] = IF k = 0 THEN y ELSE S!Lowered(g[k - 1], d)
  <2> DEFINE e == [k \in 0..m |-> IF k = 0 THEN y ELSE S!Lowered(g[k - 1], d)]
  <2>1. g = e /\ \A k \in 0..m : e[k] = IF k = 0 THEN y ELSE S!Lowered(g[k - 1], d)
    BY <1>6
  <2> HIDE DEF e
  <2> QED
    BY <2>1
<1>8. g[m] \in Y
  <2>1. g[0] = y /\ \A k \in 1..m : g[k] = S!Lowered(g[k - 1], d)
    BY <1>1, <1>7
  <2>2. \A k \in 1..m : g[k - 1] \in Y => g[k] \in Y
    BY <1>2, <2>1
  <2> QED
    BY <1>1, <2>1, <2>2, StepsKeep
<1> QED
  BY <1>4, <1>8, Zenon DEF Y, Spots, n

LEMMA InsertAgrees ==
    ASSUME NEW x, Agree(x, {}), NEW u \in SendSocks, x.l[u] = 0, NEW d
    PROVE  Agree(S!insert_(x, d, u), {})
<1> DEFINE n == Len(x.h)
           y == [h |-> Append(x.h, u), l |-> [x.l EXCEPT ![u] = n + 1]]
<1>1. /\ x.h \in Seq(SendSocks) /\ n \in Nat /\ x.l \in [SendSocks -> Nat]
      /\ \A k \in 1..n : x.h[k] \in SendSocks /\ x.l[x.h[k]] = k
      /\ \A v \in SendSocks : x.l[v] # 0 => x.l[v] \in 1..n /\ x.h[x.l[v]] = v
  BY DEF Agree, Heaps
<1>2. /\ y \in Heaps /\ Len(y.h) = n + 1 /\ y.h[n + 1] = u
      /\ \A k \in 1..n : y.h[k] = x.h[k] /\ x.h[k] # u
  <2>1. y = [h |-> y.h, l |-> y.l]
    BY Zenon
  <2>2. y.l \in [SendSocks -> Nat]
    BY <1>1
  <2>3. y.h = Append(x.h, u)
    BY Zenon
  <2> HIDE DEF y
  <2>4. /\ y.h \in Seq(SendSocks) /\ Len(y.h) = n + 1 /\ y.h[n + 1] = u
        /\ \A k \in 1..n : y.h[k] = x.h[k]
    BY <1>1, <2>3
  <2>5. \A k \in 1..n : x.h[k] # u
    <3>1. ASSUME NEW k \in 1..n, x.h[k] = u PROVE FALSE
      <4>1. x.l[u] = k /\ k # 0
        BY <1>1, <3>1
      <4> QED
        BY <4>1
    <3> QED
      BY <3>1
  <2> HIDE DEF n
  <2>6. y \in Heaps
    BY <2>1, <2>2, <2>4, Zenon DEF Heaps
  <2> QED
    BY <2>4, <2>5, <2>6
<1>3. \A v \in SendSocks : y.l[v] = IF v = u THEN n + 1 ELSE x.l[v]
  BY <1>1
<1>4. S!insert_(x, d, u) = S!Up(y, d, n + 1)
  BY Zenon DEF S!insert_
<1> HIDE DEF y, n
<1>5. ASSUME NEW k \in 1..(n + 1) PROVE y.l[y.h[k]] = k
  <2>1. CASE k = n + 1
    BY <1>2, <1>3, <2>1
  <2>2. CASE k # n + 1
    <3>1. k \in 1..n
      BY <1>1, <2>2
    <3> QED
      BY <1>1, <1>2, <1>3, <3>1
  <2> QED
    BY <2>1, <2>2
<1>6. ASSUME NEW v \in SendSocks, y.l[v] # 0 PROVE y.l[v] \in 1..(n + 1) /\ y.h[y.l[v]] = v
  <2>1. CASE v = u
    BY <1>1, <1>2, <1>3, <2>1
  <2>2. CASE v # u
    <3>1. x.l[v] \in 1..n /\ x.h[x.l[v]] = v /\ y.l[v] = x.l[v]
      BY <1>1, <1>3, <1>6, <2>2
    <3> QED
      BY <1>1, <1>2, <3>1
  <2> QED
    BY <2>1, <2>2
<1>7. Agree(y, {}) /\ n + 1 \in 1..Len(y.h)
  BY <1>1, <1>2, <1>5, <1>6 DEF Agree
<1> QED
  BY <1>4, <1>7, UpAgrees

LEMMA RemoveAgrees ==
    ASSUME NEW x, Agree(x, {}), NEW u \in SendSocks, NEW d \in [SendSocks -> Int]
    PROVE  Agree(S!remove_(x, d, u), {}) /\ S!remove_(x, d, u).l[u] = 0
<1> DEFINE n == Len(x.h)
           gap == x.l[u]
           y == [h |-> SubSeq([x.h EXCEPT ![gap] = x.h[n]], 1, n - 1),
                 l |-> [x.l EXCEPT ![x.h[n]] = gap]]
           z == IF gap = n THEN y ELSE S!Down(y, d, gap)
<1>1. /\ x.h \in Seq(SendSocks) /\ n \in Nat /\ x.l \in [SendSocks -> Nat]
      /\ \A k \in 1..n : x.h[k] \in SendSocks /\ x.l[x.h[k]] = k
      /\ \A v \in SendSocks : x.l[v] # 0 => x.l[v] \in 1..n /\ x.h[x.l[v]] = v
  BY DEF Agree, Heaps
<1>2. CASE gap = 0
  BY <1>2 DEF S!remove_
<1>3. CASE gap # 0
  <2>1. gap \in 1..n /\ x.h[gap] = u /\ n \in 1..n /\ n - 1 \in Nat
    BY <1>1, <1>3
  <2>2. S!remove_(x, d, u) = [z EXCEPT !.l[u] = 0]
    BY <1>3, Zenon DEF S!remove_
  <2>3. /\ y \in Heaps /\ Len(y.h) = n - 1
        /\ \A k \in 1..(n - 1) : y.h[k] = IF k = gap THEN x.h[n] ELSE x.h[k]
        /\ \A v \in SendSocks : y.l[v] = IF v = x.h[n] THEN gap ELSE x.l[v]
    <3> DEFINE h == [x.h EXCEPT ![gap] = x.h[n]]
    <3>1. h \in Seq(SendSocks) /\ Len(h) = n /\ \A k \in 1..n : h[k] = IF k = gap THEN x.h[n] ELSE x.h[k]
      BY <1>1, <2>1
    <3>2. y.l \in [SendSocks -> Nat] /\ \A v \in SendSocks : y.l[v] = IF v = x.h[n] THEN gap ELSE x.l[v]
      BY <1>1, <2>1
    <3>3. y.h = SubSeq(h, 1, n - 1)
      BY Zenon
    <3>4. y = [h |-> y.h, l |-> y.l]
      BY Zenon
    <3> HIDE DEF h, n, y
    <3>5. y.h \in Seq(SendSocks) /\ Len(y.h) = n - 1 /\ \A k \in 1..(n - 1) : y.h[k] = h[k]
      BY <1>1, <2>1, <3>1, <3>3
    <3>6. y \in Heaps
      BY <3>2, <3>4, <3>5, Zenon DEF Heaps
    <3>7. ASSUME NEW k \in 1..(n - 1) PROVE y.h[k] = IF k = gap THEN x.h[n] ELSE x.h[k]
      <4>1. k \in 1..n
        BY <1>1, <3>7
      <4> QED
        BY <3>1, <3>5, <4>1, Zenon
    <3> QED
      BY <3>2, <3>5, <3>6, <3>7, Zenon
  <2> HIDE DEF y, n
  <2>4. ASSUME NEW k \in 1..(n - 1) PROVE y.h[k] \notin {u} /\ y.l[y.h[k]] = k
    <3>1. k \in 1..n /\ k # n
      BY <1>1, <2>4
    <3>2. CASE k = gap
      <4>1. y.h[k] = x.h[n] /\ x.h[n] \in SendSocks
        BY <1>1, <2>1, <2>3, <3>2, Zenon
      <4>2. y.l[x.h[n]] = gap
        BY <2>3, <4>1, Zenon
      <4>3. x.h[n] # u
        <5>1. x.l[x.h[n]] = n
          BY <1>1, <2>1, Zenon
        <5> QED
          BY <3>1, <3>2, <5>1, Zenon
      <4> QED
        BY <3>2, <4>1, <4>2, <4>3, Zenon
    <3>3. CASE k # gap
      <4>1. y.h[k] = x.h[k] /\ x.h[k] \in SendSocks /\ x.l[x.h[k]] = k
        BY <1>1, <2>3, <3>1, <3>3, Zenon
      <4>2. x.h[k] # u
        BY <3>3, <4>1, Zenon
      <4>3. x.h[k] # x.h[n]
        BY <1>1, <2>1, <3>1, <4>1, Zenon
      <4>4. y.l[x.h[k]] = k
        BY <2>3, <4>1, <4>3, Zenon
      <4> QED
        BY <4>1, <4>2, <4>4, Zenon
    <3> QED
      BY <3>2, <3>3, Zenon
  <2>5. ASSUME NEW v \in SendSocks \ {u}, y.l[v] # 0 PROVE y.l[v] \in 1..(n - 1) /\ y.h[y.l[v]] = v
    <3>1. CASE v = x.h[n]
      <4>1. gap # n
        BY <2>1, <2>5, <3>1
      <4>2. gap \in 1..(n - 1)
        BY <1>1, <2>1, <4>1
      <4> QED
        BY <2>3, <3>1, <4>2
    <3>2. CASE v # x.h[n]
      <4>1. y.l[v] = x.l[v] /\ x.l[v] \in 1..n /\ x.h[x.l[v]] = v
        BY <1>1, <2>3, <2>5, <3>2
      <4>2. x.l[v] # n /\ x.l[v] # gap
        BY <2>1, <2>5, <3>2, <4>1
      <4>3. x.l[v] \in 1..(n - 1)
        BY <1>1, <4>1, <4>2
      <4> QED
        BY <2>3, <4>1, <4>2, <4>3
    <3> QED
      BY <3>1, <3>2
  <2>6. Agree(y, {u})
    BY <2>3, <2>4, <2>5 DEF Agree
  <2>7. Agree(z, {u})
    <3>1. CASE gap = n
      BY <2>6, <3>1
    <3>2. CASE gap # n
      <4>1. gap \in 1..Len(y.h)
        BY <1>1, <2>1, <2>3, <3>2
      <4>2. Agree(S!Down(y, d, gap), {u})
        BY <2>6, <4>1, DownAgrees
      <4> QED
        BY <3>2, <4>2
    <3> QED
      BY <3>1, <3>2
  <2> HIDE DEF z
  <2> DEFINE r == [z EXCEPT !.l[u] = 0]
  <2>8. r.h = z.h /\ r.l = [z.l EXCEPT ![u] = 0] /\ r \in Heaps
    BY <2>7 DEF Agree, Heaps
  <2>9. z.l \in [SendSocks -> Nat] /\ z.h \in Seq(SendSocks)
    BY <2>7 DEF Agree, Heaps
  <2>10. \A v \in SendSocks : r.l[v] = IF v = u THEN 0 ELSE z.l[v]
    BY <2>8, <2>9
  <2> HIDE DEF r
  <2>11. Agree(r, {})
    BY <2>7, <2>8, <2>9, <2>10 DEF Agree
  <2> QED
    BY <2>2, <2>10, <2>11 DEF r
<1> QED
  BY <1>2, <1>3

\* The sockets of the heap know their places, and the others that they have none.
HeapInv == Agree(S!Heap, {}) /\ due \in [SendSocks -> Int]

LEMMA HeapBegins == ASSUME S!Init PROVE HeapInv
  BY DEF S!Init, HeapInv, Agree, Heaps, S!Heap

LEMMA HeapIs == ASSUME HeapInv PROVE S!PlacesAgree
  BY DEF HeapInv, Agree, Heaps, S!Heap, S!PlacesAgree

LEMMA HeapBecomes ==
    ASSUME NEW x, Agree(x, {}), S!Becomes(x), due' \in [SendSocks -> Int] PROVE HeapInv'
<1>1. x = [h |-> heap', l |-> loc']
  BY DEF Agree, Heaps, S!Becomes
<1> QED
  BY <1>1 DEF HeapInv, S!Heap

LEMMA HeapStays == ASSUME HeapInv, UNCHANGED <<heap, loc, due>> PROVE HeapInv'
  BY DEF HeapInv, S!Heap

LEMMA UpdateAgrees ==
    ASSUME HeapInv, NEW u \in SendSocks, NEW again \in BOOLEAN, S!update(u, again) PROVE HeapInv'
<1>1. due \in [SendSocks -> Int] /\ due' = [due EXCEPT ![u] = 0] /\ due' \in [SendSocks -> Int]
  BY DEF HeapInv, S!update
<1>2. S!Becomes(IF loc[u] = 1 THEN S!Heap ELSE S!insert_(S!remove_(S!Heap, due, u), due', u))
  BY DEF S!update
<1>3. Agree(S!remove_(S!Heap, due, u), {}) /\ S!remove_(S!Heap, due, u).l[u] = 0
  BY <1>1, RemoveAgrees DEF HeapInv
<1>4. Agree(S!insert_(S!remove_(S!Heap, due, u), due', u), {})
  BY <1>3, InsertAgrees
<1>5. Agree(S!Heap, {})
  BY DEF HeapInv
<1>6. CASE loc[u] = 1
  <2>1. S!Becomes(S!Heap)
    BY <1>2, <1>6
  <2> QED
    BY <1>1, <1>5, <2>1, HeapBecomes
<1>7. CASE loc[u] # 1
  <2>1. S!Becomes(S!insert_(S!remove_(S!Heap, due, u), due', u))
    BY <1>2, <1>7
  <2> QED
    BY <1>1, <1>4, <2>1, HeapBecomes
<1> QED
  BY <1>6, <1>7

LEMMA PopAgrees == ASSUME S!Given, HeapInv, S!pop PROVE HeapInv'
<1> DEFINE u == heap[1]
           rest == S!remove_(S!Heap, due, u)
<1>1. Agree(S!Heap, {}) /\ due \in [SendSocks -> Int] /\ heap \in Seq(SendSocks)
  BY DEF HeapInv, Agree, Heaps, S!Heap
<1>2. CASE heap = << >> \/ due[u] > 0
  BY <1>2, HeapStays DEF S!pop
<1>3. CASE ~(heap = << >> \/ due[u] > 0)
  <2>1. u \in SendSocks
    BY <1>1, <1>3
  <2> HIDE DEF u
  <2>2. Agree(rest, {}) /\ rest.l[u] = 0
    BY <1>1, <2>1, RemoveAgrees
  <2>3. CASE S!Becomes(rest) /\ UNCHANGED due
    BY <1>1, <2>2, <2>3, HeapBecomes
  <2>4. CASE \E d \in 0..MaxWait : due' = [due EXCEPT ![u] = d] /\ S!Becomes(S!insert_(rest, due', u))
    <3>1. PICK d \in 0..MaxWait : due' = [due EXCEPT ![u] = d] /\ S!Becomes(S!insert_(rest, due', u))
      BY <2>4
    <3>2. due' \in [SendSocks -> Int]
      <4>1. d \in Int
        BY DEF S!Given
      <4> QED
        BY <1>1, <2>1, <3>1, <4>1
    <3>3. Agree(S!insert_(rest, due', u), {})
      BY <2>1, <2>2, InsertAgrees
    <3> QED
      BY <3>1, <3>2, <3>3, HeapBecomes
  <2> QED
    BY <1>3, <2>3, <2>4 DEF S!pop, u
<1> QED
  BY <1>2, <1>3

LEMMA HeapStepKeeps == ASSUME S!Given, HeapInv, [S!Next]_S!vars PROVE HeapInv'
<1>1. CASE \E u \in SendSocks : S!update(u, TRUE) \/ S!update(u, FALSE)
  BY <1>1, UpdateAgrees
<1>2. CASE \E u \in SendSocks : S!remove(u)
  <2>1. PICK u \in SendSocks : S!remove(u)
    BY <1>2
  <2>2. S!Becomes(S!remove_(S!Heap, due, u)) /\ due' \in [SendSocks -> Int]
    BY <2>1 DEF S!remove, HeapInv
  <2>3. Agree(S!remove_(S!Heap, due, u), {})
    BY RemoveAgrees DEF HeapInv
  <2> QED
    BY <2>2, <2>3, HeapBecomes
<1>3. CASE \E u \in SendSocks : S!break(u)
  BY <1>3, HeapStays DEF S!break
<1>4. CASE S!Signal \/ S!Close
  BY <1>4, HeapStays DEF S!Signal, S!Close
<1>5. CASE S!Exit \/ S!getNextProcTime \/ S!Wait \/ S!Sleep \/ S!WakeUp
  BY <1>5, HeapStays DEF S!Exit, S!getNextProcTime, S!Wait, S!Sleep, S!WakeUp
<1>6. CASE S!pop
  BY <1>6, PopAgrees
<1>7. CASE S!Tick
  <2>1. heap' = heap /\ loc' = loc /\ due' = [u \in SendSocks |-> S!Less(due[u])]
    BY <1>7 DEF S!Tick
  <2>2. due' \in [SendSocks -> Int]
    BY <2>1 DEF S!Less, HeapInv
  <2> QED
    BY <2>1, <2>2 DEF HeapInv, S!Heap
<1>8. CASE UNCHANGED S!vars
  BY <1>8, HeapStays DEF S!vars
<1> QED
  BY <1>1, <1>2, <1>3, <1>4, <1>5, <1>6, <1>7, <1>8 DEF S!Next, S!Worker

\* Updates, removals from the middle and the worker's pop leave every socket knowing its
\* place on the heap of CSndUList, or that it has none: none is on it twice or lost from it.
THEOREM HeapPlacesAgree == ASSUME S!Given PROVE S!Spec => []S!PlacesAgree
<1>1. S!Init => HeapInv
  BY HeapBegins
<1>2. HeapInv /\ [S!Next]_S!vars => HeapInv'
  BY HeapStepKeeps
<1>3. HeapInv => S!PlacesAgree
  BY HeapIs
<1> QED
  BY <1>1, <1>2, <1>3, PTL DEF S!Spec
=============================================================================
