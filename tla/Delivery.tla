------------------------------ MODULE Delivery ------------------------------
(***************************************************************************)
(* What the receiver's buffer of UDT promises (the comments of              *)
(* udt/src/buffer.h).  A stream: the bytes acknowledged are read in order,    *)
(* none twice.  A datagram socket: a read returns all packets of one message  *)
(* and nothing else, no message twice, and messages that ask for order in     *)
(* their order.  Packets are numbered 0..Packets - 1 and round again, and      *)
(* what was returned long ago is forgotten.                                  *)
(***************************************************************************)
EXTENDS Integers, Sequences

CONSTANTS Size,      \* packets the buffer holds
          Bytes,     \* bytes in a packet
          Packets,
          MsgOf,     \* the first packet of the message a packet belongs to
          Unordered  \* the messages (first packets) that may be read out of order

VARIABLES bytes,  \* acknowledged and not read yet
          base,   \* the next packet to be acknowledged
          given,  \* packets returned lately
          ret     \* what the last read returned
-----------------------------------------------------------------------------
(* The stream. *)

\* The bytes of n packets from the one numbered s on.
Block(s, n) == [i \in 1..(n * Bytes) |->
                  <<(s + (i - 1) \div Bytes) % Packets, ((i - 1) % Bytes) + 1>>]

StreamInit == bytes = <<>> /\ base = 0 /\ ret = <<>>

Ack(n) == /\ bytes' = bytes \o Block(base, n) /\ base' = (base + n) % Packets
          /\ UNCHANGED ret

Read(n) == /\ ret' = SubSeq(bytes, 1, n) /\ bytes' = SubSeq(bytes, n + 1, Len(bytes))
           /\ UNCHANGED base

StreamNext == (\E n \in 1..Packets : Ack(n)) \/ \E n \in 0..Len(bytes) : Read(n)

StreamSpec == StreamInit /\ [][StreamNext]_<<bytes, base, ret>>
-----------------------------------------------------------------------------
(* The messages. *)

Message(m) == [i \in 1..(CHOOSE n \in 1..Packets :
                           /\ \A k \in 0..(n - 1) : MsgOf[(m + k) % Packets] = m
                           /\ MsgOf[(m + n) % Packets] # m) |-> (m + i - 1) % Packets]

Later(s, m) == (s - m + Packets) % Packets \in 1..Size

MessageInit == given = {} /\ ret = <<>>

Return(m) == LET parts == {Message(m)[i] : i \in DOMAIN Message(m)} IN
             /\ parts \cap given = {}
             /\ m \notin Unordered
                  => \A s \in given : MsgOf[s] \in Unordered \/ ~Later(s, m)
             /\ ret' = Message(m) /\ given' = given \cup parts

NoMessage == ret' = <<>> /\ UNCHANGED given

Forget == given' \subseteq given /\ UNCHANGED ret

MessageNext == Forget \/ NoMessage \/ \E s \in 0..(Packets - 1) : MsgOf[s] = s /\ Return(s)

MessageSpec == MessageInit /\ [][MessageNext]_<<given, ret>>
=============================================================================
