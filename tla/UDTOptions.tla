---- MODULE UDTOptions ----
\* The sizes that the options of two UDT sockets agree on: each is set before or after
\* open, clamped by the others, copied to the connection the listener makes, and told to
\* the peer in a handshake that may be repeated (core.cpp CUDT::setOpt, getOpt, open, both
\* connects; api.cpp newConnection).  Left out are the options that no size depends on:
\* flags, timers, the congestion control, the rate.
EXTENDS Naturals, TLAPS

CONSTANTS MSSs, FCs, Bytes, UDPs,  \* values callers give to UDT_MSS, UDT_FC, the UDT and UDP buffers
          MaxSets,                 \* bounds the calls of setOpt
          Lowered                  \* TRUE: UDT_FC may go below the buffer it limits

VARIABLES opt,       \* [Ends -> Options]: the sizes of each CUDT
          status,    \* [Ends -> ...]: m_bOpened, m_bListening, m_bConnecting, m_bConnected
          unit,      \* [Ends -> Nat]: the units of the receiving queue each socket uses
          conn,      \* [Ends -> ...]: window granted and loss lists, once connected
          responses, \* handshakes on their way to the client
          sets       \* calls of setOpt made

optVars == <<opt, status, unit, conn, responses, sets>>

Ends == {"client", "listener", "child"}
Partner(e) == IF e = "client" THEN "child" ELSE "client"
None == [flow |-> 0, sndLoss |-> 0, rcvLoss |-> 0]
Min2(a, b) == IF a < b THEN a ELSE b
Max2(a, b) == IF a > b THEN a ELSE b

\* UDP header, UDT header, handshake.
Header == 28
PktHdr == 16
Contents == 48
MinPackets == 32

\* m_iPayloadSize, and packets in so many bytes.
Payload(mss) == mss - Header - PktHdr
Packets(o, v) == v \div (o.mss - Header)
-----------------------------------------------------------------------------
\* The constructor's.
Default == [mss |-> 1500, fc |-> 25600, snd |-> 8192, rcv |-> 8192,
            udpsnd |-> 65536, udprcv |-> 8192 * 1500]

Init == /\ opt = [e \in Ends |-> Default]
        /\ status = [e \in Ends |-> IF e = "child" THEN "none" ELSE "init"]
        /\ unit = [e \in Ends |-> 0] /\ conn = [e \in Ends |-> None]
        /\ responses = {} /\ sets = 0

Names == {"mss", "fc", "snd", "rcv", "udpsnd", "udprcv"}
Values(name) == CASE name = "mss" -> MSSs [] name = "fc" -> FCs
                  [] name \in {"snd", "rcv"} -> Bytes [] OTHER -> UDPs

\* What setOpt refuses: a size that is too small, an open socket, a connected one.
Refused(e, name, v) ==
    \/ name = "fc" /\ (status[e] \in {"connecting", "connected"} \/ v < 1)
    \/ name # "fc" /\ status[e] # "init"
    \/ name = "mss" /\ v < Header + Contents
    \/ name \in {"snd", "rcv"} /\ v = 0

\* Mutant: the buffer is not limited to the flight flag size.
Stored_Unlimited(o, name, v) ==
    CASE name = "mss" -> Min2(v, Min2(o.udpsnd, o.udprcv))
      [] name = "fc"  -> Max2(v, MinPackets)
      [] name = "snd" -> Packets(o, v)
      [] name = "rcv" -> Max2(Packets(o, v), MinPackets)
      [] OTHER        -> Max2(v, o.mss)

Stored(o, name, v) ==
    CASE name = "mss" -> Min2(v, Min2(o.udpsnd, o.udprcv))
      [] name = "fc"  -> Max2(v, MinPackets)
      [] name = "snd" -> Packets(o, v)
      [] name = "rcv" -> Min2(Max2(Packets(o, v), MinPackets), o.fc)
      [] OTHER        -> Max2(v, o.mss)

setOpt(e, name, v) ==
    /\ e # "child" /\ ~Refused(e, name, v) /\ sets < MaxSets
    /\ name = "fc" => Lowered \/ Stored(opt[e], name, v) >= opt[e].rcv
    /\ opt' = [opt EXCEPT ![e][name] = Stored(opt[e], name, v)]
    /\ sets' = sets + 1
    /\ UNCHANGED <<status, unit, conn, responses>>

getOpt(e, name) == IF name \in {"snd", "rcv"} THEN opt[e][name] * (opt[e].mss - Header)
                                              ELSE opt[e][name]

\* bind, or connect of a socket that was not bound: the queue gets units of one payload.
open(e) == /\ status[e] = "init"
           /\ status' = [status EXCEPT ![e] = "opened"]
           /\ unit' = [unit EXCEPT ![e] = Payload(opt[e].mss)]
           /\ UNCHANGED <<opt, conn, responses, sets>>

listen == /\ status["listener"] = "opened"
          /\ status' = [status EXCEPT !["listener"] = "listening"]
          /\ UNCHANGED <<opt, unit, conn, responses, sets>>

\* connect(serv_addr): what the request says is read off the client, which cannot change it.
connect == /\ status["client"] = "opened"
           /\ status' = [status EXCEPT !["client"] = "connecting"]
           /\ UNCHANGED <<opt, unit, conn, responses, sets>>

\* What an end takes at first: its buffer, but not more than its loss list.
Window(o) == Min2(o.rcv, o.fc)

Connected(o, window) == [flow |-> window, sndLoss |-> 2 * window, rcvLoss |-> o.fc]

\* The request makes a connection: a copy of the listener with the smaller packets, on the
\* listener's queue.
newConnection ==
    /\ status["client"] = "connecting" /\ status["listener"] = "listening"
    /\ status["child"] = "none"
    /\ LET o == [opt["listener"] EXCEPT !.mss = Min2(@, opt["client"].mss)]
       IN /\ opt' = [opt EXCEPT !["child"] = o]
          /\ conn' = [conn EXCEPT !["child"] = Connected(o, Window(opt["client"]))]
          /\ responses' = {[mss |-> o.mss, window |-> Window(o)]}
    /\ status' = [status EXCEPT !["child"] = "connected"]
    /\ unit' = [unit EXCEPT !["child"] = unit["listener"]]
    /\ UNCHANGED sets

\* A request that is repeated is answered with the flight flag size.
Repeated == /\ status["client"] = "connecting" /\ status["child"] = "connected"
            /\ responses' = responses \cup {[mss |-> opt["child"].mss, window |-> opt["child"].fc]}
            /\ UNCHANGED <<opt, status, unit, conn, sets>>

\* connect(response): the first that arrives.
postConnect(r) ==
    /\ status["client"] = "connecting"
    /\ opt' = [opt EXCEPT !["client"].mss = r.mss]
    /\ conn' = [conn EXCEPT !["client"] = Connected(opt["client"], r.window)]
    /\ status' = [status EXCEPT !["client"] = "connected"]
    /\ UNCHANGED <<unit, responses, sets>>

\* An acknowledgement grants what is free of the buffer, two packets at least.
Acknowledge(e) ==
    /\ status[e] = "connected" /\ status[Partner(e)] = "connected" /\ e # "listener"
    /\ \E room \in {2, opt[e].rcv - 1} : conn' = [conn EXCEPT ![Partner(e)].flow = room]
    /\ UNCHANGED <<opt, status, unit, responses, sets>>

Next == \/ \E e \in Ends, name \in Names : \E v \in Values(name) : setOpt(e, name, v)
        \/ \E e \in {"client", "listener"} : open(e)
        \/ listen \/ connect \/ newConnection \/ Repeated
        \/ \E r \in responses : postConnect(r)
        \/ \E e \in {"client", "child"} : Acknowledge(e)
-----------------------------------------------------------------------------
Up == {e \in {"client", "child"} : conn[e] # None /\ conn[Partner(e)] # None}

\* Whatever was set in whichever order, a packet of one end fits the units of the queue
\* that receives it and the UDP buffers of both (open sizes the units, connect negotiates).
PacketsFit == \A e \in Up : /\ opt[e].mss = opt[Partner(e)].mss
                            /\ Payload(opt[e].mss) <= unit[Partner(e)]
                            /\ opt[e].mss <= Min2(opt[e].udpsnd, opt[Partner(e)].udprcv)

\* The packets on their way fit the loss lists of both ends, which are arrays, also after a
\* repeated request was answered with another window ("recv buffer MUST not be greater than
\* FC size"; the sender's list has twice the window).
WindowsFit == \A e \in Up : /\ Min2(conn[e].flow, opt[Partner(e)].rcv) <= conn[Partner(e)].rcvLoss
                            /\ 2 * conn[e].flow <= conn[e].sndLoss

\* An option that is set to what getOpt reads stays as it is.
ReadsBack == \A e \in Ends, name \in Names :
                status[e] = "init" /\ ~Refused(e, name, getOpt(e, name))
                    => Stored(opt[e], name, getOpt(e, name)) = opt[e][name]

\* Sizes that were set, negotiated and granted agree on both ends of every connection.
SizesAgree == PacketsFit /\ WindowsFit /\ ReadsBack
-----------------------------------------------------------------------------
(* That SizesAgree holds whatever values are set: its inductive invariant.    *)

Sizes == [mss : Nat, fc : Nat, snd : Nat, rcv : Nat, udpsnd : Nat, udprcv : Nat]
Grants == [flow : Nat, sndLoss : Nat, rcvLoss : Nat]

Types == /\ opt \in [Ends -> Sizes] /\ unit \in [Ends -> Nat] /\ conn \in [Ends -> Grants]
         /\ status \in [Ends -> {"none", "init", "opened", "listening", "connecting", "connected"}]
         /\ status["client"] \in {"init", "opened", "connecting", "connected"}
         /\ status["listener"] \in {"init", "opened", "listening"}
         /\ status["child"] \in {"none", "connected"}
         /\ responses \in SUBSET [mss : Nat, window : Nat] /\ sets \in Nat

\* A packet fits the UDP buffers, the buffer its limit.
Limits(o) == /\ o.mss >= Header + Contents /\ o.mss <= o.udpsnd /\ o.mss <= o.udprcv
             /\ o.rcv >= MinPackets /\ o.rcv <= o.fc

\* The units are those of the size at open, which only the handshake lowers.
Units == \A e \in {"client", "listener"} : status[e] # "init" => Payload(opt[e].mss) <= unit[e]

\* What an end was granted covers the buffer of the other.
Granted(e) == /\ conn[e].rcvLoss = opt[e].fc
              /\ conn[e].sndLoss >= 2 * opt[Partner(e)].rcv /\ 2 * conn[e].flow <= conn[e].sndLoss

ChildOK ==
    IF status["child"] = "none" THEN responses = {} /\ conn["child"] = None
    ELSE /\ status["client"] \in {"connecting", "connected"} /\ status["listener"] = "listening"
         /\ opt["child"].mss <= opt["client"].mss /\ Payload(opt["child"].mss) <= unit["child"]
         /\ Granted("child")
         /\ \A r \in responses : r.mss = opt["child"].mss /\ r.window >= opt["child"].rcv

ClientOK ==
    IF status["client"] # "connected" THEN conn["client"] = None
    ELSE status["child"] = "connected" /\ opt["client"].mss = opt["child"].mss /\ Granted("client")

Inv == Types /\ (\A e \in Ends : Limits(opt[e])) /\ Units /\ ChildOK /\ ClientOK

LEMMA Divides ==
    ASSUME NEW a \in Nat, NEW b \in Nat \ {0}
    PROVE  a \div b \in Nat /\ (a * b) \div b = a
  OBVIOUS

LEMMA Constants == Header = 28 /\ PktHdr = 16 /\ Contents = 48 /\ MinPackets = 32
  BY DEF Header, PktHdr, Contents, MinPackets

LEMMA EndsAre == /\ Ends = {"client", "listener", "child"}
                 /\ Partner("client") = "child" /\ Partner("child") = "client"
  BY DEF Ends, Partner

\* What is stored keeps the limits.
LEMMA StoredKeeps ==
    ASSUME NEW o \in Sizes, Limits(o), NEW name \in Names, NEW v \in Nat,
           name = "mss" => v >= Header + Contents,
           name = "fc" => Stored(o, name, v) >= o.rcv
    PROVE  /\ Stored(o, name, v) \in Nat
           /\ [o EXCEPT ![name] = Stored(o, name, v)] \in Sizes
           /\ Limits([o EXCEPT ![name] = Stored(o, name, v)])
<1> DEFINE n == Stored(o, name, v)
<1>0. /\ o.mss \in Nat /\ o.fc \in Nat /\ o.snd \in Nat /\ o.rcv \in Nat
      /\ o.udpsnd \in Nat /\ o.udprcv \in Nat
  BY DEF Sizes
<1>1. Packets(o, v) \in Nat
  BY <1>0, Divides, Constants DEF Limits, Packets
<1>2. CASE name = "mss"
  <2>1. n = Min2(v, Min2(o.udpsnd, o.udprcv))
    BY <1>2 DEF Stored
  <2>2. n \in Nat /\ n >= Header + Contents /\ n <= o.udpsnd /\ n <= o.udprcv
    BY <1>0, <1>2, <2>1, Constants DEF Limits, Min2
  <2> HIDE DEF n
  <2>3. [o EXCEPT ![name] = n] = [o EXCEPT !.mss = n]
    BY <1>2
  <2>4. [o EXCEPT !.mss = n] \in Sizes /\ Limits([o EXCEPT !.mss = n])
    BY <2>2 DEF Sizes, Limits
  <2> QED
    BY <2>2, <2>3, <2>4 DEF n
<1>3. CASE name = "fc"
  <2>1. n = Max2(v, MinPackets)
    BY <1>3 DEF Stored
  <2>2. n \in Nat /\ o.rcv <= n
    BY <1>0, <1>1, <1>3, <2>1, Constants DEF Limits, Min2, Max2
  <2> HIDE DEF n
  <2>3. [o EXCEPT ![name] = n] = [o EXCEPT !.fc = n]
    BY <1>3
  <2>4. [o EXCEPT !.fc = n] \in Sizes /\ Limits([o EXCEPT !.fc = n])
    BY <2>2 DEF Sizes, Limits
  <2> QED
    BY <2>2, <2>3, <2>4 DEF n
<1>4. CASE name = "snd"
  <2>1. n = Packets(o, v)
    BY <1>4 DEF Stored
  <2>2. n \in Nat
    BY <1>0, <1>1, <1>4, <2>1, Constants DEF Limits, Min2, Max2
  <2> HIDE DEF n
  <2>3. [o EXCEPT ![name] = n] = [o EXCEPT !.snd = n]
    BY <1>4
  <2>4. [o EXCEPT !.snd = n] \in Sizes /\ Limits([o EXCEPT !.snd = n])
    BY <2>2 DEF Sizes, Limits
  <2> QED
    BY <2>2, <2>3, <2>4 DEF n
<1>5. CASE name = "rcv"
  <2>1. n = Min2(Max2(Packets(o, v), MinPackets), o.fc)
    BY <1>5 DEF Stored
  <2>2. n \in Nat /\ n >= MinPackets /\ n <= o.fc
    BY <1>0, <1>1, <1>5, <2>1, Constants DEF Limits, Min2, Max2
  <2> HIDE DEF n
  <2>3. [o EXCEPT ![name] = n] = [o EXCEPT !.rcv = n]
    BY <1>5
  <2>4. [o EXCEPT !.rcv = n] \in Sizes /\ Limits([o EXCEPT !.rcv = n])
    BY <2>2 DEF Sizes, Limits
  <2> QED
    BY <2>2, <2>3, <2>4 DEF n
<1>6. CASE name = "udpsnd"
  <2>1. n = Max2(v, o.mss)
    BY <1>6 DEF Stored
  <2>2. n \in Nat /\ o.mss <= n
    BY <1>0, <1>1, <1>6, <2>1, Constants DEF Limits, Min2, Max2
  <2> HIDE DEF n
  <2>3. [o EXCEPT ![name] = n] = [o EXCEPT !.udpsnd = n]
    BY <1>6
  <2>4. [o EXCEPT !.udpsnd = n] \in Sizes /\ Limits([o EXCEPT !.udpsnd = n])
    BY <2>2 DEF Sizes, Limits
  <2> QED
    BY <2>2, <2>3, <2>4 DEF n
<1>7. CASE name = "udprcv"
  <2>1. n = Max2(v, o.mss)
    BY <1>7 DEF Stored
  <2>2. n \in Nat /\ o.mss <= n
    BY <1>0, <1>1, <1>7, <2>1, Constants DEF Limits, Min2, Max2
  <2> HIDE DEF n
  <2>3. [o EXCEPT ![name] = n] = [o EXCEPT !.udprcv = n]
    BY <1>7
  <2>4. [o EXCEPT !.udprcv = n] \in Sizes /\ Limits([o EXCEPT !.udprcv = n])
    BY <2>2 DEF Sizes, Limits
  <2> QED
    BY <2>2, <2>3, <2>4 DEF n
<1> QED
  BY <1>2, <1>3, <1>4, <1>5, <1>6, <1>7 DEF Names

\* Of the values callers give: they are numbers, and UDT_FC stays above the buffer it limits.
Called == /\ MSSs \subseteq Nat /\ FCs \subseteq Nat /\ Bytes \subseteq Nat /\ UDPs \subseteq Nat
          /\ ~Lowered

LEMMA InitInv == Init => Inv
<1> SUFFICES ASSUME Init PROVE Inv
  OBVIOUS
<1> USE EndsAre, Constants
<1>1. Default \in Sizes /\ Limits(Default)
  BY DEF Default, Sizes, Limits
<1>2. None \in Grants
  BY DEF None, Grants
<1>3. Types
  BY <1>1, <1>2 DEF Init, Types
<1>4. \A e \in Ends : Limits(opt[e])
  BY <1>1 DEF Init
<1> QED
  BY <1>3, <1>4 DEF Init, Inv, Units, ChildOK, ClientOK

LEMMA SetInv ==
    ASSUME Called, Inv, NEW e \in Ends, NEW name \in Names, NEW v \in Values(name), setOpt(e, name, v)
    PROVE  Inv'
<1> USE EndsAre, Constants
<1> DEFINE new == [opt[e] EXCEPT ![name] = Stored(opt[e], name, v)]
<1>1. v \in Nat
  BY DEF Called, Values, Names
<1>2. /\ e # "child" /\ ~Refused(e, name, v) /\ UNCHANGED <<status, unit, conn, responses>>
      /\ name = "fc" => Stored(opt[e], name, v) >= opt[e].rcv
      /\ opt' = [opt EXCEPT ![e][name] = Stored(opt[e], name, v)] /\ sets' = sets + 1
  BY DEF setOpt, Called
<1>3. opt[e] \in Sizes /\ Limits(opt[e])
  BY DEF Inv, Types
<1>4. new \in Sizes /\ Limits(new)
  BY <1>1, <1>2, <1>3, StoredKeeps DEF Refused
<1>5. opt' = [opt EXCEPT ![e] = new]
  BY <1>2 DEF Inv, Types
<1>6. name # "fc" => status[e] = "init"
  BY <1>2 DEF Refused
<1>7. name = "fc" => /\ status[e] \notin {"connecting", "connected"} 
                     /\ new.mss = opt[e].mss
  BY <1>2, <1>3 DEF Refused, Sizes
<1> HIDE DEF new
<1>8. opt' \in [Ends -> Sizes] /\ opt'[e] = new /\ \A d \in Ends : d # e => opt'[d] = opt[d]
  BY <1>4, <1>5 DEF Inv, Types
<1>9. Types' /\ \A d \in Ends : Limits(opt[d])'
  BY <1>2, <1>4, <1>8 DEF Inv, Types
<1>10. Units'
  BY <1>2, <1>6, <1>7, <1>8 DEF Inv, Units, Types
<1>11. status[e] \notin {"connecting", "connected", "listening"} \/ (e = "listener" /\ name = "fc")
  BY <1>2, <1>6, <1>7 DEF Inv, Types
<1>12. ChildOK' /\ ClientOK'
  BY <1>2, <1>8, <1>11 DEF Inv, Types, ChildOK, ClientOK, Granted
<1> QED
  BY <1>9, <1>10, <1>12 DEF Inv

\* open, listen and connect(serv_addr) change what a socket is doing.
LEMMA OpenInv ==
    ASSUME Inv, (\E e \in {"client", "listener"} : open(e)) \/ listen \/ connect
    PROVE  Inv'
<1> USE EndsAre, Constants
<1>0. UNCHANGED <<opt, conn, responses, sets>>
  BY DEF open, listen, connect
<1>1. CASE \E e \in {"client", "listener"} : open(e)
  <2>1. PICK e \in {"client", "listener"} : open(e)
    BY <1>1
  <2>2. /\ status[e] = "init" /\ status' = [status EXCEPT ![e] = "opened"]
        /\ unit' = [unit EXCEPT ![e] = Payload(opt[e].mss)]
    BY <2>1 DEF open
  <2>3. opt[e].mss \in Nat /\ opt[e].mss >= 76
    BY DEF Inv, Types, Sizes, Limits
  <2>4. Payload(opt[e].mss) \in Nat
    BY <2>3 DEF Payload
  <2>5. status["child"] = "none"
    BY <2>2 DEF Inv, Types, ChildOK
  <2>6. Types' /\ \A d \in Ends : Limits(opt[d])'
    BY <1>0, <2>2, <2>4 DEF Inv, Types
  <2>7. Units'
    BY <1>0, <2>2, <2>3, <2>4 DEF Inv, Types, Units, Payload
  <2>8. ChildOK' /\ ClientOK'
    BY <1>0, <2>2, <2>5 DEF Inv, Types, ChildOK, ClientOK
  <2> QED
    BY <2>6, <2>7, <2>8 DEF Inv
<1>2. CASE listen \/ connect
  <2>1. /\ UNCHANGED unit
        /\ \/ status["listener"] = "opened" /\ status' = [status EXCEPT !["listener"] = "listening"]
           \/ status["client"] = "opened" /\ status' = [status EXCEPT !["client"] = "connecting"]
    BY <1>2 DEF listen, connect
  <2>2. status["child"] = "none"
    BY <2>1 DEF Inv, Types, ChildOK
  <2>3. Types' /\ \A d \in Ends : Limits(opt[d])'
    BY <1>0, <2>1 DEF Inv, Types
  <2>4. Units' /\ ChildOK' /\ ClientOK'
    BY <1>0, <2>1, <2>2 DEF Inv, Types, Units, ChildOK, ClientOK
  <2> QED
    BY <2>3, <2>4 DEF Inv
<1> QED
  BY <1>1, <1>2

\* The window an end takes is its buffer.
LEMMA WindowIs ==
    ASSUME NEW o \in Sizes, Limits(o)
    PROVE  Window(o) = o.rcv /\ o.rcv \in Nat /\ o.fc \in Nat /\ o.rcv <= o.fc /\ o.mss \in Nat
  BY DEF Window, Min2, Sizes, Limits

LEMMA ConnectedIs ==
    ASSUME NEW o \in Sizes, NEW w \in Nat
    PROVE  /\ Connected(o, w) \in Grants /\ Connected(o, w).flow = w
           /\ Connected(o, w).sndLoss = 2 * w /\ Connected(o, w).rcvLoss = o.fc
  BY DEF Connected, Grants, Sizes

LEMMA NewConnectionInv ==
    ASSUME Inv, newConnection
    PROVE  Inv'
<1> USE EndsAre, Constants
<1> DEFINE o == [opt["listener"] EXCEPT !.mss = Min2(@, opt["client"].mss)]
           w == Window(opt["client"])
<1>1. /\ status["client"] = "connecting" /\ status["listener"] = "listening" /\ status["child"] = "none"
      /\ opt' = [opt EXCEPT !["child"] = o]
      /\ conn' = [conn EXCEPT !["child"] = Connected(o, w)]
      /\ responses' = {[mss |-> o.mss, window |-> Window(o)]}
      /\ status' = [status EXCEPT !["child"] = "connected"]
      /\ unit' = [unit EXCEPT !["child"] = unit["listener"]] /\ UNCHANGED sets
  BY DEF newConnection
<1>2. \A e \in Ends : opt[e] \in Sizes /\ Limits(opt[e])
  BY DEF Inv, Types
<1>3. /\ o \in Sizes /\ Limits(o) /\ o.mss <= opt["client"].mss /\ o.mss <= opt["listener"].mss
      /\ o.fc = opt["listener"].fc
  BY <1>2 DEF Sizes, Limits, Min2
<1>4. w = opt["client"].rcv /\ w \in Nat
  BY <1>2, WindowIs
<1> HIDE DEF o, w
<1>5. /\ Connected(o, w) \in Grants /\ Connected(o, w).flow = w
      /\ Connected(o, w).sndLoss = 2 * w /\ Connected(o, w).rcvLoss = o.fc
  BY <1>3, <1>4, ConnectedIs
<1>6. Window(o) = o.rcv /\ o.rcv \in Nat /\ o.mss \in Nat
  BY <1>3, WindowIs
<1>7. /\ opt' \in [Ends -> Sizes] /\ opt'["child"] = o /\ opt'["client"] = opt["client"]
      /\ opt'["listener"] = opt["listener"]
  BY <1>1, <1>3 DEF Inv, Types
<1>8. conn' \in [Ends -> Grants] /\ conn'["child"] = Connected(o, w) /\ conn'["client"] = conn["client"]
  BY <1>1, <1>5 DEF Inv, Types
<1>9. Types' /\ \A d \in Ends : Limits(opt[d])'
  BY <1>1, <1>2, <1>3, <1>6, <1>7, <1>8 DEF Inv, Types
<1>10. Units'
  BY <1>1, <1>7 DEF Inv, Types, Units
<1>11. Payload(o.mss) <= unit["listener"]
  <2>1. Payload(opt["listener"].mss) <= unit["listener"] /\ unit["listener"] \in Nat /\ opt["listener"].mss \in Nat
    BY <1>1, <1>2, WindowIs DEF Inv, Types, Units
  <2> QED
    BY <1>3, <1>6, <2>1 DEF Payload
<1>12. ChildOK'
  <2>1. Granted("child")'
    BY <1>4, <1>5, <1>7, <1>8 DEF Granted
  <2> QED
    BY <1>1, <1>3, <1>6, <1>7, <1>11, <2>1 DEF Inv, Types, ChildOK
<1>13. ClientOK'
  BY <1>1, <1>8 DEF Inv, Types, ClientOK
<1> QED
  BY <1>9, <1>10, <1>12, <1>13 DEF Inv

LEMMA RepeatedInv ==
    ASSUME Inv, Repeated
    PROVE  Inv'
<1> USE EndsAre
<1> DEFINE r == [mss |-> opt["child"].mss, window |-> opt["child"].fc]
<1>1. /\ status["child"] = "connected" /\ responses' = responses \cup {r}
      /\ UNCHANGED <<opt, status, unit, conn, sets>>
  BY DEF Repeated
<1>2. opt["child"].rcv <= opt["child"].fc /\ opt["child"].fc \in Nat /\ opt["child"].mss \in Nat
  BY WindowIs DEF Inv, Types
<1>3. Types' /\ \A d \in Ends : Limits(opt[d])'
  BY <1>1, <1>2 DEF Inv, Types
<1>4. Units' /\ ClientOK' /\ Granted("child")' = Granted("child")
  BY <1>1 DEF Inv, Units, ClientOK, Granted
<1>5. ChildOK'
  BY <1>1, <1>2, <1>4 DEF Inv, ChildOK
<1> QED
  BY <1>3, <1>4, <1>5 DEF Inv

LEMMA PostConnectInv ==
    ASSUME Inv, NEW r \in responses, postConnect(r)
    PROVE  Inv'
<1> USE EndsAre, Constants
<1> DEFINE o == [opt["client"] EXCEPT !.mss = r.mss]
<1>1. /\ status["client"] = "connecting" /\ opt' = [opt EXCEPT !["client"] = o]
      /\ conn' = [conn EXCEPT !["client"] = Connected(opt["client"], r.window)]
      /\ status' = [status EXCEPT !["client"] = "connected"]
      /\ UNCHANGED <<unit, responses, sets>>
  BY DEF postConnect, Inv, Types
<1>2. \A e \in Ends : opt[e] \in Sizes /\ Limits(opt[e])
  BY DEF Inv, Types
<1>3. r.mss \in Nat /\ r.window \in Nat /\ status["child"] = "connected"
  BY DEF Inv, Types, ChildOK
<1>4. r.mss = opt["child"].mss /\ r.window >= opt["child"].rcv /\ r.mss <= opt["client"].mss
  BY <1>3 DEF Inv, ChildOK
<1>5. /\ o \in Sizes /\ Limits(o) /\ o.mss = r.mss /\ o.fc = opt["client"].fc
      /\ o.rcv = opt["client"].rcv
  BY <1>2, <1>3, <1>4 DEF Sizes, Limits
<1> HIDE DEF o
<1>6. /\ Connected(opt["client"], r.window) \in Grants /\ Connected(opt["client"], r.window).flow = r.window
      /\ Connected(opt["client"], r.window).sndLoss = 2 * r.window
      /\ Connected(opt["client"], r.window).rcvLoss = o.fc
  BY <1>2, <1>3, <1>5, ConnectedIs
<1>7. /\ opt' \in [Ends -> Sizes] /\ opt'["client"] = o /\ opt'["child"] = opt["child"]
      /\ opt'["listener"] = opt["listener"]
  BY <1>1, <1>5 DEF Inv, Types
<1>8. /\ conn' \in [Ends -> Grants] /\ conn'["child"] = conn["child"]
      /\ conn'["client"] = Connected(opt["client"], r.window)
  BY <1>1, <1>6 DEF Inv, Types
<1>9. Types' /\ \A d \in Ends : Limits(opt[d])'
  BY <1>1, <1>2, <1>5, <1>7, <1>8 DEF Inv, Types
<1>10. Units'
  <2>1. opt["client"].mss \in Nat /\ unit["client"] \in Nat /\ Payload(opt["client"].mss) <= unit["client"]
    BY <1>1, <1>2, WindowIs DEF Inv, Types, Units
  <2>2. Payload(o.mss) <= unit["client"]
    BY <1>3, <1>4, <1>5, <2>1 DEF Payload
  <2> QED
    BY <1>1, <1>7, <2>2 DEF Inv, Types, Units
<1>11. ChildOK'
  <2>1. Granted("child")'
    BY <1>3, <1>5, <1>7, <1>8 DEF Inv, ChildOK, Granted
  <2> QED
    BY <1>1, <1>3, <1>4, <1>5, <1>7, <2>1 DEF Inv, Types, ChildOK
<1>12. ClientOK'
  <2>1. opt["child"].rcv \in Nat
    BY <1>2, WindowIs
  <2>2. Granted("client")'
    BY <1>3, <1>4, <1>6, <1>7, <1>8, <2>1 DEF Granted
  <2> QED
    BY <1>1, <1>3, <1>4, <1>5, <1>7, <2>2 DEF Inv, Types, ClientOK
<1> QED
  BY <1>9, <1>10, <1>11, <1>12 DEF Inv

LEMMA AcknowledgeInv ==
    ASSUME Inv, NEW e \in {"client", "child"}, Acknowledge(e)
    PROVE  Inv'
<1> USE EndsAre, Constants
<1> DEFINE d == Partner(e)
<1>1. PICK room \in {2, opt[e].rcv - 1} : conn' = [conn EXCEPT ![d].flow = room]
  BY DEF Acknowledge
<1>2. /\ status["client"] = "connected" /\ status["child"] = "connected"
      /\ UNCHANGED <<opt, status, unit, responses, sets>>
  BY DEF Acknowledge
<1>3. d \in {"client", "child"} /\ Partner(d) = e /\ Granted(d) /\ conn[d] \in Grants
  BY <1>2 DEF Inv, Types, ChildOK, ClientOK
<1>4. opt[e].rcv \in Nat /\ opt[e].rcv >= 32
  BY WindowIs DEF Inv, Types, Limits
<1>5. room \in Nat /\ room <= opt[e].rcv
  BY <1>4
<1>6. /\ conn' \in [Ends -> Grants] /\ conn'[d] = [conn[d] EXCEPT !.flow = room] 
      /\ \A c \in Ends : c # d => conn'[c] = conn[c]
  BY <1>1, <1>3, <1>5 DEF Inv, Types, Grants
<1>7. /\ conn'[d].flow = room /\ conn'[d].sndLoss = conn[d].sndLoss /\ conn'[d].rcvLoss = conn[d].rcvLoss
      /\ conn[d].sndLoss \in Nat
  BY <1>3, <1>6 DEF Grants
<1>8. Types' /\ (\A c \in Ends : Limits(opt[c])') /\ Units'
  BY <1>2, <1>6 DEF Inv, Types, Units
<1>9. ASSUME NEW c \in {"client", "child"} PROVE Granted(c)'
  <2>1. CASE c = d
    BY <1>2, <1>3, <1>4, <1>5, <1>7, <2>1 DEF Granted
  <2>2. CASE c # d
    <3>1. conn'[c] = conn[c] /\ Granted(c)
      BY <1>2, <1>6, <2>2 DEF Inv, ChildOK, ClientOK
    <3> QED
      BY <1>2, <3>1 DEF Granted
  <2> QED
    BY <2>1, <2>2
<1>10. ChildOK' /\ ClientOK'
  BY <1>2, <1>9 DEF Inv, ChildOK, ClientOK
<1> QED
  BY <1>8, <1>10 DEF Inv
-----------------------------------------------------------------------------
LEMMA NextInv ==
    ASSUME Called, Inv, [Next]_optVars
    PROVE  Inv'
<1>1. CASE UNCHANGED optVars
  BY <1>1 DEF optVars, Inv, Types, Units, ChildOK, ClientOK, Granted
<1>2. CASE Next
  BY <1>2, SetInv, OpenInv, NewConnectionInv, RepeatedInv, PostConnectInv, AcknowledgeInv DEF Next
<1> QED
  BY <1>1, <1>2

LEMMA UpIs ==
    ASSUME Inv, NEW e \in Up
    PROVE  /\ e \in {"client", "child"} /\ Partner(e) \in {"client", "child"}
           /\ status["client"] = "connected" /\ status["child"] = "connected"
  BY EndsAre DEF Inv, Types, ChildOK, ClientOK, Up

LEMMA InvFits == Inv => PacketsFit
<1> SUFFICES ASSUME Inv, NEW e \in Up
             PROVE  /\ opt[e].mss = opt[Partner(e)].mss
                    /\ Payload(opt[e].mss) <= unit[Partner(e)]
                    /\ opt[e].mss <= Min2(opt[e].udpsnd, opt[Partner(e)].udprcv)
  BY DEF PacketsFit
<1> USE EndsAre
<1>1. /\ e \in {"client", "child"} /\ Partner(e) \in {"client", "child"}
      /\ status["client"] = "connected" /\ status["child"] = "connected"
  BY UpIs
<1>2. opt["client"].mss = opt["child"].mss
  BY <1>1 DEF Inv, ClientOK
<1>3. Payload(opt["client"].mss) <= unit["client"] /\ Payload(opt["child"].mss) <= unit["child"]
  BY <1>1 DEF Inv, Units, ChildOK
<1>4. opt[e].mss <= opt[e].udpsnd /\ opt[Partner(e)].mss <= opt[Partner(e)].udprcv
  BY <1>1 DEF Inv, Limits
<1>5. opt[e].mss = opt[Partner(e)].mss /\ Payload(opt[e].mss) <= unit[Partner(e)]
  BY <1>1, <1>2, <1>3
<1> QED
  BY <1>4, <1>5 DEF Min2

LEMMA InvWindows == Inv => WindowsFit
<1> SUFFICES ASSUME Inv, NEW e \in Up
             PROVE  /\ Min2(conn[e].flow, opt[Partner(e)].rcv) <= conn[Partner(e)].rcvLoss
                    /\ 2 * conn[e].flow <= conn[e].sndLoss
  BY DEF WindowsFit
<1> USE EndsAre
<1> DEFINE d == Partner(e)
<1>1. /\ e \in {"client", "child"} /\ d \in {"client", "child"}
      /\ status["client"] = "connected" /\ status["child"] = "connected"
  BY UpIs
<1>2. Granted(e) /\ Granted(d)
  BY <1>1 DEF Inv, ChildOK, ClientOK
<1>3. opt[d].rcv <= opt[d].fc /\ opt[d].rcv \in Nat /\ opt[d].fc \in Nat /\ conn[e].flow \in Nat
  BY <1>1, WindowIs DEF Inv, Types, Grants
<1> HIDE DEF d
<1>4. conn[d].rcvLoss = opt[d].fc /\ 2 * conn[e].flow <= conn[e].sndLoss
  BY <1>2 DEF Granted
<1>5. Min2(conn[e].flow, opt[d].rcv) <= opt[d].fc
  BY <1>3 DEF Min2
<1> QED
  BY <1>4, <1>5 DEF d

LEMMA InvReads == Inv => ReadsBack
<1> SUFFICES ASSUME Inv, NEW e \in Ends, NEW name \in Names, status[e] = "init"
             PROVE  Stored(opt[e], name, getOpt(e, name)) = opt[e][name]
  BY DEF ReadsBack
<1> DEFINE o == opt[e]
<1>1. o \in Sizes /\ Limits(o)
  BY DEF Inv, Types
<1>2. \A size \in Nat : Packets(o, size * (o.mss - Header)) = size
  <2>1. o.mss - Header \in Nat \ {0}
    BY <1>1, Constants DEF Sizes, Limits
  <2> QED
    BY <2>1, Divides DEF Packets
<1>3. getOpt(e, name) = IF name \in {"snd", "rcv"} THEN o[name] * (o.mss - Header) ELSE o[name]
  BY DEF getOpt
<1>4. /\ o.mss \in Nat /\ o.fc \in Nat /\ o.snd \in Nat /\ o.rcv \in Nat
      /\ o.udpsnd \in Nat /\ o.udprcv \in Nat
  BY <1>1 DEF Sizes
<1> HIDE DEF o
<1>5. CASE name = "snd"
  BY <1>2, <1>3, <1>4, <1>5 DEF Stored, o
<1>6. CASE name = "rcv"
  <2>1. Packets(o, getOpt(e, name)) = o.rcv
    BY <1>2, <1>3, <1>4, <1>6
  <2>2. Min2(Max2(o.rcv, MinPackets), o.fc) = o.rcv
    BY <1>1, <1>4, Constants DEF Limits, Min2, Max2
  <2> QED
    BY <1>6, <2>1, <2>2 DEF Stored, o
<1>7. CASE name \in {"mss", "fc"}
  <2>1. Min2(o.mss, Min2(o.udpsnd, o.udprcv)) = o.mss /\ Max2(o.fc, MinPackets) = o.fc
    BY <1>1, <1>4, Constants DEF Limits, Min2, Max2
  <2> QED
    BY <1>3, <1>7, <2>1 DEF Stored, o
<1>8. CASE name \in {"udpsnd", "udprcv"}
  <2>1. Max2(o.udpsnd, o.mss) = o.udpsnd /\ Max2(o.udprcv, o.mss) = o.udprcv
    BY <1>1, <1>4 DEF Limits, Max2
  <2> QED
    BY <1>3, <1>8, <2>1 DEF Stored, o
<1> QED
  BY <1>5, <1>6, <1>7, <1>8 DEF Names

\* Whatever sizes are set, in whichever order with open, connect and a handshake that is
\* repeated: packets fit the units and buffers they arrive in, windows the loss lists, and
\* what getOpt reads can be set again (CUDT::setOpt, open, both connects, newConnection).
THEOREM SizesAlwaysAgree ==
    ASSUME Called
    PROVE  Init /\ [][Next]_optVars => []SizesAgree
<1>1. Init => Inv
  BY InitInv
<1>2. Inv /\ [Next]_optVars => Inv'
  BY NextInv
<1>3. Inv => SizesAgree
  BY InvFits, InvWindows, InvReads DEF SizesAgree
<1> QED
  BY <1>1, <1>2, <1>3, PTL
====
