---------------------------- MODULE FFSNetProofs ----------------------------
(***************************************************************************)
(* Proofs about FFSNet, for any number of calls, any size of the files and    *)
(* any number of connections that break: what a transfer that comes to its    *)
(* end has delivered, and that the library runs under every call.           *)
(*                                                                         *)
(* The argument: what is on the way from one end to the other follows, in    *)
(* the stream of the transfer, what the receiver has taken, and, while the   *)
(* connection stands, ends where the sender is.  A connection that breaks    *)
(* loses the end of what is on the way, and nothing is sent after it.       *)
(***************************************************************************)
EXTENDS FFSNet, SequenceTheorems, FiniteSetTheorems, TLAPS

-----------------------------------------------------------------------------
(* Sequences. *)

\* What is left of a stream when its first element is taken.
LEMMA TailIs ==
    ASSUME NEW S, NEW s \in Seq(S), s # <<>>
    PROVE  /\ Len(s) \in Nat /\ Len(s) >= 1 /\ Head(s) = s[1] /\ Head(s) \in S
           /\ Tail(s) \in Seq(S) /\ Len(Tail(s)) = Len(s) - 1
           /\ \A j \in 1 .. Len(Tail(s)) : Tail(s)[j] = s[1 + j]
  BY HeadTailProperties, EmptySeq, LenProperties

\* One element more.
LEMMA AppendIs ==
    ASSUME NEW S, NEW s \in Seq(S), NEW x \in S
    PROVE  /\ Append(s, x) \in Seq(S) /\ Len(s) \in Nat /\ Len(Append(s, x)) = Len(s) + 1
           /\ \A j \in 1 .. Len(s) : Append(s, x)[j] = s[j]
           /\ Append(s, x)[Len(s) + 1] = x
  BY AppendProperties, LenProperties

\* What a connection that breaks leaves of a stream.
LEMMA PrefixIs ==
    ASSUME NEW S, NEW s \in Seq(S), NEW m \in 0 .. Len(s)
    PROVE  /\ SubSeq(s, 1, m) \in Seq(S) /\ Len(s) \in Nat /\ Len(SubSeq(s, 1, m)) = m
           /\ \A j \in 1 .. m : SubSeq(s, 1, m)[j] = s[j]
<1>1. Len(s) \in Nat /\ m \in Nat /\ \A i \in 1 .. m : s[i] \in S
  BY LenProperties, ElementOfSeq
<1> QED BY <1>1, SubSeqProperties

\* A block written within a file or behind its end.
LEMMA WrittenIs ==
    ASSUME NEW S, NEW s \in Seq(S), NEW k \in Nat \ {0}, NEW x \in S
    PROVE  /\ Written(s, k, x) \in Seq(S)
           /\ k = Len(s) + 1 => Written(s, k, x) = Append(s, x)
<1>1. CASE k <= Len(s)
  BY <1>1, ExceptSeq, LenProperties DEF Written
<1>2. CASE ~(k <= Len(s))
  BY <1>2, AppendIs DEF Written
<1> QED BY <1>1, <1>2, LenProperties DEF Written
-----------------------------------------------------------------------------
(* The inductive invariant. *)

Block == Inodes \X Int
Item  == Block \union Int \union Kinds \union {"name"}
Socks == {None, "init", "open", "broken", "gone"}
Ways  == {"start", "connect", "request", "close", "done"}
ClientPlaces == Ways \union {"put", "sendfile", "get", "recvfile", "rm", "mkdir"}
ServerPlaces == {None, "type", "name", "get", "sending", "put", "receiving", "rm", "status",
                 "mkdir", "hangup", "done"}

Types ==
    /\ kind \in [Calls -> Kinds]
    /\ pc \in [Calls -> ClientPlaces] /\ spc \in [Calls -> ServerPlaces]
    /\ sock \in [Calls -> Socks] /\ ssock \in [Calls -> Socks]
    /\ up \in [Calls -> Seq(Item)] /\ down \in [Calls -> Seq(Item)]
    /\ local \in [Calls -> Seq(Item)] /\ first \in [Calls -> Seq(Item)]
    /\ disk \in [Inodes -> Seq(Item)]
    /\ path \in Inodes \union {None} /\ inode \in [Calls -> Inodes \union {None}]
    /\ sent \in [Calls -> Nat] /\ got \in [Calls -> Nat] /\ promised \in [Calls -> Int]
    /\ stale \in [Calls -> BOOLEAN]
    /\ count \in Int

\* The calls that have the library in use.
Active == {c \in Calls : pc[c] \notin {"start", "done"}}

Counts ==
    /\ IsFiniteSet(Active) /\ Cardinality(Active) <= count
    /\ Active # {} => collecting

\* The steps each kind of call takes.
Phase(c) ==
    /\ pc[c] \in {"start", "connect"} => ssock[c] = None
    /\ ssock[c] = None => spc[c] = None
    /\ pc[c] \in {"start", "connect", "request"} =>
          up[c] = <<>> /\ spc[c] \in {None, "type", "done"}
    /\ pc[c] \in {"get", "recvfile"} => kind[c] = "get"
    /\ pc[c] \in {"put", "sendfile"} => kind[c] = "put"
    /\ pc[c] \in {"rm", "mkdir"} => kind[c] \in {"rm", "mkdir"}
    /\ spc[c] \in {"get", "sending"} => kind[c] = "get"
    /\ spc[c] \in {"put", "receiving"} => kind[c] = "put"
    /\ spc[c] \in {"rm", "status", "mkdir"} => kind[c] \in {"rm", "mkdir"}

\* A download.
Reading(c) == pc[c] \in {"start", "connect", "request", "get", "recvfile"}
Taken(c)   == IF pc[c] = "recvfile" THEN 1 + got[c] ELSE 0
Early(c)   == spc[c] \in {None, "type", "name", "get"}
OnTheWay(c, i, x) == /\ i = 1 => x \in {-1, Len(first[c])}
                     /\ i > 1 /\ ~stale[c] => x = first[c][i - 1]

Download(c) ==
    /\ Early(c) => down[c] = <<>> /\ sent[c] = 0 /\ pc[c] \notin {"recvfile", "close"}
    /\ Reading(c) /\ pc[c] # "recvfile" => got[c] = 0
    /\ Reading(c) => \A j \in 1 .. Len(down[c]) : OnTheWay(c, Taken(c) + j, down[c][j])
    /\ spc[c] = "sending" => /\ inode[c] # None /\ sent[c] <= Len(first[c])
                             /\ Reading(c) /\ ~Lost(c) => Taken(c) + Len(down[c]) = 1 + sent[c]
    /\ spc[c] \in {"get", "sending"} /\ inode[c] # None /\ ~stale[c] => disk[inode[c]] = first[c]
    /\ pc[c] \in {"recvfile", "close"} =>
          /\ promised[c] = Len(first[c]) /\ Len(local[c]) = got[c] /\ got[c] <= promised[c]
          /\ ~stale[c] => \A i \in 1 .. got[c] : local[c][i] = first[c][i]
    /\ pc[c] = "close" => got[c] = promised[c]

\* An upload.
Taking(c) == spc[c] \in {None, "type", "name", "put", "receiving"}
Read(c) == IF spc[c] = "receiving" THEN 3 + got[c]
           ELSE IF spc[c] = "put" THEN 2 ELSE IF spc[c] = "name" THEN 1 ELSE 0
Made(c) == IF pc[c] = "put" THEN 2 ELSE 3 + sent[c]

Upload(c) ==
    /\ pc[c] \in {"start", "connect", "request", "put"} => sent[c] = 0
    /\ sent[c] <= Size /\ got[c] <= Size
    /\ Taking(c) /\ spc[c] # "receiving" => got[c] = 0
    /\ Taking(c) => \A j \in 1 .. Len(up[c]) : Read(c) + j > 3 => up[c][j] = <<c, Read(c) + j - 3>>
    /\ Taking(c) /\ pc[c] \in {"put", "sendfile"} /\ ~Dead(c) => Read(c) + Len(up[c]) = Made(c)
    /\ spc[c] \in {"put", "receiving", "hangup"} =>
          /\ inode[c] # None
          /\ ~stale[c] => /\ Len(disk[inode[c]]) = got[c]
                          /\ \A i \in 1 .. got[c] : disk[inode[c]][i] = <<c, i>>
    /\ spc[c] = "hangup" => got[c] = Size

CallOK(c) ==
    /\ Phase(c)
    /\ kind[c] = "get" => Download(c)
    /\ kind[c] = "put" => Upload(c)

Inv == Types /\ Counts /\ \A c \in Calls : CallOK(c)
-----------------------------------------------------------------------------
(* Types. *)

LEMMA Items ==
    /\ \A x \in Int : x \in Item
    /\ \A k \in Kinds : k \in Item
    /\ "name" \in Item
    /\ \A c \in Inodes, i \in Int : <<c, i>> \in Item
  BY DEF Item, Block

LEMMA SourceIs ==
    ASSUME NEW c \in Calls, NEW i \in 1 .. Size
    PROVE  Source(c)[i] = <<c, i>> /\ Source(c)[i] \in Item
  BY Items, CallsAssumption DEF Source, Inodes

LEMMA BeforeIs ==
    ASSUME NEW n \in Nat
    PROVE  Before(n) \in Seq(Item)
<1>1. \A i \in 1 .. n : <<Old, i>> \in Item
  BY Items DEF Inodes
<1> QED BY <1>1 DEF Before

LEMMA InitTypes == Init => Types
<1> SUFFICES ASSUME Init PROVE Types
  OBVIOUS
<1>1. Before(Size + 2) \in Seq(Item) /\ Before(Size + 1) \in Seq(Item) /\ <<>> \in Seq(Item)
  BY BeforeIs, CallsAssumption
<1>2. kind \in [Calls -> Kinds]
  BY DEF Init
<1>3. disk \in [Inodes -> Seq(Item)]
  BY <1>1 DEF Init
<1>4. local \in [Calls -> Seq(Item)]
  BY <1>1 DEF Init
<1> HIDE DEF Item
<1> QED BY <1>1, <1>2, <1>3, <1>4
     DEF Init, Types, ClientPlaces, Ways, ServerPlaces, Socks, Inodes

\* The steps of a call keep the types.
LEMMA ClientTypes ==
    ASSUME Inv, NEW c \in Calls, ClientStep(c)
    PROVE  Types'
<1> USE DEF Client, Return
<1>0. Types /\ CallOK(c)
  BY DEF Inv
<1>1. CASE Start(c)
  <2>1. pc' \in [Calls -> ClientPlaces] /\ sock' \in [Calls -> Socks]
    BY <1>0, <1>1 DEF Start, Types, ClientPlaces, Ways, Socks
  <2> QED BY <1>0, <1>1, <2>1 DEF Start, Types, serverVars
<1>2. CASE Connect(c)
  BY <1>0, <1>2 DEF Connect, Types, ClientPlaces, Ways, Socks
<1>3. CASE Request(c)
  <2>1. <<kind[c], "name">> \in Seq(Item)
    <3>1. kind[c] \in Item /\ "name" \in Item
      BY <1>0, Items DEF Types
    <3> QED BY <3>1
  <2>2. up' \in [Calls -> Seq(Item)]
    <3>1. up \in [Calls -> Seq(Item)]
      BY <1>0 DEF Types
    <3>2. up' = up \/ up' = [up EXCEPT ![c] = <<kind[c], "name">>]
      BY <1>3 DEF Request
    <3> QED BY <2>1, <3>1, <3>2
  <2>3. pc' \in [Calls -> ClientPlaces]
    <3>1. pc \in [Calls -> ClientPlaces] /\ kind[c] \in Kinds
      BY <1>0 DEF Types
    <3>2. pc' = pc \/ \E p \in ClientPlaces : pc' = [pc EXCEPT ![c] = p]
      BY <1>3, <3>1 DEF Request, ClientPlaces, Ways, Kinds
    <3> QED BY <3>1, <3>2
  <2> QED BY <1>0, <1>3, <2>2, <2>3 DEF Request, Types, serverVars
<1>4. CASE SendSize(c)
  <2>1. Append(up[c], Size) \in Seq(Item)
    <3>1. up[c] \in Seq(Item) /\ Size \in Item
      BY <1>0, Items, CallsAssumption DEF Types
    <3> QED BY <3>1, AppendIs
  <2>2. up' \in [Calls -> Seq(Item)]
    <3>1. up \in [Calls -> Seq(Item)]
      BY <1>0 DEF Types
    <3>2. up' = up \/ up' = [up EXCEPT ![c] = Append(up[c], Size)]
      BY <1>4 DEF SendSize
    <3> QED BY <2>1, <3>1, <3>2
  <2>3. pc' \in [Calls -> ClientPlaces]
    <3>1. pc \in [Calls -> ClientPlaces] /\ kind[c] \in Kinds
      BY <1>0 DEF Types
    <3>2. pc' = pc \/ \E p \in ClientPlaces : pc' = [pc EXCEPT ![c] = p]
      BY <1>4, <3>1 DEF SendSize, ClientPlaces, Ways
    <3> QED BY <3>1, <3>2
  <2> QED BY <1>0, <1>4, <2>2, <2>3 DEF SendSize, Types, serverVars
<1>5. CASE SendFile(c)
  <2>1. sent[c] # Size => sent[c] + 1 \in 1 .. Size
    BY <1>0, <1>5, CallsAssumption DEF SendFile, CallOK, Phase, Upload, Types
  <2>2. sent[c] # Size => Append(up[c], Source(c)[sent[c] + 1]) \in Seq(Item)
    <3>1. up[c] \in Seq(Item)
      BY <1>0 DEF Types
    <3>2. sent[c] # Size => Source(c)[sent[c] + 1] \in Item
      BY <2>1, SourceIs
    <3> QED BY <3>1, <3>2, AppendIs
  <2>3. pc' \in [Calls -> ClientPlaces]
    <3>1. pc \in [Calls -> ClientPlaces] /\ kind[c] \in Kinds
      BY <1>0 DEF Types
    <3>2. pc' = pc \/ \E p \in ClientPlaces : pc' = [pc EXCEPT ![c] = p]
      BY <1>5, <3>1 DEF SendFile, ClientPlaces, Ways
    <3> QED BY <3>1, <3>2
  <2>4. up' \in [Calls -> Seq(Item)]
    <3>1. CASE UNCHANGED up
      BY <1>0, <3>1 DEF Types
    <3>2. CASE sent[c] # Size /\ up' = [up EXCEPT ![c] = Append(@, Source(c)[sent[c] + 1])]
      BY <1>0, <2>2, <3>2 DEF Types
    <3> QED BY <1>5, <3>1, <3>2 DEF SendFile
  <2>5. sent' \in [Calls -> Nat]
    <3>1. sent' = sent \/ sent' = [sent EXCEPT ![c] = sent[c] + 1]
      BY <1>5 DEF SendFile
    <3>2. sent \in [Calls -> Nat]
      BY <1>0 DEF Types
    <3> QED BY <3>1, <3>2
  <2> QED BY <1>0, <1>5, <2>3, <2>4, <2>5 DEF SendFile, Types, serverVars
<1>6. CASE RecvSize(c)
  <2>1. CASE down[c] # <<>> /\ Head(down[c]) >= 0 /\ local' = [local EXCEPT ![c] = <<>>]
             /\ promised' = [promised EXCEPT ![c] = Head(down[c])]
             /\ down' = [down EXCEPT ![c] = Tail(@)] /\ pc' = [pc EXCEPT ![c] = "recvfile"]
    <3>1. CallOK(c) /\ pc[c] = "get"
      BY <1>0, <1>6 DEF RecvSize
    <3>2. Tail(down[c]) \in Seq(Item) /\ Head(down[c]) = down[c][1] /\ Len(down[c]) >= 1
      BY <1>0, <2>1, TailIs DEF Types
    <3>3. Head(down[c]) \in Int
      BY <1>0, <3>1, <3>2, LenProperties DEF CallOK, Phase, Download, Reading, Taken, OnTheWay, Types
    <3> QED BY <1>0, <1>6, <2>1, <3>2, <3>3 DEF RecvSize, Types, ClientPlaces, Ways, serverVars
  <2> QED BY <1>0, <1>6, <2>1 DEF RecvSize, Types, ClientPlaces, Ways, serverVars
<1>7. CASE RecvFile(c)
  <2>1. down[c] # <<>> => Head(down[c]) \in Item /\ Tail(down[c]) \in Seq(Item)
    BY <1>0, TailIs DEF Types
  <2>2. local[c] \in Seq(Item) /\ got[c] + 1 \in Nat \ {0}
    BY <1>0 DEF Types
  <2>3. down[c] # <<>> => Written(local[c], got[c] + 1, Head(down[c])) \in Seq(Item)
    BY <2>1, <2>2, WrittenIs
  <2>4. pc' \in [Calls -> ClientPlaces]
    BY <1>0, <1>7 DEF RecvFile, Types, ClientPlaces, Ways
  <2>5. local' \in [Calls -> Seq(Item)]
    <3>1. CASE UNCHANGED local
      BY <1>0, <3>1 DEF Types
    <3>2. CASE down[c] # <<>> /\ local' = [local EXCEPT ![c] = Written(@, got[c] + 1, Head(down[c]))]
      <4> DEFINE w == Written(local[c], got[c] + 1, Head(down[c]))
      <4>1. w \in Seq(Item) /\ local' = [local EXCEPT ![c] = w]
        BY <2>3, <3>2
      <4>2. local \in [Calls -> Seq(Item)]
        BY <1>0 DEF Types
      <4> HIDE DEF w
      <4> QED BY <4>1, <4>2
    <3> QED BY <1>7, <3>1, <3>2 DEF RecvFile
  <2>6. got' \in [Calls -> Nat]
    <3>1. got' = got \/ got' = [got EXCEPT ![c] = got[c] + 1]
      BY <1>7 DEF RecvFile
    <3>2. got \in [Calls -> Nat]
      BY <1>0 DEF Types
    <3> QED BY <3>1, <3>2
  <2>7. down' \in [Calls -> Seq(Item)]
    <3>1. down' = down \/ (down[c] # <<>> /\ down' = [down EXCEPT ![c] = Tail(down[c])])
      BY <1>7 DEF RecvFile
    <3> QED BY <1>0, <2>1, <3>1 DEF Types
  <2> QED BY <1>0, <1>7, <2>4, <2>5, <2>6, <2>7 DEF RecvFile, Types, serverVars
<1>8. CASE Close(c)
  BY <1>0, <1>8 DEF Close, Closed, Types, ClientPlaces, Ways, Socks
<1>9. CASE Status(c)
  <2>1. down[c] # <<>> => Tail(down[c]) \in Seq(Item)
    BY <1>0, TailIs DEF Types
  <2>2. pc' \in [Calls -> ClientPlaces]
    BY <1>0, <1>9 DEF Status, Types, ClientPlaces, Ways
  <2>3. down' \in [Calls -> Seq(Item)]
    <3>1. UNCHANGED down \/ (down[c] # <<>> /\ down' = [down EXCEPT ![c] = Tail(@)])
      BY <1>9 DEF Status
    <3> QED BY <1>0, <2>1, <3>1 DEF Types
  <2> QED BY <1>0, <1>9, <2>2, <2>3 DEF Status, Types, serverVars
<1> QED BY <1>1, <1>2, <1>3, <1>4, <1>5, <1>6, <1>7, <1>8, <1>9 DEF ClientStep

\* The streams after an element was taken, and the types of what a hang-up changes.
LEMMA TakeTypes ==
    ASSUME Types, NEW c \in Calls
    PROVE  /\ up[c] # <<>> => Tail(up[c]) \in Seq(Item) /\ Head(up[c]) \in Item
           /\ down[c] # <<>> => Tail(down[c]) \in Seq(Item)
  BY TailIs DEF Types

LEMMA HangupTypes ==
    ASSUME Types, NEW c \in Calls, Hangup(c)
    PROVE  /\ spc' \in [Calls -> ServerPlaces] /\ ssock' \in [Calls -> Socks]
           /\ sock' \in [Calls -> Socks]
  BY DEF Hangup, Server, Closed, Types, ServerPlaces, Socks

\* The steps of a thread of the daemon keep the types.
LEMMA ServerTypes ==
    ASSUME Inv, NEW c \in Calls, ServerStep(c)
    PROVE  Types'
<1> USE DEF Server, clientVars, Unread
<1>0. Types /\ CallOK(c)
  BY DEF Inv
<1>1. CASE Accept(c)
  BY <1>0, <1>1 DEF Accept, Types, ServerPlaces
<1>2. CASE RecvType(c)
  <2>1. up' \in [Calls -> Seq(Item)]
    <3>1. up \in [Calls -> Seq(Item)]
      BY <1>0 DEF Types
    <3>2. up' = up \/ (up[c] # <<>> /\ up' = [up EXCEPT ![c] = Tail(up[c])])
      BY <1>2 DEF RecvType
    <3>3. up[c] # <<>> => Tail(up[c]) \in Seq(Item)
      BY <1>0, TakeTypes
    <3> QED BY <3>1, <3>2, <3>3
  <2>2. spc' \in [Calls -> ServerPlaces]
    <3>1. spc \in [Calls -> ServerPlaces]
      BY <1>0 DEF Types
    <3>2. \E p \in ServerPlaces : spc' = [spc EXCEPT ![c] = p]
      BY <1>2 DEF RecvType, ServerPlaces
    <3> QED BY <3>1, <3>2
  <2> QED BY <1>0, <1>2, <2>1, <2>2 DEF RecvType, Types
<1>3. CASE RecvName(c)
  <2>1. CASE up[c] # <<>> /\ Server(c, kind[c]) /\ up' = [up EXCEPT ![c] = Tail(@)]
             /\ UNCHANGED <<ssock, sock>>
             /\ IF kind[c] \in {"get", "put"} THEN OpenFile(c) ELSE UNCHANGED Unread
    <3>1. /\ path' \in Inodes \union {None} /\ inode' \in [Calls -> Inodes \union {None}]
          /\ disk' \in [Inodes -> Seq(Item)] /\ first' \in [Calls -> Seq(Item)]
          /\ stale' \in [Calls -> BOOLEAN]
      <4>1. CASE kind[c] = "put"
        <5>1. (IF path = None THEN c ELSE path) \in Inodes
          BY <1>0 DEF Types, Inodes
        <5> DEFINE i == IF path = None THEN c ELSE path
        <5>2. path' = i /\ inode' = [inode EXCEPT ![c] = i] /\ disk' = [disk EXCEPT ![i] = <<>>]
              /\ stale' = Touched(c, i) /\ UNCHANGED first
          BY <2>1, <4>1 DEF OpenFile
        <5>3. stale' \in [Calls -> BOOLEAN]
          BY <5>2 DEF Touched
        <5> HIDE DEF i
        <5> QED BY <1>0, <5>1, <5>2, <5>3 DEF Types, i
      <4>2. CASE kind[c] = "get"
        <5>1. /\ inode' = [inode EXCEPT ![c] = path] /\ UNCHANGED <<path, disk>>
              /\ first' = [first EXCEPT ![c] = IF path = None THEN <<>> ELSE disk[path]]
              /\ \E b \in BOOLEAN : stale' = [stale EXCEPT ![c] = b]
          BY <2>1, <4>2 DEF OpenFile
        <5>2. (IF path = None THEN <<>> ELSE disk[path]) \in Seq(Item)
          BY <1>0 DEF Types
        <5> QED BY <1>0, <5>1, <5>2 DEF Types
      <4>3. CASE kind[c] \notin {"put", "get"}
        BY <1>0, <2>1, <4>3 DEF Types
      <4> QED BY <4>1, <4>2, <4>3
    <3>2. spc' \in [Calls -> ServerPlaces] /\ up' \in [Calls -> Seq(Item)]
      BY <1>0, <2>1, TakeTypes DEF Types, Kinds, ServerPlaces
    <3> QED BY <1>0, <1>3, <2>1, <3>1, <3>2 DEF RecvName, Types
  <2>2. CASE Hangup(c) /\ UNCHANGED <<up, Unread>>
    BY <1>0, <1>3, <2>2, HangupTypes DEF RecvName, Types
  <2> QED BY <1>3, <2>1, <2>2 DEF RecvName
<1>4. CASE SendSizeOf(c)
  <2> DEFINE size == IF inode[c] = None THEN -1 ELSE Len(disk[inode[c]])
  <2>1. (size \in Int /\ size = -1) \/ (inode[c] \in Inodes /\ disk[inode[c]] \in Seq(Item) /\ size \in Nat)
    BY <1>0, LenProperties DEF Types
  <2>2. <<size>> \in Seq(Item)
    BY <2>1, Items
  <2> HIDE DEF size
  <2>3. CASE Hangup(c) /\ UNCHANGED <<down, first>>
    BY <1>0, <1>4, <2>3, HangupTypes DEF SendSizeOf, Types
  <2>4. CASE /\ down' = [down EXCEPT ![c] = <<size>>]
             /\ first' = [first EXCEPT ![c] = IF size < 0 THEN <<>> ELSE disk[inode[c]]]
             /\ Server(c, IF size <= 0 THEN "hangup" ELSE "sending") /\ UNCHANGED <<ssock, sock>>
    <3>1. (IF size < 0 THEN <<>> ELSE disk[inode[c]]) \in Seq(Item)
      BY <2>1
    <3>2. first' \in [Calls -> Seq(Item)] /\ down' \in [Calls -> Seq(Item)]
          /\ spc' \in [Calls -> ServerPlaces]
      BY <1>0, <2>2, <2>4, <3>1 DEF Types, ServerPlaces
    <3> QED BY <1>0, <1>4, <2>4, <3>2 DEF SendSizeOf, Types
  <2> QED BY <1>4, <2>3, <2>4 DEF SendSizeOf, size
<1>5. CASE SendBlock(c)
  <2>1. CASE Hangup(c) /\ UNCHANGED <<down, sent>>
    BY <1>0, <1>5, <2>1, HangupTypes DEF SendBlock, Types
  <2>2. CASE spc' = [spc EXCEPT ![c] = "hangup"] /\ UNCHANGED <<down, sent, sock, ssock>>
    BY <1>0, <1>5, <2>2 DEF SendBlock, Types, ServerPlaces
  <2>3. CASE /\ ~(sent[c] < Len(first[c]) /\ sent[c] >= Len(disk[inode[c]])) /\ sent[c] # Len(first[c])
             /\ down' = [down EXCEPT ![c] = Append(@, disk[inode[c]][sent[c] + 1])]
             /\ sent' = [sent EXCEPT ![c] = @ + 1] /\ UNCHANGED <<spc, ssock, sock>>
    <3>1. inode[c] \in Inodes /\ sent[c] \in Nat /\ sent[c] <= Len(first[c])
      BY <1>0, <1>5 DEF SendBlock, CallOK, Phase, Download, Types
    <3>2. disk[inode[c]] \in Seq(Item) /\ Len(disk[inode[c]]) \in Nat /\ Len(first[c]) \in Nat
      BY <1>0, <3>1, LenProperties DEF Types
    <3>3. sent[c] + 1 \in 1 .. Len(disk[inode[c]])
      BY <2>3, <3>1, <3>2
    <3>4. disk[inode[c]][sent[c] + 1] \in Item
      BY <3>2, <3>3, ElementOfSeq
    <3>5. Append(down[c], disk[inode[c]][sent[c] + 1]) \in Seq(Item)
      BY <1>0, <3>4, AppendIs DEF Types
    <3>6. down \in [Calls -> Seq(Item)]
      BY <1>0 DEF Types
    <3>7. PICK s \in Seq(Item) : s = Append(down[c], disk[inode[c]][sent[c] + 1])
      BY <3>5
    <3>8. down' = down \/ down' = [down EXCEPT ![c] = s]
      BY <1>5, <3>7 DEF SendBlock
    <3>9. down' \in [Calls -> Seq(Item)]
      BY <3>6, <3>8
    <3>10. sent' \in [Calls -> Nat]
      BY <1>0, <2>3, <3>1 DEF Types
    <3> HIDE <2>3
    <3>11. UNCHANGED <<spc, ssock, sock>>
      BY <2>3
    <3> QED BY <1>0, <1>5, <3>9, <3>10, <3>11 DEF SendBlock, Types
  <2> QED BY <1>5, <2>1, <2>2, <2>3 DEF SendBlock
<1>6. CASE RecvBlock(c)
  <2>1. CASE Hangup(c) /\ UNCHANGED <<up, disk, got, stale>>
    BY <1>0, <1>6, <2>1, HangupTypes DEF RecvBlock, Types
  <2>2. CASE spc[c] = "put" /\ up[c] # <<>> /\ Server(c, "receiving")
             /\ up' = [up EXCEPT ![c] = Tail(@)] /\ UNCHANGED <<disk, got, stale, ssock, sock>>
    BY <1>0, <1>6, <2>2, TakeTypes DEF RecvBlock, Types, ServerPlaces
  <2>3. CASE Server(c, "hangup") /\ UNCHANGED <<up, disk, got, stale, ssock, sock>>
    BY <1>0, <1>6, <2>3 DEF RecvBlock, Types, ServerPlaces
  <2>4. CASE /\ spc[c] = "receiving" /\ got[c] < Size /\ up[c] # <<>>
             /\ disk' = [disk EXCEPT ![inode[c]] = Written(@, got[c] + 1, Head(up[c]))]
             /\ stale' = Touched(c, inode[c])
             /\ got' = [got EXCEPT ![c] = @ + 1] /\ up' = [up EXCEPT ![c] = Tail(@)]
             /\ UNCHANGED <<spc, ssock, sock>>
    <3>1. inode[c] \in Inodes /\ got[c] + 1 \in Nat \ {0}
      BY <1>0, <2>4 DEF CallOK, Phase, Upload, Types
    <3>2. disk[inode[c]] \in Seq(Item) /\ Head(up[c]) \in Item /\ Tail(up[c]) \in Seq(Item)
      BY <1>0, <2>4, <3>1, TakeTypes DEF Types
    <3>3. Written(disk[inode[c]], got[c] + 1, Head(up[c])) \in Seq(Item)
      BY <3>1, <3>2, WrittenIs
    <3>4. stale' \in [Calls -> BOOLEAN]
      BY <2>4 DEF Touched, Types
    <3>5. disk' \in [Inodes -> Seq(Item)] /\ got' \in [Calls -> Nat] /\ up' \in [Calls -> Seq(Item)]
      BY <1>0, <2>4, <3>1, <3>2, <3>3 DEF Types
    <3> QED BY <1>0, <1>6, <2>4, <3>4, <3>5 DEF RecvBlock, Types
  <2> QED BY <1>6, <2>1, <2>2, <2>3, <2>4 DEF RecvBlock
<1>7. CASE Remove(c)
  BY <1>0, <1>7, HangupTypes DEF Remove, Types, ServerPlaces
<1>8. CASE SendStatus(c)
  <2>1. <<0>> \in Seq(Item)
    BY Items
  <2>2. CASE Hangup(c) /\ UNCHANGED down
    BY <1>0, <1>8, <2>2, HangupTypes DEF SendStatus, Types
  <2>3. CASE down' = [down EXCEPT ![c] = <<0>>] /\ Server(c, "hangup") /\ UNCHANGED <<ssock, sock>>
    BY <1>0, <1>8, <2>1, <2>3 DEF SendStatus, Types, ServerPlaces
  <2> QED BY <1>8, <2>2, <2>3 DEF SendStatus
<1>9. CASE CleanUp(c)
  BY <1>0, <1>9, HangupTypes DEF CleanUp, Types
<1> QED BY <1>1, <1>2, <1>3, <1>4, <1>5, <1>6, <1>7, <1>8, <1>9 DEF ServerStep

\* So do the library and the network.
LEMMA NetworkTypes ==
    ASSUME Types, NEW c \in Calls, Collect(c) \/ Break(c)
    PROVE  Types'
<1>1. CASE Collect(c)
  BY <1>1 DEF Collect, Types, Socks, Unread
<1>2. CASE Break(c)
  <2>1. PICK m \in 0 .. Len(up[c]), n \in 0 .. Len(down[c]) :
           /\ up' = [up EXCEPT ![c] = SubSeq(@, 1, m)]
           /\ down' = [down EXCEPT ![c] = SubSeq(@, 1, n)]
    BY <1>2 DEF Break
  <2>2. SubSeq(up[c], 1, m) \in Seq(Item) /\ SubSeq(down[c], 1, n) \in Seq(Item)
    BY PrefixIs DEF Types
  <2> QED BY <1>2, <2>1, <2>2 DEF Break, Types, Socks, Unread
<1> QED BY <1>1, <1>2
-----------------------------------------------------------------------------
(* Steps of one call, as the others see them. *)

\* A step of c, or for it.
Only(c) ==
    /\ kind' = kind
    /\ \A d \in Calls : d # c =>
          /\ pc'[d] = pc[d] /\ spc'[d] = spc[d] /\ sock'[d] = sock[d] /\ ssock'[d] = ssock[d]
          /\ up'[d] = up[d] /\ down'[d] = down[d] /\ local'[d] = local[d]
          /\ promised'[d] = promised[d] /\ sent'[d] = sent[d] /\ got'[d] = got[d]
          /\ inode'[d] = inode[d] /\ first'[d] = first[d]
          /\ ~stale'[d] => ~stale[d]
          /\ ~stale'[d] /\ spc[d] # "done" /\ inode[d] # None => disk'[inode[d]] = disk[inode[d]]

\* What is known of the other calls does not depend on it.
LEMMA Frame ==
    ASSUME Inv, NEW c \in Calls, Only(c), NEW d \in Calls, d # c
    PROVE  CallOK(d)'
<1>1. CallOK(d)
  BY DEF Inv
<1>2. /\ pc'[d] = pc[d] /\ spc'[d] = spc[d] /\ sock'[d] = sock[d] /\ ssock'[d] = ssock[d]
      /\ up'[d] = up[d] /\ down'[d] = down[d] /\ local'[d] = local[d]
      /\ promised'[d] = promised[d] /\ sent'[d] = sent[d] /\ got'[d] = got[d]
      /\ inode'[d] = inode[d] /\ first'[d] = first[d] /\ kind'[d] = kind[d]
      /\ ~stale'[d] => ~stale[d]
      /\ ~stale'[d] /\ spc[d] # "done" /\ inode[d] # None => disk'[inode[d]] = disk[inode[d]]
  BY DEF Only
<1>3. Phase(d)'
  BY <1>1, <1>2 DEF CallOK, Phase
<1>4. ASSUME kind[d] = "get" PROVE Download(d)'
  <2>1. Download(d)
    BY <1>1, <1>4 DEF CallOK
  <2> QED BY <1>2, <2>1 DEF Download, Early, Reading, Taken, OnTheWay, Lost
<1>5. ASSUME kind[d] = "put" PROVE Upload(d)'
  <2>1. Upload(d)
    BY <1>1, <1>5 DEF CallOK
  <2> QED BY <1>2, <2>1 DEF Upload, Taking, Read, Made, Dead
<1> QED BY <1>2, <1>3, <1>4, <1>5 DEF CallOK

\* What is left to show of a step.
LEMMA Local ==
    ASSUME Inv, Types', Counts', NEW c \in Calls, Only(c), CallOK(c)'
    PROVE  Inv'
<1>1. \A d \in Calls : CallOK(d)'
  BY Frame
<1> QED BY <1>1 DEF Inv

\* The library, where a call that has it in use goes on or leaves without a clean-up.
LEMMA InUse ==
    ASSUME Types, Counts, NEW c \in Calls, pc[c] \notin {"start", "done"},
           \E p \in ClientPlaces : p # "start" /\ pc' = [pc EXCEPT ![c] = p],
           UNCHANGED <<count, collecting>>
    PROVE  Counts'
<1>1. PICK p \in ClientPlaces : p # "start" /\ pc' = [pc EXCEPT ![c] = p]
  OBVIOUS
<1>2. Active' = Active \/ Active' = Active \ {c}
  <2>1. pc'[c] = p /\ \A d \in Calls : d # c => pc'[d] = pc[d]
    BY <1>1 DEF Types
  <2> QED BY <2>1 DEF Active
<1>3. CASE Active' = Active
  BY <1>3 DEF Counts
<1>4. CASE Active' = Active \ {c}
  <2>1. IsFiniteSet(Active') /\ Cardinality(Active') <= Cardinality(Active)
        /\ Cardinality(Active') \in Nat /\ Cardinality(Active) \in Nat
    <3>1. c \in Active /\ IsFiniteSet(Active)
      BY DEF Active, Counts
    <3>2. IsFiniteSet(Active \ {c}) /\ Cardinality(Active \ {c}) = Cardinality(Active) - 1
      BY <3>1, FS_RemoveElement
    <3>3. Cardinality(Active \ {c}) \in Nat /\ Cardinality(Active) \in Nat
      BY <3>1, <3>2, FS_CardinalityType
    <3> QED BY <1>4, <3>2, <3>3
  <2>2. Active # {}
    BY DEF Active
  <2> QED BY <1>4, <2>1, <2>2 DEF Counts, Types
<1> QED BY <1>2, <1>3, <1>4

\* A step that moves no call.
LEMMA Idle ==
    ASSUME Counts, UNCHANGED <<pc, count, collecting>>
    PROVE  Counts'
<1>1. Active' = Active
  BY DEF Active
<1> QED BY <1>1 DEF Counts
-----------------------------------------------------------------------------
(* The steps of a call keep the invariant. *)

\* UDT::startup: one more has the library in use.
LEMMA StartKeeps ==
    ASSUME Inv, NEW c \in Calls, Start(c)
    PROVE  Only(c) /\ CallOK(c)' /\ Counts'
<1>1. Types /\ CallOK(c) /\ Counts
  BY DEF Inv
<1>2. /\ pc[c] = "start" /\ pc'[c] = "connect" /\ \A d \in Calls : d # c => pc'[d] = pc[d]
      /\ \A d \in Calls : d # c => sock'[d] = sock[d]
      /\ count' = count + 1 /\ collecting'
      /\ UNCHANGED <<kind, local, promised, spc, ssock, inode, path, disk, first, stale, sent, got, up, down>>
  BY <1>1 DEF Start, Client, serverVars, Types
<1>3. Only(c)
  BY <1>2 DEF Only
<1>4. CallOK(c)'
  <2>1. Phase(c)'
    BY <1>1, <1>2 DEF CallOK, Phase
  <2>2. kind[c] = "get" => Download(c)'
    BY <1>1, <1>2 DEF CallOK, Phase, Download, Early, Reading, Taken, OnTheWay, Lost
  <2>3. kind[c] = "put" => Upload(c)'
    BY <1>1, <1>2 DEF CallOK, Phase, Upload, Taking, Read, Made, Dead
  <2> QED BY <1>2, <2>1, <2>2, <2>3 DEF CallOK
<1>5. Counts'
  <2>1. Active' = Active \union {c} /\ c \notin Active
    BY <1>2 DEF Active
  <2>2. IsFiniteSet(Active') /\ Cardinality(Active') = Cardinality(Active) + 1 /\ Cardinality(Active) \in Nat
    BY <1>1, <2>1, FS_AddElement, FS_CardinalityType DEF Counts
  <2> QED BY <1>1, <1>2, <2>2 DEF Counts, Types
<1> QED BY <1>3, <1>4, <1>5

\* The connection is made, or not.
LEMMA ConnectKeeps ==
    ASSUME Inv, NEW c \in Calls, Connect(c)
    PROVE  Only(c) /\ CallOK(c)' /\ Counts'
<1>1. Types /\ CallOK(c) /\ Counts
  BY DEF Inv
<1>2. /\ pc[c] = "connect"
      /\ \/ pc'[c] = "done" /\ UNCHANGED <<sock, ssock>>
         \/ pc'[c] = "request" /\ sock'[c] = "open" /\ ssock'[c] = "open"
      /\ \A d \in Calls : d # c => pc'[d] = pc[d] /\ sock'[d] = sock[d] /\ ssock'[d] = ssock[d]
      /\ UNCHANGED <<kind, local, promised, count, collecting, spc, inode, path, disk, first, stale,
                     sent, got, up, down>>
  BY <1>1 DEF Connect, Client, Return, Types
<1>3. Only(c)
  BY <1>2 DEF Only
<1>4. CallOK(c)'
  <2>1. Phase(c)'
    BY <1>1, <1>2 DEF CallOK, Phase
  <2>2. kind[c] = "get" => Download(c)'
    BY <1>1, <1>2 DEF CallOK, Phase, Download, Early, Reading, Taken, OnTheWay, Lost
  <2>3. kind[c] = "put" => Upload(c)'
    BY <1>1, <1>2 DEF CallOK, Phase, Upload, Taking, Read, Made, Dead
  <2> QED BY <1>2, <2>1, <2>2, <2>3 DEF CallOK
<1>5. Counts'
  <2>1. \E p \in ClientPlaces : p # "start" /\ pc' = [pc EXCEPT ![c] = p]
    BY DEF Connect, Client, Return, ClientPlaces, Ways
  <2> QED BY <1>1, <1>2, <2>1, InUse
<1> QED BY <1>3, <1>4, <1>5

\* The kind and the name.
LEMMA RequestKeeps ==
    ASSUME Inv, NEW c \in Calls, Request(c)
    PROVE  Only(c) /\ CallOK(c)' /\ Counts'
<1>1. Types /\ CallOK(c) /\ Counts
  BY DEF Inv
<1>2. /\ pc[c] = "request"
      /\ \/ pc'[c] = "done" /\ UNCHANGED up
         \/ pc'[c] = kind[c] /\ ~Dead(c) /\ up'[c] = <<kind[c], "name">>
      /\ \A d \in Calls : d # c => pc'[d] = pc[d] /\ up'[d] = up[d]
      /\ UNCHANGED <<kind, sock, ssock, local, promised, count, collecting, spc, inode, path, disk,
                     first, stale, sent, got, down>>
  BY <1>1 DEF Request, Client, Return, Types, serverVars
<1>3. Only(c)
  BY <1>2 DEF Only
<1>4. CallOK(c)'
  <2>0. kind[c] \in Kinds
    BY <1>1 DEF Types
  <2>1. Phase(c)'
    BY <1>1, <1>2, <2>0 DEF CallOK, Phase, Kinds
  <2>2. kind[c] = "get" => Download(c)'
    BY <1>1, <1>2 DEF CallOK, Phase, Download, Early, Reading, Taken, OnTheWay, Lost
  <2>3. kind[c] = "put" => Upload(c)'
    <3>1. Len(<<kind[c], "name">>) = 2
      OBVIOUS
    <3>2. spc[c] \in {None, "type", "done"} /\ up[c] = <<>>
      BY <1>1, <1>2 DEF CallOK, Phase
    <3>3. CASE pc'[c] = "done" /\ up'[c] = up[c]
      BY <1>1, <1>2, <3>2, <3>3 DEF CallOK, Upload, Taking, Read, None
    <3>4. CASE pc'[c] = kind[c] /\ up'[c] = <<kind[c], "name">>
      <4> SUFFICES ASSUME kind[c] = "put" PROVE Upload(c)'
        OBVIOUS
      <4>1. Upload(c)
        BY <1>1 DEF CallOK
      <4>2. Read(c)' = 0 /\ Made(c)' = 2 /\ Len(up'[c]) = 2
        BY <1>2, <3>1, <3>2, <3>4 DEF Read, Made, None
      <4>3. \A k \in 1 .. Len(up'[c]) : ~(Read(c)' + k > 3)
        BY <4>2
      <4> HIDE <3>4
      <4> QED BY <1>2, <3>2, <4>1, <4>2, <4>3 DEF Upload, Taking, None
    <3> QED BY <1>2, <3>3, <3>4
  <2> QED BY <1>2, <2>1, <2>2, <2>3 DEF CallOK
<1>5. Counts'
  <2>1. \E p \in ClientPlaces : p # "start" /\ pc' = [pc EXCEPT ![c] = p]
    BY <1>1 DEF Request, Client, Return, ClientPlaces, Ways, Kinds, Types
  <2> QED BY <1>1, <1>2, <2>1, InUse
<1> QED BY <1>3, <1>4, <1>5

\* The size of an upload.
LEMMA SendSizeKeeps ==
    ASSUME Inv, NEW c \in Calls, SendSize(c)
    PROVE  Only(c) /\ CallOK(c)' /\ Counts'
<1>1. Types /\ CallOK(c) /\ Counts
  BY DEF Inv
<1>2. /\ pc[c] = "put"
      /\ \/ pc'[c] = "done" /\ up'[c] = up[c]
         \/ pc'[c] = "sendfile" /\ ~Dead(c) /\ up'[c] = Append(up[c], Size)
      /\ \A d \in Calls : d # c => pc'[d] = pc[d] /\ up'[d] = up[d]
      /\ UNCHANGED <<kind, sock, ssock, local, promised, count, collecting, spc, inode, path, disk,
                     first, stale, sent, got, down>>
  BY <1>1 DEF SendSize, Client, Return, Types, serverVars
<1>3. Only(c)
  BY <1>2 DEF Only
<1>4. CallOK(c)'
  <2>1. kind[c] = "put" /\ Phase(c) /\ Upload(c)
    BY <1>1, <1>2 DEF CallOK, Phase
  <2>2. Phase(c)'
    BY <1>2, <2>1 DEF Phase
  <2>3. Upload(c)'
    <3>1. CASE pc'[c] = "done" /\ up'[c] = up[c]
      BY <1>2, <2>1, <3>1 DEF Upload, Taking, Read
    <3>2. CASE pc'[c] = "sendfile" /\ ~Dead(c) /\ up'[c] = Append(up[c], Size)
      <4>1. /\ Len(up'[c]) = Len(up[c]) + 1 /\ Len(up[c]) \in Nat
            /\ \A j \in 1 .. Len(up[c]) : up'[c][j] = up[c][j]
        <5>1. up[c] \in Seq(Item) /\ Size \in Item
          BY <1>1, Items, CallsAssumption DEF Types
        <5> QED BY <3>2, <5>1, AppendIs
      <4>2. Taking(c) => Read(c) + Len(up[c]) = 2 /\ Made(c) = 2 /\ Made(c)' = 3
        BY <1>2, <2>1, <3>2 DEF Upload, Made
      <4>3. Read(c)' = Read(c) /\ (Taking(c)' <=> Taking(c)) /\ Read(c) \in Nat
        BY <1>1, <1>2 DEF Read, Taking, Types
      <4>4. Taking(c) => \A j \in 1 .. Len(up'[c]) : ~(Read(c)' + j > 3)
        BY <4>1, <4>2, <4>3
      <4> HIDE <3>2
      <4>5. pc'[c] = "sendfile"
        BY <3>2
      <4> QED BY <1>2, <2>1, <4>1, <4>2, <4>3, <4>4, <4>5 DEF Upload, Taking
    <3> QED BY <1>2, <3>1, <3>2
  <2> QED BY <1>2, <2>1, <2>2, <2>3 DEF CallOK
<1>5. Counts'
  <2>1. \E p \in ClientPlaces : p # "start" /\ pc' = [pc EXCEPT ![c] = p]
    BY <1>1 DEF SendSize, Client, Return, ClientPlaces, Ways
  <2> QED BY <1>1, <1>2, <2>1, InUse
<1> QED BY <1>3, <1>4, <1>5

\* A block of an upload.
LEMMA SendFileKeeps ==
    ASSUME Inv, NEW c \in Calls, SendFile(c)
    PROVE  Only(c) /\ CallOK(c)' /\ Counts'
<1>1. Types /\ CallOK(c) /\ Counts
  BY DEF Inv
<1>2. /\ pc[c] = "sendfile"
      /\ \/ pc'[c] \in {"done", "close"} /\ up'[c] = up[c] /\ sent'[c] = sent[c]
         \/ /\ ~Dead(c) /\ sent[c] # Size /\ pc'[c] = pc[c]
            /\ up'[c] = Append(up[c], Source(c)[sent[c] + 1]) /\ sent'[c] = sent[c] + 1
      /\ \A d \in Calls : d # c => pc'[d] = pc[d] /\ up'[d] = up[d] /\ sent'[d] = sent[d]
      /\ UNCHANGED <<kind, sock, ssock, local, promised, count, collecting, spc, inode, path, disk,
                     first, stale, got, down>>
  BY <1>1 DEF SendFile, Client, Return, Types, serverVars
<1>3. Only(c)
  BY <1>2 DEF Only
<1>4. CallOK(c)'
  <2>1. kind[c] = "put" /\ Phase(c) /\ Upload(c)
    BY <1>1, <1>2 DEF CallOK, Phase
  <2>2. Phase(c)'
    BY <1>2, <2>1 DEF Phase
  <2>3. Upload(c)'
    <3>1. CASE pc'[c] \in {"done", "close"} /\ up'[c] = up[c] /\ sent'[c] = sent[c]
      BY <1>2, <2>1, <3>1 DEF Upload, Taking, Read
    <3>2. CASE /\ ~Dead(c) /\ sent[c] # Size /\ pc'[c] = pc[c]
               /\ up'[c] = Append(up[c], Source(c)[sent[c] + 1]) /\ sent'[c] = sent[c] + 1
      <4>0. sent[c] \in Nat /\ sent[c] <= Size /\ Size \in Nat /\ got[c] \in Nat
        BY <1>1, <2>1, CallsAssumption DEF Upload, Types
      <4>1. /\ Len(up'[c]) = Len(up[c]) + 1 /\ Len(up[c]) \in Nat
            /\ \A j \in 1 .. Len(up[c]) : up'[c][j] = up[c][j]
            /\ up'[c][Len(up[c]) + 1] = <<c, sent[c] + 1>>
        <5>1. sent[c] + 1 \in 1 .. Size
          BY <3>2, <4>0
        <5>2. up[c] \in Seq(Item) /\ Source(c)[sent[c] + 1] = <<c, sent[c] + 1>>
              /\ Source(c)[sent[c] + 1] \in Item
          BY <1>1, <5>1, SourceIs DEF Types
        <5> QED BY <3>2, <5>2, AppendIs
      <4>2. /\ Made(c) = 3 + sent[c] /\ Made(c)' = 4 + sent[c] /\ sent'[c] <= Size
            /\ pc'[c] = "sendfile" /\ sent'[c] = sent[c] + 1
        BY <1>2, <3>2, <4>0 DEF Made
      <4>3. Read(c)' = Read(c) /\ (Taking(c)' <=> Taking(c)) /\ Read(c) \in Nat
        BY <1>2, <4>0 DEF Read, Taking
      <4>4. Taking(c) => Read(c) + Len(up[c]) = Made(c)
        BY <1>2, <2>1, <3>2 DEF Upload
      <4>7. Len(up[c]) \in Nat /\ Len(up'[c]) = Len(up[c]) + 1
        BY <4>1
      <4>8. Taking(c) => Read(c) + Len(up[c]) = 3 + sent[c]
        BY <4>2, <4>4
      <4>5. ASSUME Taking(c), NEW j \in 1 .. Len(up'[c]), Read(c) + j > 3
            PROVE  up'[c][j] = <<c, Read(c) + j - 3>>
        <5>1. CASE j \in 1 .. Len(up[c])
          BY <2>1, <4>1, <4>5, <5>1 DEF Upload
        <5>2. CASE j = Len(up[c]) + 1
          <6>1. /\ Read(c) \in Nat /\ Len(up[c]) \in Nat /\ sent[c] \in Nat
                /\ Read(c) + Len(up[c]) = 3 + sent[c] /\ j = Len(up[c]) + 1
            BY <4>0, <4>3, <4>5, <4>7, <4>8, <5>2
          <6>2. Read(c) + j - 3 = sent[c] + 1
            BY ONLY <6>1
          <6> QED BY <4>1, <5>2, <6>2
        <5>3. j \in 1 .. Len(up[c]) \/ j = Len(up[c]) + 1
          BY <4>7
        <5> QED BY <5>1, <5>2, <5>3
      <4>6. Taking(c) => Read(c) + Len(up'[c]) = Made(c)'
        <5>1. /\ Read(c) \in Nat /\ Len(up[c]) \in Nat /\ sent[c] \in Nat
              /\ Len(up'[c]) = Len(up[c]) + 1 /\ Made(c)' = 4 + sent[c]
          BY <4>0, <4>2, <4>3, <4>7
        <5>2. ASSUME Read(c) + Len(up[c]) = 3 + sent[c] PROVE Read(c) + Len(up'[c]) = Made(c)'
          BY ONLY <5>1, <5>2
        <5> QED BY <4>8, <5>2
      <4> HIDE <3>2
      <4> QED BY <1>2, <2>1, <4>2, <4>3, <4>5, <4>6 DEF Upload, Taking
    <3> QED BY <1>2, <3>1, <3>2
  <2> QED BY <1>2, <2>1, <2>2, <2>3 DEF CallOK
<1>5. Counts'
  <2>1. \E p \in ClientPlaces : p # "start" /\ pc' = [pc EXCEPT ![c] = p]
    <3>1. pc = [pc EXCEPT ![c] = "sendfile"]
      BY <1>1, <1>2 DEF Types
    <3> QED BY <3>1 DEF SendFile, Client, Return, ClientPlaces, Ways
  <2> QED BY <1>1, <1>2, <2>1, InUse
<1> QED BY <1>3, <1>4, <1>5

\* The size of a download, after which the file is empty.
LEMMA RecvSizeKeeps ==
    ASSUME Inv, NEW c \in Calls, RecvSize(c)
    PROVE  Only(c) /\ CallOK(c)' /\ Counts'
<1>1. Types /\ CallOK(c) /\ Counts
  BY DEF Inv
<1>2. /\ pc[c] = "get"
      /\ \/ /\ pc'[c] = "done" /\ down'[c] = down[c] /\ promised'[c] = promised[c]
            /\ local'[c] = local[c]
         \/ /\ down[c] # <<>> /\ Head(down[c]) >= 0 /\ pc'[c] = "recvfile"
            /\ promised'[c] = Head(down[c]) /\ down'[c] = Tail(down[c]) /\ local'[c] = <<>>
      /\ \A d \in Calls : d # c => /\ pc'[d] = pc[d] /\ down'[d] = down[d]
                                   /\ promised'[d] = promised[d] /\ local'[d] = local[d]
      /\ UNCHANGED <<kind, sock, ssock, count, collecting, spc, inode, path, disk,
                     first, stale, sent, got, up>>
  BY <1>1 DEF RecvSize, Client, Return, Types, serverVars
<1>3. Only(c)
  BY <1>2 DEF Only
<1>4. CallOK(c)'
  <2>1. kind[c] = "get" /\ Phase(c) /\ Download(c)
    BY <1>1, <1>2 DEF CallOK, Phase
  <2>2. Phase(c)'
    BY <1>2, <2>1 DEF Phase
  <2>3. Download(c)'
    <3>1. CASE pc'[c] = "done" /\ down'[c] = down[c]
      BY <1>2, <2>1, <3>1 DEF Download, Early, Reading, Taken, OnTheWay, Lost
    <3>2. CASE /\ down[c] # <<>> /\ Head(down[c]) >= 0 /\ pc'[c] = "recvfile"
               /\ promised'[c] = Head(down[c]) /\ down'[c] = Tail(down[c]) /\ local'[c] = <<>>
      <4>1. /\ Len(down[c]) \in Nat /\ Len(down[c]) >= 1 /\ Head(down[c]) = down[c][1]
            /\ Len(down'[c]) = Len(down[c]) - 1
            /\ \A j \in 1 .. Len(down'[c]) : down'[c][j] = down[c][1 + j]
        <5>1. down[c] \in Seq(Item)
          BY <1>1 DEF Types
        <5> QED BY <3>2, <5>1, TailIs
      <4>2. got[c] = 0 /\ Taken(c) = 0 /\ Taken(c)' = 1 /\ Reading(c)
        BY <1>2, <2>1, <3>2 DEF Download, Reading, Taken
      <4>3. \A j \in 1 .. Len(down[c]) : OnTheWay(c, j, down[c][j])
        BY <2>1, <4>1, <4>2 DEF Download
      <4>4. ~Early(c)
        BY <2>1, <3>2 DEF Download
      <4>5. promised'[c] = Len(first[c]) /\ Len(first[c]) \in Nat /\ Len(local'[c]) = 0
        <5>1. OnTheWay(c, 1, down[c][1])
          BY <4>1, <4>3
        <5>2. Len(first[c]) \in Nat
          BY <1>1, LenProperties DEF Types
        <5> QED BY <3>2, <4>1, <5>1, <5>2 DEF OnTheWay
      <4>6. ASSUME NEW j \in 1 .. Len(down'[c]) PROVE OnTheWay(c, 1 + j, down[c][j])'
        <5>1. 1 + j \in 1 .. Len(down[c]) /\ down'[c][j] = down[c][1 + j]
          BY <4>1
        <5>2. OnTheWay(c, 1 + j, down'[c][j])
          BY <4>3, <5>1
        <5> QED BY <1>2, <5>2 DEF OnTheWay
      <4>7. spc[c] = "sending" => /\ inode[c] # None /\ sent[c] <= Len(first[c])
                                  /\ ~Lost(c) => Len(down[c]) = 1 + sent[c]
        BY <2>1, <4>1, <4>2 DEF Download
      <4>8. spc'[c] = spc[c] /\ sent'[c] = sent[c] /\ sent[c] \in Nat /\ (Lost(c)' <=> Lost(c))
            /\ pc'[c] = "recvfile" /\ (Early(c)' <=> Early(c))
        BY <1>1, <1>2, <3>2 DEF Types, Lost, Early
      <4>9. spc'[c] = "sending" /\ ~Lost(c)' => Taken(c)' + Len(down'[c]) = 1 + sent'[c]
        BY <4>1, <4>2, <4>7, <4>8
      <4>10. spc[c] \in {"get", "sending"} /\ inode[c] # None /\ ~stale[c] => disk[inode[c]] = first[c]
        BY <2>1 DEF Download
      <4>11. \A j \in 1 .. Len(down'[c]) : OnTheWay(c, Taken(c) + j, down[c][j])'
        BY <4>2, <4>6
      <4> HIDE <3>2
      <4> QED BY <1>2, <4>2, <4>4, <4>5, <4>7, <4>8, <4>9, <4>10, <4>11 DEF Download
    <3> QED BY <1>2, <3>1, <3>2
  <2> QED BY <1>2, <2>1, <2>2, <2>3 DEF CallOK
<1>5. Counts'
  <2>1. \E p \in ClientPlaces : p # "start" /\ pc' = [pc EXCEPT ![c] = p]
    BY DEF RecvSize, Client, Return, ClientPlaces, Ways
  <2> QED BY <1>1, <1>2, <2>1, InUse
<1> QED BY <1>3, <1>4, <1>5

\* A block of a download.
LEMMA RecvFileKeeps ==
    ASSUME Inv, NEW c \in Calls, RecvFile(c)
    PROVE  Only(c) /\ CallOK(c)' /\ Counts'
<1>1. Types /\ CallOK(c) /\ Counts
  BY DEF Inv
<1>2. /\ pc[c] = "recvfile"
      /\ \/ /\ pc'[c] = "done" \/ (pc'[c] = "close" /\ got[c] = promised[c])
            /\ down'[c] = down[c] /\ got'[c] = got[c] /\ local'[c] = local[c]
         \/ /\ down[c] # <<>> /\ got[c] < promised[c] /\ pc'[c] = "recvfile"
            /\ local'[c] = Written(local[c], got[c] + 1, Head(down[c]))
            /\ down'[c] = Tail(down[c]) /\ got'[c] = got[c] + 1
      /\ \A d \in Calls : d # c => /\ pc'[d] = pc[d] /\ down'[d] = down[d]
                                   /\ got'[d] = got[d] /\ local'[d] = local[d]
      /\ UNCHANGED <<kind, sock, ssock, count, collecting, promised, spc, inode, path, disk,
                     first, stale, sent, up>>
  BY <1>1 DEF RecvFile, Client, Return, Types, serverVars
<1>3. Only(c)
  BY <1>2 DEF Only
<1>4. CallOK(c)'
  <2>1. kind[c] = "get" /\ Phase(c) /\ Download(c)
    BY <1>1, <1>2 DEF CallOK, Phase
  <2>2. Phase(c)'
    BY <1>2, <2>1 DEF Phase
  <2>3. Download(c)'
    <3>1. CASE /\ pc'[c] = "done" \/ (pc'[c] = "close" /\ got[c] = promised[c])
               /\ down'[c] = down[c] /\ got'[c] = got[c] /\ local'[c] = local[c]
      BY <1>2, <2>1, <3>1 DEF Download, Early, Reading, Taken, OnTheWay, Lost
    <3>2. CASE /\ down[c] # <<>> /\ got[c] < promised[c] /\ pc'[c] = "recvfile"
               /\ local'[c] = Written(local[c], got[c] + 1, Head(down[c]))
               /\ down'[c] = Tail(down[c]) /\ got'[c] = got[c] + 1
      <4>1. /\ Len(down[c]) \in Nat /\ Len(down[c]) >= 1 /\ Head(down[c]) = down[c][1]
            /\ Head(down[c]) \in Item /\ Len(down'[c]) = Len(down[c]) - 1
            /\ \A j \in 1 .. Len(down'[c]) : down'[c][j] = down[c][1 + j]
        <5>1. down[c] \in Seq(Item)
          BY <1>1 DEF Types
        <5> QED BY <3>2, <5>1, TailIs
      <4>2. /\ got[c] \in Nat /\ Taken(c) = 1 + got[c] /\ Taken(c)' = 2 + got[c] /\ Reading(c)
            /\ Len(local[c]) = got[c] /\ promised[c] = Len(first[c]) /\ ~Early(c)
            /\ ~stale[c] => \A i \in 1 .. got[c] : local[c][i] = first[c][i]
        <5>1. got[c] \in Nat
          BY <1>1 DEF Types
        <5> QED BY <1>2, <2>1, <3>2, <5>1 DEF Download, Reading, Taken
      <4>3. \A j \in 1 .. Len(down[c]) : OnTheWay(c, 1 + got[c] + j, down[c][j])
        BY <2>1, <4>1, <4>2 DEF Download
      <4>4. ~stale[c] => down[c][1] = first[c][got[c] + 1]
        <5>1. OnTheWay(c, 1 + got[c] + 1, down[c][1])
          BY <4>1, <4>3
        <5>2. 1 + got[c] + 1 > 1 /\ (1 + got[c] + 1) - 1 = got[c] + 1
          BY <4>2
        <5> QED BY <5>1, <5>2 DEF OnTheWay
      <4>5. /\ Len(local'[c]) = got'[c] /\ got'[c] <= promised'[c]
            /\ ~stale[c] => \A i \in 1 .. got'[c] : local'[c][i] = first[c][i]
        <5>1. local[c] \in Seq(Item) /\ Len(first[c]) \in Nat
          BY <1>1, LenProperties DEF Types
        <5>2. local'[c] = Append(local[c], down[c][1])
          <6>1. got[c] + 1 \in Nat \ {0} /\ got[c] + 1 = Len(local[c]) + 1 /\ Head(down[c]) \in Item
            BY <4>1, <4>2
          <6>2. Written(local[c], got[c] + 1, Head(down[c])) = Append(local[c], Head(down[c]))
            <7>1. ~(got[c] + 1 <= Len(local[c]))
              BY <5>1, <6>1, LenProperties
            <7> QED BY <7>1 DEF Written
          <6> QED BY <3>2, <4>1, <6>2
        <5>3. /\ Len(local'[c]) = got[c] + 1 /\ local'[c][got[c] + 1] = down[c][1]
              /\ \A i \in 1 .. got[c] : local'[c][i] = local[c][i]
          BY <4>1, <4>2, <5>1, <5>2, AppendIs
        <5>4. got'[c] = got[c] + 1 /\ promised'[c] = promised[c] /\ got[c] < promised[c]
          BY <1>2, <3>2
        <5>5. got'[c] <= promised'[c]
          BY <4>2, <5>1, <5>4
        <5>6. ASSUME ~stale[c], NEW i \in 1 .. got'[c] PROVE local'[c][i] = first[c][i]
          <6>1. i \in 1 .. got[c] \/ i = got[c] + 1
            BY <4>2, <5>4
          <6> QED BY <4>2, <4>4, <5>3, <5>6, <6>1
        <5> QED BY <5>3, <5>4, <5>5, <5>6
      <4>6. ASSUME NEW j \in 1 .. Len(down'[c]) PROVE OnTheWay(c, 1 + got[c] + j, down[c][j])'
        <5>1. 1 + j \in 1 .. Len(down[c]) /\ down'[c][j] = down[c][1 + j]
              /\ 1 + got[c] + (1 + j) = 1 + got'[c] + j
          <6>1. 1 + j \in 1 .. Len(down[c]) /\ down'[c][j] = down[c][1 + j]
            BY <4>1
          <6>2. got[c] \in Nat /\ got'[c] = got[c] + 1 /\ j \in Int
            BY <3>2, <4>2
          <6>3. 1 + got[c] + (1 + j) = 1 + got'[c] + j
            BY <6>2
          <6> QED BY <6>1, <6>3
        <5>2. OnTheWay(c, 1 + got'[c] + j, down'[c][j])
          BY <4>3, <5>1
        <5>3. first' = first /\ stale' = stale
          BY <1>2
        <5> QED BY <5>2, <5>3 DEF OnTheWay
      <4>7. spc[c] = "sending" => /\ inode[c] # None /\ sent[c] <= Len(first[c])
                                  /\ ~Lost(c) => 1 + got[c] + Len(down[c]) = 1 + sent[c]
        BY <2>1, <4>1, <4>2 DEF Download
      <4>8. spc'[c] = spc[c] /\ sent'[c] = sent[c] /\ sent[c] \in Nat /\ (Lost(c)' <=> Lost(c))
            /\ pc'[c] = "recvfile" /\ (Early(c)' <=> Early(c)) /\ promised'[c] = promised[c]
        BY <1>1, <1>2, <3>2 DEF Types, Lost, Early
      <4>9. spc'[c] = "sending" /\ ~Lost(c)' => Taken(c)' + Len(down'[c]) = 1 + sent'[c]
        <5>1. got[c] \in Nat /\ Taken(c)' = 2 + got[c]
          BY <4>2
        <5>2. Len(down[c]) \in Nat /\ Len(down'[c]) = Len(down[c]) - 1
          BY <4>1
        <5>3. spc'[c] = "sending" /\ ~Lost(c)' => 1 + got[c] + Len(down[c]) = 1 + sent[c]
          BY <4>7, <4>8
        <5>4. sent[c] \in Nat /\ sent'[c] = sent[c]
          BY <4>8
        <5>5. ASSUME 1 + got[c] + Len(down[c]) = 1 + sent[c]
              PROVE  Taken(c)' + Len(down'[c]) = 1 + sent'[c]
          <6> DEFINE g == got[c]
                     n == Len(down[c])
                     m == sent[c]
          <6>1. g \in Nat /\ n \in Nat /\ m \in Nat /\ 1 + g + n = 1 + m
            BY <5>1, <5>2, <5>4, <5>5
          <6>2. Taken(c)' = 2 + g /\ Len(down'[c]) = n - 1 /\ sent'[c] = m
            BY <5>1, <5>2, <5>4
          <6> HIDE DEF g, n, m
          <6>3. (2 + g) + (n - 1) = 1 + m
            BY <6>1
          <6> QED BY <6>2, <6>3
        <5> QED BY <5>3, <5>5
      <4>10. spc[c] \in {"get", "sending"} /\ inode[c] # None /\ ~stale[c] => disk[inode[c]] = first[c]
        BY <2>1 DEF Download
      <4>11. \A j \in 1 .. Len(down'[c]) : OnTheWay(c, Taken(c) + j, down[c][j])'
        <5>1. Taken(c)' = 1 + got'[c]
          BY <3>2 DEF Taken
        <5> QED BY <4>6, <5>1
      <4> HIDE <3>2
      <4>12. /\ first'[c] = first[c] /\ inode'[c] = inode[c] /\ stale'[c] = stale[c]
             /\ disk' = disk
        BY <1>2
      <4>13. promised'[c] = Len(first'[c]) /\ (~stale'[c] => \A i \in 1 .. got'[c] : local'[c][i] = first'[c][i])
        BY <4>2, <4>5, <4>8, <4>12
      <4>14. /\ ~Early(c)' /\ pc'[c] = "recvfile"
             /\ spc'[c] = "sending" => inode'[c] # None /\ sent'[c] <= Len(first'[c])
        BY <4>2, <4>7, <4>8, <4>12
      <4>15. spc'[c] \in {"get", "sending"} /\ inode'[c] # None /\ ~stale'[c] => disk'[inode'[c]] = first'[c]
        BY <4>8, <4>10, <4>12
      <4> QED BY <4>5, <4>9, <4>11, <4>13, <4>14, <4>15 DEF Download
    <3> QED BY <1>2, <3>1, <3>2
  <2> QED BY <1>2, <2>1, <2>2, <2>3 DEF CallOK
<1>5. Counts'
  <2>1. \E p \in ClientPlaces : p # "start" /\ pc' = [pc EXCEPT ![c] = p]
    <3>1. pc = [pc EXCEPT ![c] = "recvfile"]
      BY <1>1, <1>2 DEF Types
    <3> QED BY <3>1 DEF RecvFile, Client, Return, ClientPlaces, Ways
  <2> QED BY <1>1, <1>2, <2>1, InUse
<1> QED BY <1>3, <1>4, <1>5

\* UDT::close and cleanup.
LEMMA CloseKeeps ==
    ASSUME Inv, NEW c \in Calls, Close(c)
    PROVE  Only(c) /\ CallOK(c)' /\ Counts'
<1>1. Types /\ CallOK(c) /\ Counts
  BY DEF Inv
<1>2. /\ pc[c] = "close" /\ pc'[c] = "done" /\ sock'[c] = "gone"
      /\ ssock'[c] = Closed(ssock[c])
      /\ \A d \in Calls : d # c => pc'[d] = pc[d] /\ sock'[d] = sock[d] /\ ssock'[d] = ssock[d]
      /\ count' = count - 1 /\ collecting' = (count' > 0)
      /\ UNCHANGED <<kind, local, promised, spc, inode, path, disk, first, stale, sent, got, up, down>>
  BY <1>1 DEF Close, Client, Return, Types
<1>3. Only(c)
  BY <1>2 DEF Only
<1>4. CallOK(c)'
  <2>1. Phase(c)'
    BY <1>1, <1>2 DEF CallOK, Phase, Closed, None
  <2>2. kind[c] = "get" => Download(c)'
    BY <1>1, <1>2 DEF CallOK, Download, Early, Reading, Taken, OnTheWay, Lost
  <2>3. kind[c] = "put" => Upload(c)'
    BY <1>1, <1>2 DEF CallOK, Upload, Taking, Read, Made, Dead
  <2> QED BY <1>2, <2>1, <2>2, <2>3 DEF CallOK
<1>5. Counts'
  <2>1. c \in Active /\ IsFiniteSet(Active) /\ Active' = Active \ {c}
    BY <1>1, <1>2 DEF Active, Counts
  <2>2. IsFiniteSet(Active') /\ Cardinality(Active') = Cardinality(Active) - 1
        /\ Cardinality(Active') \in Nat
    BY <2>1, FS_RemoveElement, FS_CardinalityType
  <2>3. Cardinality(Active) \in Nat /\ count \in Int /\ Cardinality(Active) <= count
    BY <1>1, <2>1, FS_CardinalityType DEF Counts, Types
  <2>4. Cardinality(Active') <= count'
    BY <1>2, <2>2, <2>3
  <2>5. Active' # {} => count' > 0
    <3>1. Active' # {} => Cardinality(Active') # 0
      BY <2>2, FS_EmptySet
    <3> QED BY <1>2, <2>2, <2>3, <2>4, <3>1
  <2> QED BY <1>2, <2>2, <2>4, <2>5 DEF Counts
<1> QED BY <1>3, <1>4, <1>5

\* The answer to a removal or to a new directory.
LEMMA StatusKeeps ==
    ASSUME Inv, NEW c \in Calls, Status(c)
    PROVE  Only(c) /\ CallOK(c)' /\ Counts'
<1>1. Types /\ CallOK(c) /\ Counts
  BY DEF Inv
<1>2. /\ pc[c] \in {"rm", "mkdir"} /\ pc'[c] = "done"
      /\ \A d \in Calls : d # c => pc'[d] = pc[d] /\ down'[d] = down[d]
      /\ UNCHANGED <<kind, sock, ssock, local, promised, count, collecting, spc, inode, path, disk,
                     first, stale, sent, got, up>>
  BY <1>1 DEF Status, Client, Return, Types, serverVars
<1>3. Only(c)
  BY <1>2 DEF Only
<1>4. CallOK(c)'
  BY <1>1, <1>2 DEF CallOK, Phase
<1>5. Counts'
  <2>1. \E p \in ClientPlaces : p # "start" /\ pc' = [pc EXCEPT ![c] = p]
    BY DEF Status, Client, Return, ClientPlaces, Ways
  <2> QED BY <1>1, <1>2, <2>1, InUse
<1> QED BY <1>3, <1>4, <1>5
-----------------------------------------------------------------------------
(* The steps of a thread of the daemon keep the invariant. *)

\* A thread that hangs up leaves what is on the way.
LEMMA HangupKeeps ==
    ASSUME Inv, NEW c \in Calls, Hangup(c), spc[c] # None,
           UNCHANGED <<kind, pc, local, promised, Unread, sent, got, up, down>>
    PROVE  Only(c) /\ CallOK(c)'
<1>1. Types /\ CallOK(c)
  BY DEF Inv
<1>2. /\ spc'[c] = "done" /\ ssock'[c] = "gone"
      /\ \A d \in Calls : d # c => spc'[d] = spc[d] /\ sock'[d] = sock[d] /\ ssock'[d] = ssock[d]
      /\ UNCHANGED <<kind, pc, local, promised, inode, path, disk, first, stale, sent, got, up, down>>
  BY <1>1 DEF Hangup, Server, Types, Unread
<1>3. Only(c)
  BY <1>2 DEF Only
<1>4. Phase(c)'
  BY <1>1, <1>2 DEF CallOK, Phase, None
<1>5. kind[c] = "get" => Download(c)'
  BY <1>1, <1>2 DEF CallOK, Download, Early, Reading, Taken, OnTheWay, Lost, None
<1>6. kind[c] = "put" => Upload(c)'
  BY <1>1, <1>2 DEF CallOK, Upload, Taking, Read, Made, Dead, None
<1> QED BY <1>2, <1>3, <1>4, <1>5, <1>6 DEF CallOK

\* A connection is accepted.
LEMMA AcceptKeeps ==
    ASSUME Inv, NEW c \in Calls, Accept(c)
    PROVE  Only(c) /\ CallOK(c)'
<1>1. Types /\ CallOK(c)
  BY DEF Inv
<1>2. /\ ssock[c] # None /\ spc[c] = None /\ spc'[c] = "type"
      /\ \A d \in Calls : d # c => spc'[d] = spc[d]
      /\ UNCHANGED <<kind, pc, sock, ssock, local, promised, inode, path, disk, first, stale,
                     sent, got, up, down>>
  BY <1>1 DEF Accept, Server, Types, Unread, clientVars
<1>3. Only(c)
  BY <1>2 DEF Only
<1>4. Phase(c)'
  BY <1>1, <1>2 DEF CallOK, Phase, None
<1>5. kind[c] = "get" => Download(c)'
  BY <1>1, <1>2 DEF CallOK, Download, Early, Reading, Taken, OnTheWay, Lost, None
<1>6. kind[c] = "put" => Upload(c)'
  BY <1>1, <1>2 DEF CallOK, Upload, Taking, Read, Made, Dead, None
<1> QED BY <1>2, <1>3, <1>4, <1>5, <1>6 DEF CallOK

\* An element of what is on the way up is taken: the others follow.
LEMMA UpTaken ==
    ASSUME Inv, NEW c \in Calls, kind[c] = "put", Taking(c), up[c] # <<>>,
           up'[c] = Tail(up[c]), Read(c)' = Read(c) + 1,
           UNCHANGED <<pc, sent, sock>>
    PROVE  /\ Len(up[c]) >= 1 /\ Read(c) \in Nat
           /\ Read(c) + 1 > 3 => Head(up[c]) = <<c, Read(c) - 2>>
           /\ \A j \in 1 .. Len(up'[c]) : Read(c)' + j > 3 => up'[c][j] = <<c, Read(c)' + j - 3>>
           /\ pc'[c] \in {"put", "sendfile"} /\ ~Dead(c)' => Read(c)' + Len(up'[c]) = Made(c)'
<1>1. Types /\ Upload(c)
  BY DEF Inv, CallOK
<1>2. /\ Len(up[c]) \in Nat /\ Len(up[c]) >= 1 /\ Head(up[c]) = up[c][1]
      /\ Len(up'[c]) = Len(up[c]) - 1
      /\ \A j \in 1 .. Len(up'[c]) : up'[c][j] = up[c][1 + j]
  <2>1. up[c] \in Seq(Item)
    BY <1>1 DEF Types
  <2> QED BY <2>1, TailIs
<1>3. Read(c) \in Nat
  BY <1>1 DEF Read, Types
<1>4. \A j \in 1 .. Len(up[c]) : Read(c) + j > 3 => up[c][j] = <<c, Read(c) + j - 3>>
  BY <1>1 DEF Upload
<1>5. Read(c) + 1 > 3 => Head(up[c]) = <<c, Read(c) - 2>>
  <2>1. 1 \in 1 .. Len(up[c]) /\ Read(c) + 1 - 3 = Read(c) - 2
    BY <1>2, <1>3
  <2> QED BY <1>2, <1>4, <2>1
<1>6. ASSUME NEW j \in 1 .. Len(up'[c]), Read(c)' + j > 3
      PROVE  up'[c][j] = <<c, Read(c)' + j - 3>>
  <2>1. 1 + j \in 1 .. Len(up[c]) /\ up'[c][j] = up[c][1 + j]
    BY <1>2
  <2>2. j \in Int /\ Read(c) + (1 + j) = Read(c)' + j
    BY <1>3
  <2>3. Read(c) + (1 + j) > 3 /\ Read(c) + (1 + j) - 3 = Read(c)' + j - 3
    BY <1>3, <1>6, <2>2
  <2>4. up[c][1 + j] = <<c, Read(c) + (1 + j) - 3>>
    BY <1>4, <2>1, <2>3
  <2> QED BY <2>1, <2>3, <2>4
<1>7. pc'[c] \in {"put", "sendfile"} /\ ~Dead(c)' => Read(c)' + Len(up'[c]) = Made(c)'
  <2>1. pc[c] \in {"put", "sendfile"} /\ ~Dead(c) => Read(c) + Len(up[c]) = Made(c)
    BY <1>1 DEF Upload
  <2>2. Made(c)' = Made(c) /\ (Dead(c)' <=> Dead(c)) /\ pc'[c] = pc[c]
    BY DEF Made, Dead
  <2>3. Read(c)' + Len(up'[c]) = Read(c) + Len(up[c])
    BY <1>2, <1>3
  <2> QED BY <2>1, <2>2, <2>3
<1> QED BY <1>2, <1>3, <1>5, <1>6, <1>7

\* The kind of a call.
LEMMA RecvTypeKeeps ==
    ASSUME Inv, NEW c \in Calls, RecvType(c)
    PROVE  Only(c) /\ CallOK(c)'
<1>1. Types /\ CallOK(c)
  BY DEF Inv
<1>2. /\ spc[c] = "type"
      /\ \/ up[c] # <<>> /\ spc'[c] = "name" /\ up'[c] = Tail(up[c])
         \/ spc'[c] = "done" /\ up'[c] = up[c]
      /\ \A d \in Calls : d # c => spc'[d] = spc[d] /\ up'[d] = up[d]
      /\ UNCHANGED <<kind, pc, sock, ssock, local, promised, inode, path, disk, first, stale,
                     sent, got, down>>
  BY <1>1 DEF RecvType, Server, Types, Unread, clientVars
<1>3. Only(c)
  BY <1>2 DEF Only
<1>4. Phase(c)'
  BY <1>1, <1>2 DEF CallOK, Phase, None
<1>5. kind[c] = "get" => Download(c)'
  BY <1>1, <1>2 DEF CallOK, Download, Early, Reading, Taken, OnTheWay, Lost, None
<1>6. ASSUME kind[c] = "put" PROVE Upload(c)'
  <2>1. Upload(c) /\ Taking(c)
    BY <1>1, <1>2, <1>6 DEF CallOK, Taking
  <2>2. CASE up[c] # <<>> /\ spc'[c] = "name" /\ up'[c] = Tail(up[c])
    <3>1. Read(c) = 0 /\ Read(c)' = 1
      BY <1>2, <2>2 DEF Read
    <3>2. /\ \A j \in 1 .. Len(up'[c]) : Read(c)' + j > 3 => up'[c][j] = <<c, Read(c)' + j - 3>>
          /\ pc'[c] \in {"put", "sendfile"} /\ ~Dead(c)' => Read(c)' + Len(up'[c]) = Made(c)'
      <4>1. Read(c)' = Read(c) + 1
        BY <3>1
      <4> QED BY <1>2, <1>6, <2>1, <2>2, <4>1, UpTaken
    <3>3. got[c] = 0 /\ sent[c] <= Size /\ got[c] <= Size
          /\ (pc[c] \in {"start", "connect", "request", "put"} => sent[c] = 0)
      BY <1>2, <2>1 DEF Upload
    <3> HIDE <2>2
    <3>4. spc'[c] = "name"
      BY <2>2
    <3> QED BY <1>2, <3>2, <3>3, <3>4 DEF Upload
  <2>3. CASE spc'[c] = "done"
    BY <1>2, <2>1, <2>3 DEF Upload, Taking, None
  <2> QED BY <1>2, <2>2, <2>3
<1> QED BY <1>2, <1>3, <1>4, <1>5, <1>6 DEF CallOK

\* None is no file.
LEMMA NoFile == None \notin Inodes /\ Calls \subseteq Inodes
  BY CallsAssumption DEF Inodes, None, Old

\* A thread that writes a file marks all others that have it open.
LEMMA TouchedIs ==
    ASSUME Inv, NEW c \in Calls, NEW i \in Inodes, stale' = Touched(c, i),
           NEW s, disk' = [disk EXCEPT ![i] = s]
    PROVE  /\ stale'[c] <=> stale[c]
           /\ \A d \in Calls : d # c =>
                 /\ ~stale'[d] => ~stale[d]
                 /\ ~stale'[d] /\ spc[d] # "done" /\ inode[d] # None => disk'[inode[d]] = disk[inode[d]]
<1>1. Types
  BY DEF Inv
<1>2. \A d \in Calls : stale'[d] <=> (stale[d] \/ (d # c /\ spc[d] # "done" /\ inode[d] = i))
  BY DEF Touched
<1>3. \A k \in Inodes : k # i => disk'[k] = disk[k]
  BY <1>1 DEF Types
<1>4. \A d \in Calls : inode[d] # None => inode[d] \in Inodes
  BY <1>1 DEF Types
<1> QED BY <1>2, <1>3, <1>4

\* The name: the file is opened.
LEMMA RecvNameKeeps ==
    ASSUME Inv, NEW c \in Calls, RecvName(c)
    PROVE  Only(c) /\ CallOK(c)'
<1>1. Types /\ CallOK(c) /\ spc[c] = "name" /\ Phase(c) /\ kind[c] \in Kinds
  BY DEF Inv, RecvName, CallOK, Types
<1>2. CASE Hangup(c) /\ UNCHANGED <<up, Unread>>
  BY <1>1, <1>2, HangupKeeps DEF RecvName, None
<1>3. CASE /\ up[c] # <<>> /\ Server(c, kind[c]) /\ up' = [up EXCEPT ![c] = Tail(@)]
           /\ IF kind[c] \in {"get", "put"} THEN OpenFile(c) ELSE UNCHANGED Unread
           /\ UNCHANGED <<ssock, sock>>
  <2>1. /\ spc'[c] = kind[c] /\ up[c] # <<>> /\ up'[c] = Tail(up[c])
        /\ \A d \in Calls : d # c => spc'[d] = spc[d] /\ up'[d] = up[d]
        /\ UNCHANGED <<kind, pc, sock, ssock, local, promised, sent, got, down>>
    BY <1>1, <1>3 DEF RecvName, Server, Types
  <2>2. Phase(c)'
    BY <1>1, <2>1 DEF Phase, Kinds, None
  <2>3. CASE kind[c] = "put"
    <3>1. PICK i \in Inodes : /\ path' = i /\ inode' = [inode EXCEPT ![c] = i]
                              /\ disk' = [disk EXCEPT ![i] = <<>>]
                              /\ stale' = Touched(c, i) /\ first' = first
      <4>1. (IF path = None THEN c ELSE path) \in Inodes
        BY <1>1, NoFile DEF Types
      <4> QED BY <1>3, <2>3, <4>1 DEF OpenFile
    <3>2. inode'[c] = i /\ disk'[i] = <<>> /\ \A d \in Calls : d # c => inode'[d] = inode[d]
      BY <1>1, <3>1 DEF Types
    <3>3. Only(c)
      BY <2>1, <3>1, <3>2, TouchedIs DEF Only
    <3>4. Upload(c) /\ Taking(c) /\ Read(c) = 1 /\ Read(c)' = 2
      BY <1>1, <2>1, <2>3 DEF CallOK, Taking, Read
    <3>5. /\ \A j \in 1 .. Len(up'[c]) : Read(c)' + j > 3 => up'[c][j] = <<c, Read(c)' + j - 3>>
          /\ pc'[c] \in {"put", "sendfile"} /\ ~Dead(c)' => Read(c)' + Len(up'[c]) = Made(c)'
      <4>1. Read(c)' = Read(c) + 1
        BY <3>4
      <4> QED BY <2>1, <2>3, <3>4, <4>1, UpTaken
    <3>6. got'[c] = 0 /\ sent'[c] <= Size /\ got'[c] <= Size
          /\ (pc'[c] \in {"start", "connect", "request", "put"} => sent'[c] = 0)
      BY <1>1, <2>1, <3>4 DEF Upload
    <3>7. inode'[c] # None /\ Len(disk'[inode'[c]]) = 0 /\ spc'[c] = "put"
      BY <2>1, <2>3, <3>2, NoFile
    <3>8. Upload(c)'
      BY <3>5, <3>6, <3>7 DEF Upload
    <3> QED BY <2>1, <2>2, <2>3, <3>3, <3>8 DEF CallOK
  <2>4. CASE kind[c] = "get"
    <3>1. /\ inode'[c] = path /\ first'[c] = IF path = None THEN <<>> ELSE disk[path]
          /\ \A d \in Calls : d # c => inode'[d] = inode[d] /\ first'[d] = first[d] /\ stale'[d] = stale[d]
          /\ UNCHANGED <<path, disk>>
      BY <1>1, <1>3, <2>4 DEF OpenFile, Types
    <3>2. Only(c)
      BY <2>1, <3>1 DEF Only
    <3>3. Download(c) /\ Early(c)
      BY <1>1, <2>4 DEF CallOK, Early
    <3>4. Download(c)'
      <4>1. /\ down[c] = <<>> /\ sent[c] = 0 /\ pc[c] \notin {"recvfile", "close"}
            /\ Reading(c) /\ pc[c] # "recvfile" => got[c] = 0
        BY <3>3 DEF Download
      <4>2. spc'[c] = "get" /\ (Reading(c)' <=> Reading(c))
        BY <2>1, <2>4 DEF Reading
      <4>3. inode'[c] # None => disk'[inode'[c]] = first'[c]
        BY <3>1
      <4>4. /\ down'[c] = <<>> /\ sent'[c] = 0 /\ pc'[c] \notin {"recvfile", "close"}
            /\ Reading(c)' /\ pc'[c] # "recvfile" => got'[c] = 0
        BY <2>1, <4>1, <4>2
      <4> QED BY <4>2, <4>3, <4>4 DEF Download
    <3> QED BY <2>1, <2>2, <2>4, <3>2, <3>4 DEF CallOK
  <2>5. CASE kind[c] \notin {"get", "put"}
    <3>1. UNCHANGED <<inode, path, disk, first, stale>>
      BY <1>3, <2>5 DEF Unread
    <3>2. Only(c)
      BY <2>1, <3>1 DEF Only
    <3> QED BY <2>1, <2>2, <2>5, <3>2 DEF CallOK
  <2> QED BY <2>3, <2>4, <2>5
<1> QED BY <1>2, <1>3 DEF RecvName

\* The size of a download.
LEMMA SendSizeOfKeeps ==
    ASSUME Inv, NEW c \in Calls, SendSizeOf(c)
    PROVE  Only(c) /\ CallOK(c)'
<1>1. Types /\ CallOK(c) /\ spc[c] = "get" /\ Phase(c) /\ kind[c] = "get" /\ Download(c)
  BY DEF Inv, SendSizeOf, CallOK, Phase
<1> DEFINE size == IF inode[c] = None THEN -1 ELSE Len(disk[inode[c]])
<1>2. CASE Hangup(c) /\ UNCHANGED <<down, first>>
  <2>1. UNCHANGED <<kind, pc, local, promised, Unread, sent, got, up, down>>
    BY <1>2 DEF SendSizeOf, Unread
  <2> QED BY <1>1, <1>2, <2>1, HangupKeeps DEF None
<1>3. CASE /\ down' = [down EXCEPT ![c] = <<size>>]
           /\ first' = [first EXCEPT ![c] = IF size < 0 THEN <<>> ELSE disk[inode[c]]]
           /\ Server(c, IF size <= 0 THEN "hangup" ELSE "sending") /\ UNCHANGED <<ssock, sock>>
  <2>1. (size = -1 /\ inode[c] = None) \/ (size \in Nat /\ inode[c] # None /\ size = Len(disk[inode[c]]))
    BY <1>1, LenProperties DEF Types
  <2> HIDE DEF size
  <2>2. /\ down'[c] = <<size>> /\ first'[c] = IF size < 0 THEN <<>> ELSE disk[inode[c]]
        /\ spc'[c] = IF size <= 0 THEN "hangup" ELSE "sending"
        /\ \A d \in Calls : d # c => spc'[d] = spc[d] /\ down'[d] = down[d] /\ first'[d] = first[d]
        /\ UNCHANGED <<kind, pc, sock, ssock, local, promised, inode, path, disk, stale, sent, got, up>>
    BY <1>1, <1>3 DEF SendSizeOf, Server, Types
  <2>3. Only(c)
    BY <2>2 DEF Only
  <2>4. Phase(c)'
    BY <1>1, <2>2 DEF Phase, None
  <2>5. Len(down'[c]) = 1 /\ down'[c][1] = size
    BY <2>2
  <2>6. size \in {-1, Len(first'[c])} /\ Len(first'[c]) \in Nat
    BY <2>1, <2>2
  <2>7. sent[c] = 0 /\ pc[c] \notin {"recvfile", "close"} /\ (Reading(c) => got[c] = 0)
        /\ Taken(c) = 0
    BY <1>1 DEF Download, Early, Taken
  <2>8. spc'[c] = "sending" => inode[c] # None /\ disk[inode[c]] = first'[c]
    BY <2>1, <2>2
  <2>9. (Reading(c)' <=> Reading(c)) /\ Taken(c)' = 0 /\ sent'[c] = 0 /\ pc'[c] = pc[c] /\ got'[c] = got[c]
        /\ inode'[c] = inode[c] /\ disk' = disk /\ ~Early(c)' /\ spc'[c] # "get"
    BY <2>2, <2>7 DEF Reading, Taken, Early, None
  <2>10. \A j \in 1 .. Len(down'[c]) : OnTheWay(c, Taken(c) + j, down[c][j])'
    <3>1. OnTheWay(c, Taken(c) + 1, down[c][1])'
      BY <2>5, <2>6, <2>9 DEF OnTheWay
    <3> QED BY <2>5, <3>1
  <2>11. Taken(c)' + Len(down'[c]) = 1 + sent'[c] /\ sent'[c] <= Len(first'[c])
    BY <2>5, <2>6, <2>9
  <2>12. Download(c)'
    BY <2>7, <2>8, <2>9, <2>10, <2>11 DEF Download
  <2> QED BY <1>1, <2>2, <2>3, <2>4, <2>12 DEF CallOK
<1> QED BY <1>2, <1>3 DEF SendSizeOf

\* A block of a download is sent.
LEMMA SendBlockKeeps ==
    ASSUME Inv, NEW c \in Calls, SendBlock(c)
    PROVE  Only(c) /\ CallOK(c)'
<1>1. Types /\ CallOK(c) /\ spc[c] = "sending" /\ Phase(c) /\ kind[c] = "get" /\ Download(c)
  BY DEF Inv, SendBlock, CallOK, Phase
<1>2. CASE Hangup(c) /\ UNCHANGED <<down, sent>>
  <2>1. UNCHANGED <<kind, pc, local, promised, Unread, sent, got, up, down>>
    BY <1>2 DEF SendBlock, Unread
  <2> QED BY <1>1, <1>2, <2>1, HangupKeeps DEF None
<1>3. CASE Server(c, "hangup") /\ UNCHANGED <<down, sent, ssock, sock>>
  <2>1. /\ spc'[c] = "hangup" /\ \A d \in Calls : d # c => spc'[d] = spc[d]
        /\ UNCHANGED <<kind, pc, sock, ssock, local, promised, inode, path, disk, first, stale,
                       sent, got, up, down>>
    BY <1>1, <1>3 DEF SendBlock, Server, Types, Unread
  <2>2. Only(c)
    BY <2>1 DEF Only
  <2>3. Phase(c)'
    BY <1>1, <2>1 DEF Phase, None
  <2>4. Download(c)'
    BY <1>1, <2>1 DEF Download, Early, Reading, Taken, OnTheWay, Lost, None
  <2> QED BY <1>1, <2>1, <2>2, <2>3, <2>4 DEF CallOK
<1>4. CASE /\ ~Lost(c) /\ sent[c] # Len(first[c]) /\ UNCHANGED <<spc, ssock, sock>>
           /\ down' = [down EXCEPT ![c] = Append(@, disk[inode[c]][sent[c] + 1])]
           /\ sent' = [sent EXCEPT ![c] = @ + 1]
           /\ ~(sent[c] < Len(first[c]) /\ sent[c] >= Len(disk[inode[c]]))
  <2> DEFINE x == disk[inode[c]][sent[c] + 1]
  <2>1. /\ down'[c] = Append(down[c], x) /\ sent'[c] = sent[c] + 1
        /\ \A d \in Calls : d # c => down'[d] = down[d] /\ sent'[d] = sent[d]
        /\ UNCHANGED <<kind, pc, spc, sock, ssock, local, promised, inode, path, disk, first, stale,
                       got, up>>
    BY <1>1, <1>4 DEF SendBlock, Types, Unread
  <2>2. Only(c)
    BY <2>1 DEF Only
  <2>3. Phase(c)'
    BY <1>1, <2>1 DEF Phase
  <2>4. /\ inode[c] # None /\ sent[c] <= Len(first[c]) /\ ~Early(c)
        /\ Reading(c) => Taken(c) + Len(down[c]) = 1 + sent[c]
        /\ ~stale[c] => disk[inode[c]] = first[c]
    BY <1>1, <1>4 DEF Download, Early, None
  <2>5. sent[c] \in Nat /\ Len(first[c]) \in Nat /\ down[c] \in Seq(Item) /\ Len(down[c]) \in Nat
    BY <1>1, LenProperties DEF Types
  <2>6. x \in Item
    <3>1. disk[inode[c]] \in Seq(Item)
      BY <1>1, <2>4 DEF Types
    <3>2. Len(disk[inode[c]]) \in Nat
      BY <3>1, LenProperties
    <3>3. sent[c] + 1 \in 1 .. Len(disk[inode[c]])
      BY <1>4, <2>4, <2>5, <3>2
    <3> QED BY <3>1, <3>3, ElementOfSeq
  <2>7. ~stale[c] => x = first[c][sent[c] + 1]
    BY <2>4
  <2> HIDE DEF x
  <2>8. /\ Len(down'[c]) = Len(down[c]) + 1 /\ down'[c][Len(down[c]) + 1] = x
        /\ \A j \in 1 .. Len(down[c]) : down'[c][j] = down[c][j]
    BY <2>1, <2>5, <2>6, AppendIs
  <2>9. (Reading(c)' <=> Reading(c)) /\ Taken(c)' = Taken(c) /\ Taken(c) \in Nat /\ ~Early(c)'
    BY <1>1, <2>1, <2>4 DEF Reading, Taken, Early, Types
  <2>10. ASSUME Reading(c), NEW j \in 1 .. Len(down'[c]) PROVE OnTheWay(c, Taken(c) + j, down[c][j])'
    <3>1. CASE j \in 1 .. Len(down[c])
      <4>1. OnTheWay(c, Taken(c) + j, down[c][j])
        BY <1>1, <2>10, <3>1 DEF Download
      <4> QED BY <2>1, <2>8, <2>9, <3>1, <4>1 DEF OnTheWay
    <3>2. CASE j = Len(down[c]) + 1
      <4>1. Taken(c) + j = 2 + sent[c]
        <5>1. Taken(c) + Len(down[c]) = 1 + sent[c]
          BY <2>4, <2>10
        <5> QED BY <2>5, <2>9, <3>2, <5>1
      <4>2. OnTheWay(c, 2 + sent[c], x)
        <5>1. 2 + sent[c] # 1 /\ (2 + sent[c]) - 1 = sent[c] + 1
          BY <2>5
        <5> QED BY <2>7, <5>1 DEF OnTheWay
      <4> QED BY <2>1, <2>8, <2>9, <3>2, <4>1, <4>2 DEF OnTheWay
    <3>3. j \in 1 .. Len(down[c]) \/ j = Len(down[c]) + 1
      BY <2>5, <2>8
    <3> QED BY <3>1, <3>2, <3>3
  <2>11. Reading(c) => Taken(c)' + Len(down'[c]) = 1 + sent'[c]
    BY <2>1, <2>4, <2>5, <2>8, <2>9
  <2>12. sent'[c] <= Len(first'[c])
    BY <1>4, <2>1, <2>4, <2>5
  <2>13. /\ pc[c] \in {"recvfile", "close"} =>
              /\ promised[c] = Len(first[c]) /\ Len(local[c]) = got[c] /\ got[c] <= promised[c]
              /\ ~stale[c] => \A i \in 1 .. got[c] : local[c][i] = first[c][i]
         /\ pc[c] = "close" => got[c] = promised[c]
         /\ Reading(c) /\ pc[c] # "recvfile" => got[c] = 0
    BY <1>1 DEF Download
  <2>14. Download(c)'
    BY <2>1, <2>4, <2>9, <2>10, <2>11, <2>12, <2>13 DEF Download
  <2> QED BY <1>1, <2>1, <2>2, <2>3, <2>14 DEF CallOK
<1> QED BY <1>2, <1>3, <1>4 DEF SendBlock

\* A block of an upload is written.
LEMMA WriteKeeps ==
    ASSUME Inv, NEW c \in Calls, RecvBlock(c), spc[c] = "receiving", up[c] # <<>>, got[c] < Size,
           disk' = [disk EXCEPT ![inode[c]] = Written(@, got[c] + 1, Head(up[c]))],
           stale' = Touched(c, inode[c]), got' = [got EXCEPT ![c] = @ + 1],
           up' = [up EXCEPT ![c] = Tail(@)], UNCHANGED <<spc, ssock, sock>>
    PROVE  Only(c) /\ CallOK(c)'
<1>1. Types /\ CallOK(c) /\ Phase(c) /\ kind[c] = "put" /\ Upload(c)
  BY DEF Inv, CallOK, Phase
<1>2. /\ inode[c] \in Inodes /\ inode[c] # None /\ got[c] \in Nat
      /\ ~stale[c] => /\ Len(disk[inode[c]]) = got[c]
                      /\ \A i \in 1 .. got[c] : disk[inode[c]][i] = <<c, i>>
  BY <1>1 DEF Types, Upload
<1>3. /\ up'[c] = Tail(up[c]) /\ got'[c] = got[c] + 1
      /\ disk'[inode[c]] = Written(disk[inode[c]], got[c] + 1, Head(up[c]))
      /\ \A d \in Calls : d # c => up'[d] = up[d] /\ got'[d] = got[d]
      /\ UNCHANGED <<kind, pc, spc, sock, ssock, local, promised, inode, path, first, sent, down>>
  BY <1>1, <1>2 DEF RecvBlock, Types
<1>4. /\ stale'[c] <=> stale[c]
      /\ \A d \in Calls : d # c =>
            /\ ~stale'[d] => ~stale[d]
            /\ ~stale'[d] /\ spc[d] # "done" /\ inode[d] # None => disk'[inode[d]] = disk[inode[d]]
  <2>1. \A d \in Calls : stale'[d] <=> (stale[d] \/ (d # c /\ spc[d] # "done" /\ inode[d] = inode[c]))
    BY DEF Touched
  <2>2. \A k \in Inodes : k # inode[c] => disk'[k] = disk[k]
    BY <1>1 DEF Types
  <2>3. \A d \in Calls : inode[d] # None => inode[d] \in Inodes
    BY <1>1 DEF Types
  <2> QED BY <2>1, <2>2, <2>3
<1>5. Only(c)
  BY <1>3, <1>4 DEF Only
<1>6. Phase(c)'
  BY <1>1, <1>3 DEF Phase, None
<1>7. Taking(c) /\ Read(c) = 3 + got[c] /\ Read(c)' = 3 + got'[c] /\ Read(c)' = Read(c) + 1
  <2>1. Taking(c) /\ Read(c) = 3 + got[c] /\ Read(c)' = 3 + got'[c]
    BY <1>3 DEF Taking, Read
  <2> QED BY <1>2, <1>3, <2>1
<1>8. /\ Len(up[c]) >= 1 /\ Read(c) \in Nat
      /\ Read(c) + 1 > 3 => Head(up[c]) = <<c, Read(c) - 2>>
      /\ \A j \in 1 .. Len(up'[c]) : Read(c)' + j > 3 => up'[c][j] = <<c, Read(c)' + j - 3>>
      /\ pc'[c] \in {"put", "sendfile"} /\ ~Dead(c)' => Read(c)' + Len(up'[c]) = Made(c)'
  BY <1>1, <1>3, <1>7, UpTaken
<1>9. Head(up[c]) = <<c, got[c] + 1>> /\ Head(up[c]) \in Item
  <2>1. Read(c) + 1 > 3 /\ Read(c) - 2 = got[c] + 1
    BY <1>2, <1>7
  <2>2. up[c] \in Seq(Item)
    BY <1>1 DEF Types
  <2> QED BY <1>8, <2>1, <2>2, TailIs
<1>10. ASSUME ~stale[c]
       PROVE  /\ Len(disk'[inode[c]]) = got[c] + 1
              /\ \A i \in 1 .. got[c] + 1 : disk'[inode[c]][i] = <<c, i>>
  <2>1. disk[inode[c]] \in Seq(Item) /\ got[c] + 1 \in Nat \ {0} /\ got[c] + 1 = Len(disk[inode[c]]) + 1
    BY <1>1, <1>2, <1>10 DEF Types
  <2>2. disk'[inode[c]] = Append(disk[inode[c]], Head(up[c]))
    <3>1. Head(up[c]) \in Item
      BY <1>9
    <3>2. Written(disk[inode[c]], got[c] + 1, Head(up[c])) = Append(disk[inode[c]], Head(up[c]))
      BY <2>1, <3>1, WrittenIs
    <3> QED BY <1>3, <3>2
  <2>3. /\ Len(disk'[inode[c]]) = Len(disk[inode[c]]) + 1
        /\ disk'[inode[c]][Len(disk[inode[c]]) + 1] = Head(up[c])
        /\ \A i \in 1 .. Len(disk[inode[c]]) : disk'[inode[c]][i] = disk[inode[c]][i]
    BY <1>9, <2>1, <2>2, AppendIs
  <2>4. ASSUME NEW i \in 1 .. got[c] + 1 PROVE disk'[inode[c]][i] = <<c, i>>
    <3>1. i \in 1 .. got[c] \/ i = got[c] + 1
      BY <1>2
    <3> QED BY <1>2, <1>9, <1>10, <2>3, <3>1
  <2> QED BY <1>2, <1>10, <2>3, <2>4
<1>11. /\ sent'[c] <= Size /\ got'[c] <= Size
       /\ pc'[c] \in {"start", "connect", "request", "put"} => sent'[c] = 0
  BY <1>1, <1>2, <1>3, CallsAssumption DEF Upload
<1>12. Upload(c)'
  BY <1>2, <1>3, <1>4, <1>8, <1>10, <1>11 DEF Upload
<1> QED BY <1>1, <1>3, <1>5, <1>6, <1>12 DEF CallOK

\* The size of an upload, its blocks, its end.
LEMMA RecvBlockKeeps ==
    ASSUME Inv, NEW c \in Calls, RecvBlock(c)
    PROVE  Only(c) /\ CallOK(c)'
<1>1. /\ Types /\ CallOK(c) /\ spc[c] \in {"put", "receiving"} /\ Phase(c) /\ kind[c] = "put"
      /\ Upload(c) /\ Taking(c)
  BY DEF Inv, RecvBlock, CallOK, Phase, Taking
<1>2. CASE Hangup(c) /\ UNCHANGED <<up, disk, got, stale>>
  <2>1. UNCHANGED <<kind, pc, local, promised, Unread, sent, got, up, down>>
    BY <1>2 DEF RecvBlock, Unread
  <2> QED BY <1>1, <1>2, <2>1, HangupKeeps DEF None
<1>3. CASE /\ spc[c] = "put" /\ up[c] # <<>> /\ Server(c, "receiving")
           /\ up' = [up EXCEPT ![c] = Tail(@)] /\ UNCHANGED <<disk, got, stale, ssock, sock>>
  <2>1. /\ spc'[c] = "receiving" /\ up'[c] = Tail(up[c])
        /\ \A d \in Calls : d # c => spc'[d] = spc[d] /\ up'[d] = up[d]
        /\ UNCHANGED <<kind, pc, sock, ssock, local, promised, inode, path, disk, first, stale,
                       sent, got, down>>
    BY <1>1, <1>3 DEF RecvBlock, Server, Types
  <2>2. Only(c)
    BY <2>1 DEF Only
  <2>3. Phase(c)'
    BY <1>1, <2>1 DEF Phase, None
  <2>4. got[c] = 0 /\ Read(c) = 2 /\ Read(c)' = 3 + got'[c] /\ Read(c)' = Read(c) + 1
    <3>1. got[c] = 0
      BY <1>1, <1>3 DEF Upload
    <3> QED BY <1>3, <2>1, <3>1 DEF Read
  <2>5. /\ \A j \in 1 .. Len(up'[c]) : Read(c)' + j > 3 => up'[c][j] = <<c, Read(c)' + j - 3>>
        /\ pc'[c] \in {"put", "sendfile"} /\ ~Dead(c)' => Read(c)' + Len(up'[c]) = Made(c)'
    BY <1>1, <1>3, <2>1, <2>4, UpTaken
  <2>6. /\ sent[c] <= Size /\ got[c] <= Size /\ inode[c] # None
        /\ pc[c] \in {"start", "connect", "request", "put"} => sent[c] = 0
        /\ ~stale[c] => /\ Len(disk[inode[c]]) = got[c]
                        /\ \A i \in 1 .. got[c] : disk[inode[c]][i] = <<c, i>>
    BY <1>1, <1>3 DEF Upload
  <2>7. Upload(c)'
    BY <2>1, <2>5, <2>6 DEF Upload
  <2> QED BY <1>1, <2>1, <2>2, <2>3, <2>7 DEF CallOK
<1>4. CASE /\ spc[c] = "receiving" /\ got[c] < Size /\ up[c] # <<>>
           /\ disk' = [disk EXCEPT ![inode[c]] = Written(@, got[c] + 1, Head(up[c]))]
           /\ stale' = Touched(c, inode[c])
           /\ got' = [got EXCEPT ![c] = @ + 1] /\ up' = [up EXCEPT ![c] = Tail(@)]
           /\ UNCHANGED <<spc, ssock, sock>>
  BY <1>4, WriteKeeps
<1>5. CASE /\ spc[c] = "receiving" /\ got[c] = Size /\ Server(c, "hangup")
           /\ UNCHANGED <<up, disk, got, stale, ssock, sock>>
  <2>1. /\ spc'[c] = "hangup" /\ \A d \in Calls : d # c => spc'[d] = spc[d]
        /\ UNCHANGED <<kind, pc, sock, ssock, local, promised, inode, path, disk, first, stale,
                       sent, got, up, down>>
    BY <1>1, <1>5 DEF RecvBlock, Server, Types
  <2>2. Only(c)
    BY <2>1 DEF Only
  <2>3. Phase(c)'
    BY <1>1, <2>1 DEF Phase, None
  <2>4. Upload(c)'
    BY <1>1, <1>5, <2>1 DEF Upload, Taking, None
  <2> QED BY <1>1, <2>1, <2>2, <2>3, <2>4 DEF CallOK
<1> QED BY <1>2, <1>3, <1>4, <1>5 DEF RecvBlock

\* A removal: files that are open stay.
LEMMA RemoveKeeps ==
    ASSUME Inv, NEW c \in Calls, Remove(c)
    PROVE  Only(c) /\ CallOK(c)'
<1>1. Types /\ CallOK(c) /\ spc[c] = "rm" /\ Phase(c) /\ kind[c] \in {"rm", "mkdir"}
  BY DEF Inv, Remove, CallOK, Phase
<1>2. CASE Hangup(c) /\ UNCHANGED path
  <2>1. UNCHANGED <<kind, pc, local, promised, Unread, sent, got, up, down>>
    BY <1>2 DEF Remove, Unread
  <2> QED BY <1>1, <1>2, <2>1, HangupKeeps DEF None
<1>3. CASE Server(c, "status") /\ UNCHANGED <<ssock, sock>>
  <2>1. /\ spc'[c] = "status" /\ \A d \in Calls : d # c => spc'[d] = spc[d]
        /\ UNCHANGED <<kind, pc, sock, ssock, local, promised, inode, disk, first, stale,
                       sent, got, up, down>>
    BY <1>1, <1>3 DEF Remove, Server, Types
  <2>2. Only(c)
    BY <2>1 DEF Only
  <2>3. Phase(c)'
    BY <1>1, <2>1 DEF Phase, None
  <2> QED BY <1>1, <2>1, <2>2, <2>3 DEF CallOK
<1> QED BY <1>2, <1>3 DEF Remove

\* The status of a removal or of a new directory.
LEMMA SendStatusKeeps ==
    ASSUME Inv, NEW c \in Calls, SendStatus(c)
    PROVE  Only(c) /\ CallOK(c)'
<1>1. /\ Types /\ CallOK(c) /\ spc[c] \in {"status", "mkdir"} /\ Phase(c)
      /\ kind[c] \in {"rm", "mkdir"}
  BY DEF Inv, SendStatus, CallOK, Phase
<1>2. CASE Hangup(c) /\ UNCHANGED down
  <2>1. UNCHANGED <<kind, pc, local, promised, Unread, sent, got, up, down>>
    BY <1>2 DEF SendStatus, Unread
  <2> QED BY <1>1, <1>2, <2>1, HangupKeeps DEF None
<1>3. CASE down' = [down EXCEPT ![c] = <<0>>] /\ Server(c, "hangup") /\ UNCHANGED <<ssock, sock>>
  <2>1. /\ spc'[c] = "hangup" /\ \A d \in Calls : d # c => spc'[d] = spc[d] /\ down'[d] = down[d]
        /\ UNCHANGED <<kind, pc, sock, ssock, local, promised, inode, path, disk, first, stale,
                       sent, got, up>>
    BY <1>1, <1>3 DEF SendStatus, Server, Types, Unread
  <2>2. Only(c)
    BY <2>1 DEF Only
  <2>3. Phase(c)'
    BY <1>1, <2>1 DEF Phase, None
  <2> QED BY <1>1, <2>1, <2>2, <2>3 DEF CallOK
<1> QED BY <1>2, <1>3 DEF SendStatus

\* The end of the thread.
LEMMA CleanUpKeeps ==
    ASSUME Inv, NEW c \in Calls, CleanUp(c)
    PROVE  Only(c) /\ CallOK(c)'
<1>1. UNCHANGED <<kind, pc, local, promised, Unread, sent, got, up, down>>
  BY DEF CleanUp, Unread
<1> QED BY <1>1, HangupKeeps DEF CleanUp, None
-----------------------------------------------------------------------------
(* The library and the network keep the invariant. *)

\* Nothing is sent to a broken socket, so it may as well be gone.
LEMMA CollectKeeps ==
    ASSUME Inv, NEW c \in Calls, Collect(c)
    PROVE  Only(c) /\ CallOK(c)'
<1>1. Types /\ CallOK(c)
  BY DEF Inv
<1>2. /\ \A d \in Calls : d # c => sock'[d] = sock[d] /\ ssock'[d] = ssock[d]
      /\ (ssock'[c] = None <=> ssock[c] = None) /\ (Lost(c)' <=> Lost(c)) /\ (Dead(c)' <=> Dead(c))
      /\ UNCHANGED <<kind, pc, spc, local, promised, inode, path, disk, first, stale, sent, got, up, down>>
  BY <1>1 DEF Collect, Types, Unread, Lost, Dead, None
<1>3. Only(c)
  BY <1>2 DEF Only
<1>4. Phase(c)'
  BY <1>1, <1>2 DEF CallOK, Phase
<1>5. kind[c] = "get" => Download(c)'
  BY <1>1, <1>2 DEF CallOK, Download, Early, Reading, Taken, OnTheWay
<1>6. kind[c] = "put" => Upload(c)'
  BY <1>1, <1>2 DEF CallOK, Upload, Taking, Read, Made
<1> QED BY <1>2, <1>3, <1>4, <1>5, <1>6 DEF CallOK

\* A connection that breaks leaves a beginning of what is on the way.
LEMMA BreakKeeps ==
    ASSUME Inv, NEW c \in Calls, Break(c)
    PROVE  Only(c) /\ CallOK(c)'
<1>1. Types /\ CallOK(c)
  BY DEF Inv
<1>2. PICK m \in 0 .. Len(up[c]), n \in 0 .. Len(down[c]) :
         /\ up' = [up EXCEPT ![c] = SubSeq(@, 1, m)]
         /\ down' = [down EXCEPT ![c] = SubSeq(@, 1, n)]
  BY DEF Break
<1>3. /\ up'[c] = SubSeq(up[c], 1, m) /\ down'[c] = SubSeq(down[c], 1, n)
      /\ sock'[c] = "broken" /\ ssock'[c] = "broken" /\ ssock[c] = "open"
      /\ \A d \in Calls : d # c => /\ sock'[d] = sock[d] /\ ssock'[d] = ssock[d]
                                   /\ up'[d] = up[d] /\ down'[d] = down[d]
      /\ UNCHANGED <<kind, pc, spc, local, promised, inode, path, disk, first, stale, sent, got>>
  BY <1>1, <1>2 DEF Break, Types, Unread
<1>4. /\ Len(up'[c]) = m /\ m <= Len(up[c]) /\ \A j \in 1 .. m : up'[c][j] = up[c][j]
      /\ Len(down'[c]) = n /\ n <= Len(down[c]) /\ \A j \in 1 .. n : down'[c][j] = down[c][j]
      /\ up'[c] \in Seq(Item) /\ down'[c] \in Seq(Item)
      /\ Len(up[c]) \in Nat /\ Len(down[c]) \in Nat
  <2>1. up[c] \in Seq(Item) /\ down[c] \in Seq(Item)
    BY <1>1 DEF Types
  <2>2. Len(up[c]) \in Nat /\ Len(down[c]) \in Nat
    BY <2>1, LenProperties
  <2> QED BY <1>3, <2>1, <2>2, PrefixIs
<1>5. (up[c] = <<>> => up'[c] = <<>>) /\ (down[c] = <<>> => down'[c] = <<>>)
  <2>1. (up[c] = <<>> => Len(up'[c]) = 0) /\ (down[c] = <<>> => Len(down'[c]) = 0)
    BY <1>4
  <2> QED BY <1>4, <2>1, EmptySeq
<1>6. Only(c)
  BY <1>3 DEF Only
<1>7. Phase(c)'
  BY <1>1, <1>3, <1>5 DEF CallOK, Phase, None
<1>8. Lost(c)' /\ Dead(c)'
  BY <1>3 DEF Lost, Dead
<1>9. ASSUME kind[c] = "get" PROVE Download(c)'
  <2>1. Download(c)
    BY <1>1, <1>9 DEF CallOK
  <2>2. Reading(c)' => \A j \in 1 .. Len(down'[c]) : OnTheWay(c, Taken(c) + j, down[c][j])'
    <3>1. ASSUME Reading(c), NEW j \in 1 .. n PROVE OnTheWay(c, Taken(c) + j, down[c][j])'
      <4>1. OnTheWay(c, Taken(c) + j, down[c][j])
        BY <1>4, <2>1, <3>1 DEF Download
      <4> QED BY <1>3, <1>4, <4>1 DEF OnTheWay, Taken
    <3> QED BY <1>3, <1>4, <3>1 DEF Reading
  <2> QED BY <1>3, <1>5, <1>8, <2>1, <2>2 DEF Download, Early, Reading
<1>10. ASSUME kind[c] = "put" PROVE Upload(c)'
  <2>1. Upload(c)
    BY <1>1, <1>10 DEF CallOK
  <2>2. Taking(c)' => \A j \in 1 .. Len(up'[c]) : Read(c)' + j > 3 => up'[c][j] = <<c, Read(c)' + j - 3>>
    <3>1. Read(c)' = Read(c) /\ (Taking(c)' <=> Taking(c))
      BY <1>3 DEF Read, Taking
    <3> QED BY <1>4, <2>1, <3>1 DEF Upload
  <2> QED BY <1>3, <1>8, <2>1, <2>2 DEF Upload, Taking
<1> QED BY <1>3, <1>6, <1>7, <1>9, <1>10 DEF CallOK
-----------------------------------------------------------------------------
(* The invariant. *)

\* The invariant holds before the first call starts.
LEMMA InitInv == Init => Inv
<1> SUFFICES ASSUME Init PROVE Inv
  OBVIOUS
<1>1. Types
  BY InitTypes
<1>2. Counts
  <2>1. Active = {}
    BY DEF Init, Active
  <2>2. count = 0
    BY DEF Init
  <2> QED BY <2>1, <2>2, FS_EmptySet DEF Counts
<1>3. ASSUME NEW c \in Calls PROVE CallOK(c)
  <2>1. /\ pc[c] = "start" /\ spc[c] = None /\ ssock[c] = None /\ up[c] = <<>> /\ down[c] = <<>>
        /\ sent[c] = 0 /\ got[c] = 0 /\ first[c] = <<>> /\ sock[c] = None
    BY DEF Init
  <2>2. Phase(c)
    BY <2>1 DEF Phase, None
  <2>3. Download(c)
    BY <2>1 DEF Download, Early, Reading, Taken, None
  <2>4. Upload(c)
    BY <2>1, CallsAssumption DEF Upload, Taking, Read, None
  <2> QED BY <2>2, <2>3, <2>4 DEF CallOK
<1> QED BY <1>1, <1>2, <1>3 DEF Inv

\* A step of a call keeps it.
LEMMA ClientKeepsInv ==
    ASSUME Inv, NEW c \in Calls, ClientStep(c)
    PROVE  Inv'
<1>1. Types'
  BY ClientTypes
<1>2. Only(c) /\ CallOK(c)' /\ Counts'
  BY StartKeeps, ConnectKeeps, RequestKeeps, SendSizeKeeps, SendFileKeeps, RecvSizeKeeps,
     RecvFileKeeps, CloseKeeps, StatusKeeps DEF ClientStep
<1> QED BY <1>1, <1>2, Local

\* A step of a thread of the daemon keeps it.
LEMMA ServerKeepsInv ==
    ASSUME Inv, NEW c \in Calls, ServerStep(c)
    PROVE  Inv'
<1>1. Types'
  BY ServerTypes
<1>2. Counts'
  <2>1. UNCHANGED <<pc, count, collecting>>
    BY DEF ServerStep, Accept, RecvType, RecvName, SendSizeOf, SendBlock, RecvBlock, Remove,
           SendStatus, CleanUp, clientVars
  <2> QED BY <2>1, Idle DEF Inv
<1>3. Only(c) /\ CallOK(c)'
  BY AcceptKeeps, RecvTypeKeeps, RecvNameKeeps, SendSizeOfKeeps, SendBlockKeeps, RecvBlockKeeps,
     RemoveKeeps, SendStatusKeeps, CleanUpKeeps DEF ServerStep
<1> QED BY <1>1, <1>2, <1>3, Local

\* A step of the library or of the network keeps it.
LEMMA NetworkKeepsInv ==
    ASSUME Inv, NEW c \in Calls, Collect(c) \/ Break(c)
    PROVE  Inv'
<1>1. Types'
  BY NetworkTypes DEF Inv
<1>2. Counts'
  <2>1. UNCHANGED <<pc, count, collecting>>
    BY DEF Collect, Break
  <2> QED BY <2>1, Idle DEF Inv
<1>3. Only(c) /\ CallOK(c)'
  BY CollectKeeps, BreakKeeps
<1> QED BY <1>1, <1>2, <1>3, Local

\* Every step keeps it.
LEMMA NextKeepsInv ==
    ASSUME Inv, [Next]_vars
    PROVE  Inv'
<1>1. CASE Next
  BY <1>1, ClientKeepsInv, ServerKeepsInv, NetworkKeepsInv DEF Next
<1>2. CASE UNCHANGED vars
  <2>1. UNCHANGED <<kind, pc, sock, local, promised, count, collecting, spc, ssock, inode, path,
                    disk, first, stale, sent, got, up, down>>
    BY <1>2 DEF vars, clientVars, serverVars
  <2>2. Types'
    BY <2>1 DEF Inv, Types
  <2>3. Counts'
    BY <2>1, Idle DEF Inv
  <2>4. ASSUME NEW c \in Calls PROVE CallOK(c)'
    <3>1. CallOK(c)
      BY DEF Inv
    <3>2. Phase(c)'
      BY <2>1, <3>1 DEF CallOK, Phase
    <3>3. kind[c] = "get" => Download(c)'
      BY <2>1, <3>1 DEF CallOK, Download, Early, Reading, Taken, OnTheWay, Lost
    <3>4. kind[c] = "put" => Upload(c)'
      BY <2>1, <3>1 DEF CallOK, Upload, Taking, Read, Made, Dead
    <3> QED BY <2>1, <3>2, <3>3, <3>4 DEF CallOK
  <2> QED BY <2>2, <2>3, <2>4 DEF Inv
<1> QED BY <1>1, <1>2

\* What the invariant says of the transfers that come to their end.
LEMMA InvIsWhole ==
    ASSUME Inv
    PROVE  TransfersAreWhole
<1>1. Types /\ Counts
  BY DEF Inv
<1>2. CopyIsExact
  <2>1. ASSUME NEW c \in Calls, kind[c] = "get", pc[c] = "close"
        PROVE  Len(local[c]) = promised[c] /\ (~stale[c] => local[c] = first[c])
    <3>1. /\ promised[c] = Len(first[c]) /\ Len(local[c]) = got[c] /\ got[c] = promised[c]
          /\ ~stale[c] => \A i \in 1 .. got[c] : local[c][i] = first[c][i]
      BY <2>1 DEF Inv, CallOK, Download
    <3>2. local[c] \in Seq(Item) /\ first[c] \in Seq(Item)
      BY <1>1 DEF Types
    <3> QED BY <3>1, <3>2, SeqEqual
  <2> QED BY <2>1 DEF CopyIsExact
<1>3. UploadIsWhole
  <2>1. ASSUME NEW c \in Calls, kind[c] = "put", spc[c] = "hangup", ~stale[c]
        PROVE  disk[inode[c]] = Source(c)
    <3>1. /\ inode[c] # None /\ Len(disk[inode[c]]) = Size
          /\ \A i \in 1 .. Size : disk[inode[c]][i] = <<c, i>>
      BY <2>1 DEF Inv, CallOK, Upload
    <3>2. disk[inode[c]] \in Seq(Item)
      BY <1>1, <3>1 DEF Types
    <3>3. Source(c) \in Seq(Item) /\ Len(Source(c)) = Size
      <4>1. \A i \in 1 .. Size : <<c, i>> \in Item
        BY SourceIs
      <4> QED BY <4>1, CallsAssumption, IsASeq DEF Source
    <3>4. \A i \in 1 .. Size : Source(c)[i] = <<c, i>>
      BY SourceIs
    <3> QED BY <3>1, <3>2, <3>3, <3>4, SeqEqual
  <2> QED BY <2>1 DEF UploadIsWhole
<1>4. LibraryIsUp
  <2>1. ASSUME NEW c \in Calls, pc[c] \notin {"start", "done"} PROVE collecting /\ count > 0
    <3>1. c \in Active
      BY <2>1 DEF Active
    <3>2. IsFiniteSet(Active) /\ Cardinality(Active) <= count /\ collecting
      BY <1>1, <3>1 DEF Counts
    <3>3. Cardinality(Active) \in Nat /\ Cardinality(Active) # 0
      BY <3>1, <3>2, FS_CardinalityType, FS_EmptySet
    <3> QED BY <1>1, <3>2, <3>3 DEF Types
  <2> QED BY <2>1 DEF LibraryIsUp
<1> QED BY <1>2, <1>3, <1>4 DEF TransfersAreWhole

\* Downloads and uploads that come to their end are whole, whatever breaks and whoever
\* else reads, writes or removes the file, and the library runs under every call
\* (ffsnet.cpp and ffsnetd.cpp: sendfile, recvfile, startup and cleanup of each call).
THEOREM TransferIsWhole == Spec => []TransfersAreWhole
<1>1. Init => Inv
  BY InitInv
<1>2. Inv /\ [Next]_vars => Inv'
  BY NextKeepsInv
<1>3. Inv => TransfersAreWhole
  BY InvIsWhole
<1> QED BY <1>1, <1>2, <1>3, PTL DEF Spec
=============================================================================
