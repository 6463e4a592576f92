------------------------------ MODULE ZHTProofs ------------------------------
(***************************************************************************)
(* Proofs about ZHT, for any number of processes, threads, servers, keys and *)
(* crashes, where the threads of a process call one at a time: the cache and *)
(* the descriptors of a process always agree, and the whole is an AtomicMap. *)
(*                                                                         *)
(* The argument: a process that is called by one thread at a time has at     *)
(* most one exchange under way.  So all its sockets are quiet but the one    *)
(* its thread waits on, and there is never more on that one than the request *)
(* of that thread or the answer to it.                                      *)
(***************************************************************************)
EXTENDS ZHT, SequenceTheorems, FiniteSetTheorems, WellFoundedInduction, TLAPS

Entry == [host : Host, fd : Fd]
Wire  == Socket \union {Closed}
Places == {"idle", "fetch", "connect", "cache", "send", "receive", "dead"}
-----------------------------------------------------------------------------
(* Sequences. *)

\* A sequence of one element.
LEMMA AppendEmpty ==
    ASSUME NEW x
    PROVE  Append(<<>>, x) = <<x>> /\ Len(<<x>>) = 1 /\ <<x>>[1] = x /\ <<x>> # <<>>
  OBVIOUS

\* What is left of it without the first.
LEMMA TailOne ==
    ASSUME NEW x
    PROVE  Tail(<<x>>) = <<>> /\ SubSeq(<<x>>, 2, 1) = <<>> /\ SubSeq(<<x>>, 2, Len(<<x>>)) = <<>>
  OBVIOUS

\* The elements of a sequence of one and of none.
LEMMA SetOne ==
    ASSUME NEW x
    PROVE  ToSet(<<x>>) = {x}
  BY DEF ToSet

\* And of none.
LEMMA SetNone == ToSet(<<>>) = {}
  BY DEF ToSet

\* A set of natural numbers that is not empty has a smallest one.
Less == {ss \in Nat \X Nat : ss[1] < ss[2]}

\* The order of the natural numbers is well founded.
LEMMA LessIsLess == OpToRel(<, Nat) = Less
  BY DEF OpToRel, Less

\* So is its relation by another name.
LEMMA LessWF == IsWellFoundedOn(Less, Nat)
  BY NatLessThanWellFounded, LessIsLess

\* So a set of them that is not empty has a smallest one.
LEMMA HasMin ==
    ASSUME NEW S \in SUBSET Nat, S # {}
    PROVE  \E x \in S : \A y \in S : x <= y
<1>1. PICK x \in S : \A y \in S : ~(<<y, x>> \in Less)
  BY LessWF, WFMin
<1>2. \A y \in S : ~(y < x)
  <2> TAKE y \in S
  <2>1. y < x => <<y, x>> \in Less
    BY DEF Less
  <2> QED BY <1>1, <2>1
<1> QED BY <1>2

\* The entry of a server is found if there is one.
LEMMA Place ==
    ASSUME NEW list \in Seq(Entry), NEW h \in Host
    PROVE  \/ PlaceOf(list, h) = 0 /\ \A j \in DOMAIN list : list[j].host # h
           \/ PlaceOf(list, h) \in DOMAIN list /\ list[PlaceOf(list, h)].host = h
<1> DEFINE I == {i \in 1..Len(list) : list[i].host = h}
<1>1. PlaceOf(list, h) = IF I # {} THEN Min(I) ELSE 0
  BY DEF PlaceOf, SelectInSeq
<1>2. I # {} => Min(I) \in I
  <2>1. ASSUME I # {} PROVE \E x \in I : \A y \in I : x <= y
    <3>1. I \in SUBSET Nat
      OBVIOUS
    <3> HIDE DEF I
    <3> QED BY <2>1, <3>1, HasMin
  <2> HIDE DEF I
  <2> QED BY <2>1 DEF Min
<1>3. DOMAIN list = 1..Len(list)
  OBVIOUS
<1>4. CASE I # {}
  BY <1>1, <1>2, <1>3, <1>4
<1>5. CASE I = {}
  BY <1>1, <1>3, <1>5
<1> QED BY <1>4, <1>5

\* A sequence without its i-th element.
LEMMA RemoveIs ==
    ASSUME NEW S, NEW s \in Seq(S), NEW i \in DOMAIN s
    PROVE  /\ RemoveAt(s, i) \in Seq(S) /\ Len(RemoveAt(s, i)) = Len(s) - 1
           /\ \A j \in 1..(Len(s) - 1) : RemoveAt(s, i)[j] = IF j < i THEN s[j] ELSE s[j + 1]
<1> DEFINE a == SubSeq(s, 1, i-1)
           b == SubSeq(s, i+1, Len(s))
<1>0. Len(s) \in Nat /\ i \in 1..Len(s) /\ \A j \in 1..Len(s) : s[j] \in S
  BY LenProperties, ElementOfSeq
<1>1. a \in Seq(S) /\ Len(a) = i - 1 /\ \A j \in 1..(i-1) : a[j] = s[j]
  BY <1>0, SubSeqProperties
<1>2. b \in Seq(S) /\ Len(b) = Len(s) - i /\ \A j \in 1..(Len(s) - i) : b[j] = s[i + j]
  <2>1. \A j \in (i+1)..Len(s) : s[j] \in S
    BY <1>0
  <2>2. /\ b \in Seq(S)
        /\ Len(b) = IF i + 1 <= Len(s) THEN Len(s) - (i + 1) + 1 ELSE 0
        /\ \A j \in 1..(Len(s) - (i + 1) + 1) : b[j] = s[i + 1 + j - 1]
    BY <1>0, <2>1, SubSeqProperties
  <2> HIDE DEF b
  <2> QED BY <1>0, <2>2
<1> HIDE DEF a, b
<1>3. RemoveAt(s, i) = a \o b
  BY DEF RemoveAt, a, b
<1>4. /\ a \o b \in Seq(S) /\ Len(a \o b) = Len(a) + Len(b)
      /\ \A j \in 1..(Len(a) + Len(b)) : (a \o b)[j] = IF j <= Len(a) THEN a[j] ELSE b[j - Len(a)]
  BY <1>1, <1>2, ConcatProperties
<1>5. Len(a) + Len(b) = Len(s) - 1
  BY <1>0, <1>1, <1>2
<1>6. ASSUME NEW j \in 1..(Len(s) - 1)
      PROVE  (a \o b)[j] = IF j < i THEN s[j] ELSE s[j + 1]
  <2>1. (a \o b)[j] = IF j <= Len(a) THEN a[j] ELSE b[j - Len(a)]
    BY <1>4, <1>5
  <2>2. CASE j < i
    BY <1>0, <1>1, <2>1, <2>2
  <2>3. CASE ~(j < i)
    <3>1. j - (i - 1) \in 1..(Len(s) - i) /\ i + (j - (i - 1)) = j + 1
      BY <1>0, <2>3
    <3>2. b[j - (i - 1)] = s[i + (j - (i - 1))]
      BY <1>2, <3>1
    <3> QED BY <1>0, <1>1, <2>1, <2>3, <3>1, <3>2
  <2> QED BY <2>2, <2>3
<1> QED BY <1>3, <1>4, <1>5, <1>6

\* A sequence with an element put in front.
LEMMA FrontIs ==
    ASSUME NEW S, NEW s \in Seq(S), NEW x \in S
    PROVE  /\ <<x>> \o s \in Seq(S) /\ Len(<<x>> \o s) = Len(s) + 1
           /\ \A j \in 1..(Len(s) + 1) : (<<x>> \o s)[j] = IF j = 1 THEN x ELSE s[j - 1]
<1>1. <<x>> \in Seq(S) /\ Len(<<x>>) = 1 /\ <<x>>[1] = x
  OBVIOUS
<1> DEFINE a == <<x>>
<1> HIDE DEF a
<1>2. /\ a \o s \in Seq(S) /\ Len(a \o s) = Len(a) + Len(s)
      /\ \A j \in 1..(Len(a) + Len(s)) : (a \o s)[j] = IF j <= Len(a) THEN a[j] ELSE s[j - Len(a)]
  BY <1>1, ConcatProperties DEF a
<1>3. a[1] = x /\ Len(a) = 1 /\ Len(s) \in Nat
  BY <1>1 DEF a
<1>4. \A j \in 1..(Len(s) + 1) : (a \o s)[j] = IF j = 1 THEN x ELSE s[j - 1]
  BY <1>2, <1>3
<1> QED BY <1>2, <1>3, <1>4 DEF a

\* Where the entries of the touched list come from.
From(i, j) == IF j = 1 THEN i ELSE IF j <= i THEN j - 1 ELSE j

\* They are the same entries, each once.
LEMMA FromIs ==
    ASSUME NEW n \in Nat, NEW i \in 1 .. n
    PROVE  /\ \A j \in 1 .. n : From(i, j) \in 1 .. n
           /\ \A j, k \in 1 .. n : From(i, j) = From(i, k) => j = k
           /\ \A k \in 1 .. n : \E j \in 1 .. n : From(i, j) = k
<1>1. ASSUME NEW k \in 1 .. n PROVE \E j \in 1 .. n : From(i, j) = k
  <2>1. CASE k = i
    BY <2>1 DEF From
  <2>2. CASE k < i
    <3>1. k + 1 \in 1 .. n /\ From(i, k + 1) = k
      BY <2>2 DEF From
    <3> QED BY <3>1
  <2>3. CASE k > i
    BY <2>3 DEF From
  <2> QED BY <2>1, <2>2, <2>3
<1> QED BY <1>1 DEF From

\* A hit moves the entry to the front (LRUCache::fetch).
LEMMA TouchedIs ==
    ASSUME NEW S, NEW list \in Seq(S), NEW i \in DOMAIN list
    PROVE  /\ Touched(list, i) \in Seq(S)
           /\ Len(Touched(list, i)) = Len(list)
           /\ \A j \in 1 .. Len(list) : Touched(list, i)[j] = list[From(i, j)]
<1>0. Len(list) \in Nat /\ i \in 1 .. Len(list) /\ list[i] \in S
  BY LenProperties, ElementOfSeq
<1> DEFINE r == RemoveAt(list, i)
<1>1. /\ r \in Seq(S) /\ Len(r) = Len(list) - 1
      /\ \A j \in 1 .. (Len(list) - 1) : r[j] = IF j < i THEN list[j] ELSE list[j + 1]
  BY RemoveIs
<1> HIDE DEF r
<1>2. /\ <<list[i]>> \o r \in Seq(S) /\ Len(<<list[i]>> \o r) = Len(r) + 1
      /\ \A j \in 1 .. (Len(r) + 1) : (<<list[i]>> \o r)[j] = IF j = 1 THEN list[i] ELSE r[j - 1]
  BY <1>0, <1>1, FrontIs
<1>3. Touched(list, i) = <<list[i]>> \o r
  BY DEF Touched, r
<1>4. ASSUME NEW j \in 1 .. Len(list) PROVE Touched(list, i)[j] = list[From(i, j)]
  <2>1. Touched(list, i)[j] = IF j = 1 THEN list[i] ELSE r[j - 1]
    BY <1>0, <1>1, <1>2, <1>3
  <2>2. CASE j = 1
    BY <2>1, <2>2 DEF From
  <2>3. CASE j # 1
    <3>1. j - 1 \in 1 .. (Len(list) - 1) /\ (j - 1 < i <=> j <= i) /\ (j - 1) + 1 = j
      BY <1>0, <2>3
    <3> QED BY <1>1, <2>1, <2>3, <3>1 DEF From
  <2> QED BY <2>2, <2>3
<1> QED BY <1>0, <1>1, <1>2, <1>3, <1>4

\* A list that has no entry for a server.
LEMMA WithoutIs ==
    ASSUME NEW list \in Seq(Entry), NEW h, \A i \in DOMAIN list : list[i].host # h
    PROVE  Without(list, h) = list
<1>1. \A i \in 1 .. Len(list) : list[i].host # h
  BY LenProperties
<1> QED BY <1>1 DEF Without, RemoveFirstMatch

\* An entry for a server that has none (LRUCache::insert).
LEMMA InsertedIs ==
    ASSUME NEW list \in Seq(Entry), NEW h \in Host, NEW f \in Fd,
           \A i \in DOMAIN list : list[i].host # h
    PROVE  /\ Inserted(list, h, f) \in Seq(Entry)
           /\ Len(Inserted(list, h, f)) = Len(list) + 1
           /\ \A j \in 1 .. (Len(list) + 1) :
                 Inserted(list, h, f)[j] = IF j = 1 THEN [host |-> h, fd |-> f] ELSE list[j - 1]
<1>1. [host |-> h, fd |-> f] \in Entry
  BY DEF Entry
<1>2. Inserted(list, h, f) = <<[host |-> h, fd |-> f]>> \o list
  BY WithoutIs DEF Inserted
<1> QED BY <1>1, <1>2, FrontIs

\* What a full cache gives up.
LEMMA KeptIs ==
    ASSUME NEW list \in Seq(Entry)
    PROVE  /\ Kept(list) \in Seq(Entry)
           /\ Len(Kept(list)) = IF Len(list) > CacheSize THEN CacheSize ELSE Len(list)
           /\ \A j \in 1 .. Len(Kept(list)) : Kept(list)[j] = list[j]
           /\ Evicted(list) = {list[j].fd : j \in (CacheSize + 1) .. Len(list)}
<1> DEFINE n == IF Len(list) > CacheSize THEN CacheSize ELSE Len(list)
<1>1. Len(list) \in Nat /\ DOMAIN list = 1 .. Len(list) /\ CacheSize \in Nat /\ n \in Nat /\ n <= Len(list)
  BY LenProperties, SizeAssumption
<1> HIDE DEF n
<1>2. \A j \in 1 .. n : list[j] \in Entry
  BY <1>1, ElementOfSeq
<1>3. SubSeq(list, 1, n) \in Seq(Entry) /\ Len(SubSeq(list, 1, n)) = n
      /\ \A j \in 1 .. n : SubSeq(list, 1, n)[j] = list[j]
  BY <1>1, <1>2, SubSeqProperties
<1>4. Kept(list) = SubSeq(list, 1, n)
  BY DEF Kept, n
<1>5. {j \in DOMAIN list : j > CacheSize} = (CacheSize + 1) .. Len(list)
  BY <1>1
<1> QED BY <1>3, <1>4, <1>5 DEF n, Evicted

-----------------------------------------------------------------------------
(* The inductive invariant. *)

Types ==
    /\ table \in [Host -> [Key -> Val \union {NoVal}]]
    /\ up \in [Host -> BOOLEAN]
    /\ crashes \in 0 .. MaxCrashes
    /\ sock \in [Client -> [Fd -> Wire]]
    /\ cache \in [Client -> Seq(Entry)]
    /\ \A c \in Client : Len(cache[c]) <= CacheSize
    /\ pc \in [Thread -> Places]
    /\ call \in [Thread -> Calls \union {NoCall}]
    /\ fd \in [Thread -> Fd \union {NoFd}]
    /\ ret \in [Thread -> Result]

\* A process is in one call at a time.
Alone == \A t, u \in Thread : Process[t] = Process[u] /\ InCall(t) /\ InCall(u) => t = u

Quiet(s) == s.req = <<>> /\ s.rep = <<>>

\* The request of a thread, and an answer to it.
Asks(t) == [by |-> t, op |-> call[t].op, key |-> call[t].key, val |-> call[t].val]
Answers(t, a) ==
    /\ a.by = t
    /\ a.kind = IF call[t].op = "lookup" THEN "text" ELSE "ack"
    /\ call[t].op # "lookup" => a.val = NoVal

\* What is on the socket a thread waits on.
Waits(t, s) ==
    \/ s.alive /\ s.req = <<Asks(t)>> /\ s.rep = <<>>
    \/ s.req = <<>> /\ s.rep # <<>> /\ s.rep = <<s.rep[1]>> /\ Answers(t, s.rep[1])
    \/ ~s.alive /\ Quiet(s)

OpenTo(t)   == fd[t] \in Fd /\ Sock(t) \in Socket /\ Sock(t).host = Target(t)
Uncached(t) == \A i \in DOMAIN cache[Process[t]] : cache[Process[t]][i].host # Target(t)

ThreadOK(t) ==
    /\ At(t, "idle") => call[t] = NoCall /\ fd[t] = NoFd
    /\ InCall(t) => call[t] \in Calls
    /\ pc[t] \in {"fetch", "connect"} => fd[t] = NoFd
    /\ pc[t] \in {"connect", "cache"} => Uncached(t)
    /\ At(t, "cache") => OpenTo(t) /\ Quiet(Sock(t))
    /\ At(t, "send") => fd[t] = NoFd \/ (OpenTo(t) /\ Quiet(Sock(t)))
    /\ At(t, "receive") => \/ fd[t] = NoFd /\ call[t].op # "lookup"
                           \/ OpenTo(t) /\ Waits(t, Sock(t))

HeldAt(c, f, l) == \E t \in Thread : Process[t] = c /\ pc[t] = l /\ fd[t] = f
Cached(c, f)    == \E i \in DOMAIN cache[c] : cache[c][i].fd = f

SocketOK(c, f) ==
    sock[c][f] # Closed =>
        /\ sock[c][f].alive \/ (crashes > 0 /\ sock[c][f].req = <<>>)
        /\ Quiet(sock[c][f]) \/ HeldAt(c, f, "receive")
        /\ sock[c][f].alive => Cached(c, f) \/ HeldAt(c, f, "cache")

CacheOK(c) ==
    /\ \A i \in DOMAIN cache[c] : /\ sock[c][cache[c][i].fd] # Closed
                                  /\ sock[c][cache[c][i].fd].host = cache[c][i].host
    /\ \A i, j \in DOMAIN cache[c] : cache[c][i].host = cache[c][j].host => i = j

DownIsFault == \A h \in Host : ~up[h] => crashes > 0

Inv ==
    /\ Types
    /\ Alone
    /\ DownIsFault
    /\ \A t \in Thread : ThreadOK(t)
    /\ \A c \in Client, f \in Fd : SocketOK(c, f)
    /\ \A c \in Client : CacheOK(c)
-----------------------------------------------------------------------------
(* What a step does under the invariant. *)

\* The number of a descriptor is not that of no descriptor.
LEMMA FdIsNat == Fd \subseteq Nat /\ NoFd \notin Fd
  BY SizeAssumption DEF Fd, NoFd

\* A descriptor is closed or has a socket.
LEMMA SockOf ==
    ASSUME Types, NEW c \in Client, NEW f \in Fd
    PROVE  /\ sock[c] \in [Fd -> Wire] /\ sock[c][f] \in Wire
           /\ sock[c][f] # Closed <=> sock[c][f] \in Socket
  BY ClosedAssumption DEF Types, Wire

\* What a call asks for.
LEMMA CallOf ==
    ASSUME NEW r \in Calls
    PROVE  /\ r.op \in {"insert", "lookup", "remove"} /\ r.key \in Key
           /\ r.val \in Val \union {NoVal} /\ r \in Request /\ r # NoCall
           /\ HostOf[r.key] \in Host
  BY CallsAssumption, HostAssumption DEF Request

\* The parts of a socket, and of an entry of the cache.
LEMMA SocketIs ==
    ASSUME NEW s \in Socket
    PROVE  /\ s.host \in Host /\ s.alive \in BOOLEAN /\ s.req \in Seq(Message) /\ s.rep \in Seq(Answer)
           /\ s = [host |-> s.host, alive |-> s.alive, req |-> s.req, rep |-> s.rep]
  BY DEF Socket

\* The parts of an entry of the cache.
LEMMA EntryIs ==
    ASSUME Types, NEW c \in Client, NEW i \in DOMAIN cache[c]
    PROVE  cache[c] \in Seq(Entry) /\ cache[c][i].host \in Host /\ cache[c][i].fd \in Fd
<1>1. cache[c] \in Seq(Entry)
  BY DEF Types
<1>2. cache[c][i] \in Entry
  BY <1>1, ElementOfSeq
<1> QED BY <1>1, <1>2 DEF Entry

\* No other thread of the process of t is in a call.
Solo(t) == \A u \in Thread : u # t /\ Process[u] = Process[t] => pc[u] \in {"idle", "dead"}

\* That is so where the threads call one at a time.
LEMMA InCallIsSolo ==
    ASSUME Inv, NEW t \in Thread, InCall(t)
    PROVE  Solo(t)
  BY DEF Inv, Alone, InCall, Types, Places, Solo

\* A thread that takes no part in a step of another one.
LEMMA Frame ==
    ASSUME Inv, NEW t \in Thread, Solo(t), NEW u \in Thread, u # t,
           pc'[u] = pc[u], call'[u] = call[u], fd'[u] = fd[u],
           Process[u] # Process[t] => /\ sock'[Process[u]] = sock[Process[u]]
                                      /\ cache'[Process[u]] = cache[Process[u]]
    PROVE  ThreadOK(u)'
<1>1. ThreadOK(u)
  BY DEF Inv
<1>2. CASE Process[u] = Process[t]
  <2>1. pc[u] \in {"idle", "dead"}
    BY <1>2 DEF Solo
  <2> QED BY <1>1, <2>1 DEF ThreadOK, At, InCall
<1>3. CASE Process[u] # Process[t]
  BY <1>1, <1>3 DEF ThreadOK, At, InCall, OpenTo, Uncached, Waits, Quiet, Asks, Answers, Sock, Target
<1> QED BY <1>2, <1>3

OnlyThread(t) ==
    /\ \A u \in Thread : u # t => pc'[u] = pc[u] /\ call'[u] = call[u] /\ fd'[u] = fd[u]
    /\ \A c \in Client : c # Process[t] => sock'[c] = sock[c] /\ cache'[c] = cache[c]
    /\ up' = up /\ crashes' = crashes

\* A step of one thread: what is left to show is about the thread and its process.
LEMMA Local ==
    ASSUME Inv, Types', NEW t \in Thread, Solo(t), OnlyThread(t),
           ThreadOK(t)', \A f \in Fd : SocketOK(Process[t], f)', CacheOK(Process[t])'
    PROVE  Inv'
<1>1. ASSUME NEW u \in Thread PROVE ThreadOK(u)'
  <2>1. CASE u = t
    BY <2>1
  <2>2. CASE u # t
    <3>1. Process[u] \in Client
      BY ProcessAssumption
    <3> QED BY <2>2, <3>1, Frame DEF OnlyThread
  <2> QED BY <2>1, <2>2
<1>2. Alone'
  <2> SUFFICES ASSUME NEW u \in Thread, NEW w \in Thread, Process[u] = Process[w],
                      InCall(u)', InCall(w)', u # w
               PROVE  FALSE
    BY DEF Alone
  <2>1. CASE u = t \/ w = t
    BY <2>1 DEF Solo, OnlyThread, InCall
  <2>2. CASE u # t /\ w # t
    BY <2>2 DEF Inv, Alone, OnlyThread, InCall
  <2> QED BY <2>1, <2>2
<1>3. DownIsFault'
  BY DEF Inv, DownIsFault, OnlyThread
<1>4. ASSUME NEW c \in Client PROVE CacheOK(c)' /\ \A f \in Fd : SocketOK(c, f)'
  <2>1. CASE c = Process[t]
    BY <2>1
  <2>2. CASE c # Process[t]
    <3>1. sock'[c] = sock[c] /\ cache'[c] = cache[c] /\ crashes' = crashes
      BY <2>2 DEF OnlyThread
    <3>2. CacheOK(c)'
      BY <3>1 DEF CacheOK, Inv
    <3>3. ASSUME NEW f \in Fd, NEW l PROVE HeldAt(c, f, l) => HeldAt(c, f, l)'
      BY <2>2 DEF HeldAt, OnlyThread
    <3>4. ASSUME NEW f \in Fd PROVE SocketOK(c, f)'
      <4>1. SocketOK(c, f)
        BY DEF Inv
      <4> QED BY <3>1, <3>3, <4>1 DEF SocketOK, Quiet, Cached
    <3> QED BY <3>2, <3>4
  <2> QED BY <2>1, <2>2
<1> QED BY <1>1, <1>2, <1>3, <1>4 DEF Inv

\* A cache stays right while its sockets stay open to their servers.
LEMMA CacheStays ==
    ASSUME Types, NEW c \in Client, CacheOK(c), cache'[c] = cache[c],
           \A f \in Fd : sock[c][f] # Closed =>
              sock'[c][f] # Closed /\ sock'[c][f].host = sock[c][f].host
    PROVE  CacheOK(c)'
<1>1. \A i \in DOMAIN cache[c] : cache[c][i].fd \in Fd
  BY EntryIs
<1> QED BY <1>1 DEF CacheOK

\* A step that leaves threads, sockets and caches as they are.
LEMMA Unmoved ==
    ASSUME Inv, UNCHANGED <<crashes, sock, cache, pc, call, fd>>
    PROVE  /\ Alone' /\ \A t \in Thread : ThreadOK(t)'
           /\ \A c \in Client, f \in Fd : SocketOK(c, f)'
           /\ \A c \in Client : CacheOK(c)'
<1>1. Alone'
  BY DEF Inv, Alone, InCall
<1>2. ASSUME NEW t \in Thread PROVE ThreadOK(t)'
  <2>1. ThreadOK(t)
    BY DEF Inv
  <2> QED BY <2>1 DEF ThreadOK, At, InCall, OpenTo, Uncached, Waits, Quiet, Asks, Answers, Sock, Target
<1>3. ASSUME NEW c \in Client, NEW f \in Fd PROVE SocketOK(c, f)'
  <2>1. SocketOK(c, f)
    BY DEF Inv
  <2> QED BY <2>1 DEF SocketOK, Quiet, Cached, HeldAt
<1>4. ASSUME NEW c \in Client PROVE CacheOK(c)'
  BY DEF Inv, CacheOK
<1> QED BY <1>1, <1>2, <1>3, <1>4

\* Where all a thread waits for is on its socket.
HasAnswer(t) ==
    /\ OpenTo(t)
    /\ Sock(t).req = <<>> /\ Sock(t).rep # <<>> /\ Sock(t).rep = <<Sock(t).rep[1]>>
    /\ Answers(t, Sock(t).rep[1])

\* The three ways a call ends: with its own answer, without one, or with its process.
TakesAnswer(t) ==
    LET a == Sock(t).rep[1]
    IN  /\ At(t, "receive") /\ HasAnswer(t)
        /\ sock' = [sock EXCEPT ![Process[t]][fd[t]].rep = <<>>]
        /\ Return(t, [by |-> a.by, status |-> a.status, val |-> a.val])
        /\ UNCHANGED <<server, cache>>

Unserved(t) == fd[t] = NoFd \/ (OpenTo(t) /\ ~Sock(t).alive /\ Quiet(Sock(t)))

GoesWithout(t) ==
    /\ pc[t] \in {"send", "receive"} /\ Unserved(t)
    /\ \E r \in MadeUp(call[t].op) : Return(t, r)
    /\ UNCHANGED <<server, sock, cache>>

Fails(t) ==
    /\ At(t, "receive") /\ call[t].op = "lookup" /\ OpenTo(t) /\ ~Sock(t).alive /\ Quiet(Sock(t))
    /\ Abort(t)
    /\ UNCHANGED <<server, sock, cache>>

\* What a thread that receives can find (ClosedAssumption: a socket is not the mark of
\* a descriptor that is not in use).
LEMMA WaitsFor ==
    ASSUME Inv, NEW t \in Thread, At(t, "receive")
    PROVE  \/ fd[t] = NoFd /\ call[t].op # "lookup"
           \/ OpenTo(t) /\ HasSock(t) /\ Sock(t).alive /\ Sock(t).req = <<Asks(t)>> /\ Sock(t).rep = <<>>
           \/ HasAnswer(t) /\ HasSock(t)
           \/ OpenTo(t) /\ HasSock(t) /\ ~Sock(t).alive /\ Quiet(Sock(t))
<1>1. ThreadOK(t)
  BY DEF Inv
<1>2. OpenTo(t) => HasSock(t)
  BY ClosedAssumption, FdIsNat DEF OpenTo, HasSock
<1> QED BY <1>1, <1>2 DEF ThreadOK, Waits, HasAnswer, At

\* insert and remove take their answer or make one up.
LEMMA AckIs ==
    ASSUME Inv, NEW t \in Thread, ReceiveAck(t)
    PROVE  TakesAnswer(t) \/ GoesWithout(t)
<1>1. At(t, "receive") /\ call[t].op # "lookup" /\ UNCHANGED <<server, cache>>
  BY DEF ReceiveAck
<1>2. CASE HasAnswer(t) /\ HasSock(t)
  <2> DEFINE s == Sock(t)
             a == s.rep[1]
  <2>1. s \in Socket /\ s.rep # <<>> /\ a.kind = "ack" /\ a.val = NoVal /\ s.rep = <<a>>
    BY <1>1, <1>2 DEF HasAnswer, Answers, OpenTo
  <2>2. Tail(s.rep) = <<>>
    BY <2>1, TailOne
  <2>3. /\ sock' = [sock EXCEPT ![Process[t]][fd[t]].rep = Tail(s.rep)]
        /\ Return(t, [by |-> a.by, status |-> a.status, val |-> NoVal])
    BY <1>2, <2>1 DEF ReceiveAck
  <2> QED BY <1>1, <1>2, <2>1, <2>2, <2>3 DEF TakesAnswer
<1>3. CASE ~(HasAnswer(t) /\ HasSock(t))
  <2>1. Unserved(t) \/ (OpenTo(t) /\ HasSock(t) /\ Sock(t).alive /\ Sock(t).rep = <<>>)
    BY <1>1, <1>3, WaitsFor DEF Unserved
  <2>2. \/ HasSock(t) /\ Sock(t).rep # <<>>
        \/ ~Alive(t) /\ (\E r \in MadeUp(call[t].op) : Return(t, r)) /\ UNCHANGED sock
    BY DEF ReceiveAck
  <2>3. ~(HasSock(t) /\ Sock(t).rep # <<>>)
    BY <2>1 DEF Unserved, HasSock, Quiet
  <2> QED BY <1>1, <2>1, <2>2, <2>3 DEF GoesWithout, Alive, At
<1> QED BY <1>2, <1>3

\* lookup takes its answer, makes one up, or ends the process.
LEMMA TextIs ==
    ASSUME Inv, NEW t \in Thread, ReceiveText(t)
    PROVE  TakesAnswer(t) \/ GoesWithout(t) \/ Fails(t)
<1>1. At(t, "receive") /\ call[t].op = "lookup" /\ UNCHANGED <<server, cache>>
  BY DEF ReceiveText
<1> DEFINE s == Sock(t)
           a == s.rep[1]
<1>2. CASE HasAnswer(t) /\ HasSock(t)
  <2>1. s \in Socket /\ s.rep # <<>> /\ a.kind = "text" /\ s.rep = <<a>>
    BY <1>1, <1>2 DEF HasAnswer, Answers, OpenTo
  <2>2. Len(s.rep) = 1 /\ SubSeq(s.rep, 1 + 1, Len(s.rep)) = <<>>
    <3>1. \A b, w : w = <<b>> => Len(w) = 1 /\ SubSeq(w, 1 + 1, Len(w)) = <<>>
      OBVIOUS
    <3> HIDE DEF a, s
    <3> QED BY <2>1, <3>1
  <2>3. PICK n \in 1 .. Len(s.rep) :
           /\ sock' = [sock EXCEPT ![Process[t]][fd[t]].rep = SubSeq(@, n + 1, Len(@))]
           /\ IF a.kind = "ack" /\ a.status = "ok" THEN Abort(t)
              ELSE Return(t, IF a.kind = "text" /\ n = 1
                             THEN [by |-> a.by, status |-> a.status, val |-> a.val]
                             ELSE [by |-> a.by, status |-> "junk", val |-> NoVal])
    BY <2>1 DEF ReceiveText
  <2>4. n = 1
    BY <2>2, <2>3
  <2>5. Return(t, [by |-> a.by, status |-> a.status, val |-> a.val])
    BY <2>1, <2>3, <2>4
  <2>6. sock' = [sock EXCEPT ![Process[t]][fd[t]].rep = SubSeq(@, 1 + 1, Len(@))]
    BY <2>3, <2>4
  <2>7. sock' = [sock EXCEPT ![Process[t]][fd[t]].rep = <<>>]
    BY <2>2, <2>6 DEF Sock
  <2> QED BY <1>1, <1>2, <2>5, <2>7 DEF TakesAnswer
<1>3. CASE ~(HasAnswer(t) /\ HasSock(t))
  <2>1. OpenTo(t) /\ s.rep = <<>>
    BY <1>1, <1>3, WaitsFor DEF Quiet
  <2>2. ~s.alive /\ (Abort(t) \/ \E r \in MadeUp("lookup") : Return(t, r)) /\ UNCHANGED sock
    BY <2>1 DEF ReceiveText
  <2>3. Quiet(s)
    BY <1>1, <1>3, <2>2, WaitsFor DEF HasAnswer, OpenTo
  <2> QED BY <1>1, <2>1, <2>2, <2>3 DEF GoesWithout, Fails, Unserved, At
<1> QED BY <1>2, <1>3

-----------------------------------------------------------------------------
(* The steps of a thread keep the invariant. *)

\* The actions up to the request keep the invariant: a call begins,
LEMMA BeginKeeps ==
    ASSUME Inv, ~SharedSockets, NEW t \in Thread, Begin(t)
    PROVE  Inv' /\ OnlyThread(t)
<1> DEFINE c == Process[t]
<1>1. At(t, "idle") /\ UNCHANGED <<table, up, crashes, sock, cache, fd>>
  BY DEF Begin, server
<1>2. Solo(t)
  BY DEF Begin, Solo, InCall, Inv, Types, Places
<1>3. PICK r \in Calls : call' = [call EXCEPT ![t] = r]
  BY DEF Begin
<1>4. pc' = [pc EXCEPT ![t] = "fetch"] /\ ret' = [ret EXCEPT ![t] = NoResult]
  BY DEF Begin, Goto
<1>5. Types'
  <2>1. NoResult \in Result
    BY DEF NoResult, Result
  <2> QED BY <1>1, <1>3, <1>4, <2>1 DEF Inv, Types, Places
<1>6. OnlyThread(t)
  BY <1>1, <1>3, <1>4 DEF OnlyThread, Inv, Types
<1>7. pc'[t] = "fetch" /\ call'[t] \in Calls /\ fd'[t] = NoFd
  BY <1>1, <1>3, <1>4 DEF Inv, Types, ThreadOK
<1>8. ThreadOK(t)'
  BY <1>7 DEF ThreadOK, At, InCall
<1>9. c \in Client /\ CacheOK(c)'
  BY <1>1, ProcessAssumption DEF Inv, CacheOK
<1>10. ASSUME NEW f \in Fd PROVE SocketOK(c, f)'
  <2>1. SocketOK(c, f) /\ ~HeldAt(c, f, "receive") /\ ~HeldAt(c, f, "cache")
    BY <1>1, <1>2, <1>9 DEF Inv, HeldAt, Solo, At
  <2> QED BY <1>1, <2>1 DEF SocketOK, Quiet, Cached
<1> QED BY <1>2, <1>5, <1>6, <1>8, <1>9, <1>10, Local

\* In the process of a thread that is in a call, only that thread can hold a socket.
LEMMA Holder ==
    ASSUME Inv, NEW t \in Thread, InCall(t), NEW f
    PROVE  /\ HeldAt(Process[t], f, "receive") => At(t, "receive") /\ fd[t] = f
           /\ HeldAt(Process[t], f, "cache") => At(t, "cache") /\ fd[t] = f
  BY InCallIsSolo DEF HeldAt, Solo, At

\* its cache hits or misses,
LEMMA FetchKeeps ==
    ASSUME Inv, NEW t \in Thread, Fetch(t)
    PROVE  Inv' /\ OnlyThread(t)
<1> DEFINE c == Process[t]
           i == PlaceOf(cache[c], Target(t))
<1>1. /\ At(t, "fetch") /\ UNCHANGED <<table, up, crashes, sock, call, ret>>
      /\ InCall(t) /\ Solo(t) /\ c \in Client /\ call[t] \in Calls /\ fd[t] = NoFd
      /\ Target(t) \in Host
  <2>1. At(t, "fetch") /\ UNCHANGED <<table, up, crashes, sock, call, ret>>
    BY DEF Fetch, server
  <2>2. InCall(t) /\ call[t] \in Calls /\ fd[t] = NoFd
    BY <2>1 DEF InCall, At, Inv, ThreadOK
  <2> QED BY <2>1, <2>2, InCallIsSolo, ProcessAssumption, CallOf DEF Target
<1>2. cache[c] \in Seq(Entry) /\ Len(cache[c]) <= CacheSize
  BY <1>1 DEF Inv, Types
<1>3. \A f \in Fd : SocketOK(c, f) /\ ~HeldAt(c, f, "receive") /\ ~HeldAt(c, f, "cache")
  BY <1>1, Holder DEF Inv, At
<1>4. CASE i = 0 /\ Goto(t, "connect") /\ UNCHANGED <<cache, fd>>
  <2>1. \A j \in DOMAIN cache[c] : cache[c][j].host # Target(t)
    BY <1>1, <1>2, <1>4, Place, LenProperties
  <2>2. Types'
    BY <1>1, <1>4 DEF Inv, Types, Goto, Places
  <2>3. OnlyThread(t)
    BY <1>1, <1>4 DEF OnlyThread, Goto, Inv, Types
  <2>4. pc'[t] = "connect"
    BY <1>4 DEF Goto, Inv, Types
  <2>5. ThreadOK(t)'
    BY <1>1, <1>4, <2>1, <2>4 DEF ThreadOK, At, InCall, Uncached, Target
  <2>6. CacheOK(c)'
    BY <1>1, <1>4 DEF Inv, CacheOK
  <2>7. \A f \in Fd : SocketOK(c, f)'
    BY <1>1, <1>3, <1>4 DEF SocketOK, Quiet, Cached
  <2> QED BY <1>1, <2>2, <2>3, <2>5, <2>6, <2>7, Local
<1>5. CASE /\ i # 0
           /\ cache' = [cache EXCEPT ![c] = Touched(@, i)]
           /\ fd' = [fd EXCEPT ![t] = cache[c][i].fd]
           /\ Goto(t, "send")
  <2> DEFINE n == Len(cache[c])
  <2>1. i \in 1 .. n /\ cache[c][i].host = Target(t) /\ n \in Nat /\ DOMAIN cache[c] = 1 .. n
    BY <1>1, <1>2, <1>5, Place, LenProperties
  <2> DEFINE f == cache[c][i].fd
             new == Touched(cache[c], i)
  <2>2. f \in Fd
    BY <1>1, <2>1, EntryIs DEF Inv
  <2>3. new \in Seq(Entry) /\ Len(new) = n /\ DOMAIN new = 1 .. n
        /\ \A j \in 1 .. n : new[j] = cache[c][From(i, j)]
    BY <1>2, <2>1, TouchedIs, LenProperties
  <2>4. /\ \A j \in 1 .. n : From(i, j) \in 1 .. n
        /\ \A j, k \in 1 .. n : From(i, j) = From(i, k) => j = k
        /\ \A k \in 1 .. n : \E j \in 1 .. n : From(i, j) = k
    BY <2>1, FromIs
  <2>5. cache'[c] = new /\ \A d \in Client : d # c => cache'[d] = cache[d]
    BY <1>1, <1>5 DEF Inv, Types
  <2> HIDE DEF new
  <2>6. Types'
    <3>1. cache' \in [Client -> Seq(Entry)]
      BY <1>1, <1>5, <2>3 DEF Inv, Types, new
    <3>2. \A d \in Client : Len(cache'[d]) <= CacheSize
      BY <1>2, <2>3, <2>5 DEF Inv, Types
    <3>3. pc' \in [Thread -> Places] /\ fd' \in [Thread -> Fd \union {NoFd}]
      BY <1>5, <2>2 DEF Inv, Types, Goto, Places
    <3> QED BY <1>1, <3>1, <3>2, <3>3 DEF Inv, Types
  <2>7. pc'[t] = "send" /\ fd'[t] = f
    BY <1>5 DEF Goto, Inv, Types
  <2>8. OnlyThread(t)
    BY <1>1, <1>5, <2>5 DEF OnlyThread, Goto, Inv, Types
  <2>9. sock[c][f] \in Socket /\ sock[c][f].host = Target(t) /\ Quiet(sock[c][f])
    <3>1. sock[c][f] # Closed /\ sock[c][f].host = Target(t)
      BY <1>1, <2>1 DEF Inv, CacheOK
    <3> QED BY <1>1, <1>3, <2>2, <3>1, SockOf DEF Inv, SocketOK
  <2>10. ThreadOK(t)'
    BY <1>1, <2>2, <2>7, <2>9 DEF ThreadOK, At, InCall, OpenTo, Sock, Target, Quiet
  <2>11. CacheOK(c)'
    <3>1. CacheOK(c)
      BY <1>1 DEF Inv
    <3> DEFINE old == cache[c]
    <3>2. /\ \A j \in 1 .. n : /\ sock[c][old[j].fd] # Closed
                              /\ sock[c][old[j].fd].host = old[j].host
          /\ \A j, k \in 1 .. n : old[j].host = old[k].host => j = k
      BY <2>1, <3>1 DEF CacheOK
    <3> HIDE DEF old, n, i
    <3>3. /\ \A j \in 1 .. n : /\ sock[c][new[j].fd] # Closed
                              /\ sock[c][new[j].fd].host = new[j].host
          /\ \A j, k \in 1 .. n : new[j].host = new[k].host => j = k
      <4>1. \A j \in 1 .. n : new[j] = old[From(i, j)] /\ From(i, j) \in 1 .. n
        BY <2>3, <2>4 DEF old
      <4>2. ASSUME NEW j \in 1 .. n, NEW k \in 1 .. n, new[j].host = new[k].host
            PROVE  j = k
        BY <2>4, <3>2, <4>1, <4>2
      <4> QED BY <3>2, <4>1, <4>2
    <3>4. DOMAIN new = 1 .. n
      BY <2>3
    <3> QED BY <1>1, <2>5, <3>3, <3>4 DEF CacheOK
  <2>12. ASSUME NEW g \in Fd PROVE SocketOK(c, g)'
    <3>1. Cached(c, g) => Cached(c, g)'
      <4>1. ASSUME NEW k \in 1 .. n, cache[c][k].fd = g PROVE \E j \in 1 .. n : new[j].fd = g
        BY <2>3, <2>4, <4>1
      <4> QED BY <2>1, <2>3, <2>5, <4>1 DEF Cached
    <3> QED BY <1>1, <1>3, <3>1 DEF SocketOK, Quiet
  <2> QED BY <1>1, <2>6, <2>8, <2>10, <2>11, <2>12, Local
<1> QED BY <1>4, <1>5 DEF Fetch

\* A number that is free is in no cache and held by no thread.
LEMMA FreshFd ==
    ASSUME Types, NEW c \in Client,
           NEW free, free = {f \in Fd : sock[c][f] = Closed}, free # {}
    PROVE  (CHOOSE f \in free : \A g \in free : f <= g) \in free
<1>1. free \in SUBSET Nat
  BY FdIsNat
<1>2. \E f \in free : \A g \in free : f <= g
  BY <1>1, HasMin
<1> QED BY <1>2

\* What a new connection does to the sockets of a process.
LEMMA OpenedIs ==
    ASSUME Inv, NEW t \in Thread, At(t, "connect"), NEW f \in Fd, sock[Process[t]][f] = Closed,
           sock' = [sock EXCEPT ![Process[t]][f] =
                      [host |-> Target(t), alive |-> up[Target(t)], req |-> <<>>, rep |-> <<>>]]
    PROVE  /\ sock' \in [Client -> [Fd -> Wire]]
           /\ \A d \in Client : d # Process[t] => sock'[d] = sock[d]
           /\ \A g \in Fd : g # f => sock'[Process[t]][g] = sock[Process[t]][g]
           /\ sock'[Process[t]][f] \in Socket /\ sock'[Process[t]][f] # Closed
           /\ sock'[Process[t]][f].host = Target(t)
           /\ sock'[Process[t]][f].alive <=> up[Target(t)]
           /\ Quiet(sock'[Process[t]][f])
<1> DEFINE c == Process[t]
           s == [host |-> Target(t), alive |-> up[Target(t)], req |-> <<>>, rep |-> <<>>]
<1>1. c \in Client
  BY ProcessAssumption
<1>2. Target(t) \in Host
  BY CallOf DEF Target, Inv, ThreadOK, At, InCall
<1>3. up[Target(t)] \in BOOLEAN
  BY <1>2 DEF Inv, Types
<1>4. s \in Socket
  <2>1. <<>> \in Seq(Message) /\ <<>> \in Seq(Answer)
    OBVIOUS
  <2> QED BY <1>2, <1>3, <2>1 DEF Socket
<1>5. s.host = Target(t) /\ s.alive = up[Target(t)] /\ Quiet(s)
  BY DEF Quiet
<1>6. s # Closed
  BY <1>4, ClosedAssumption
<1> HIDE DEF s
<1>7. sock' = [sock EXCEPT ![c][f] = s]
  BY DEF s
<1>8. sock \in [Client -> [Fd -> Wire]] /\ s \in Wire
  BY <1>4 DEF Inv, Types, Wire
<1>9. sock'[c][f] = s
  BY <1>1, <1>7, <1>8
<1> QED BY <1>1, <1>4, <1>5, <1>6, <1>7, <1>8, <1>9

\* a connection is made or fails,
LEMMA ConnectKeeps ==
    ASSUME Inv, NEW t \in Thread, Connect(t)
    PROVE  Inv' /\ OnlyThread(t)
<1> DEFINE c    == Process[t]
           free == {f \in Fd : sock[c][f] = Closed}
           new  == CHOOSE f \in free : \A g \in free : f <= g
           Opened == sock' = [sock EXCEPT ![c][new] =
                      [host |-> Target(t), alive |-> up[Target(t)], req |-> <<>>, rep |-> <<>>]]
<1>1. /\ At(t, "connect") /\ UNCHANGED <<table, up, crashes, cache, call, ret>>
      /\ InCall(t) /\ Solo(t) /\ c \in Client /\ call[t] \in Calls /\ fd[t] = NoFd
      /\ Uncached(t) /\ Target(t) \in Host
  <2>1. At(t, "connect") /\ UNCHANGED <<table, up, crashes, cache, call, ret>>
    BY DEF Connect, server
  <2>2. InCall(t) /\ call[t] \in Calls /\ fd[t] = NoFd /\ Uncached(t)
    BY <2>1 DEF InCall, At, Inv, ThreadOK
  <2> QED BY <2>1, <2>2, InCallIsSolo, ProcessAssumption, CallOf DEF Target
<1>2. \A f \in Fd : SocketOK(c, f) /\ ~HeldAt(c, f, "receive") /\ ~HeldAt(c, f, "cache")
  BY <1>1, Holder DEF Inv, At
<1>3. CacheOK(c)
  BY <1>1 DEF Inv
<1>4. CASE free # {} /\ up[Target(t)] /\ Opened /\ fd' = [fd EXCEPT ![t] = new] /\ Goto(t, "cache")
  <2>1. new \in Fd /\ sock[c][new] = Closed
    BY <1>1, <1>4, FreshFd DEF Inv
  <2> HIDE DEF new
  <2>2. /\ sock' \in [Client -> [Fd -> Wire]]
        /\ \A d \in Client : d # c => sock'[d] = sock[d]
        /\ \A g \in Fd : g # new => sock'[c][g] = sock[c][g]
        /\ sock'[c][new] \in Socket /\ sock'[c][new] # Closed
        /\ sock'[c][new].host = Target(t) /\ sock'[c][new].alive /\ Quiet(sock'[c][new])
    <3>1. sock' = [sock EXCEPT ![c][new] =
                     [host |-> Target(t), alive |-> up[Target(t)], req |-> <<>>, rep |-> <<>>]]
      BY <1>4 DEF new
    <3>2. /\ sock' \in [Client -> [Fd -> Wire]]
          /\ \A d \in Client : d # c => sock'[d] = sock[d]
          /\ \A g \in Fd : g # new => sock'[c][g] = sock[c][g]
          /\ sock'[c][new] \in Socket /\ sock'[c][new] # Closed
          /\ sock'[c][new].host = Target(t)
          /\ sock'[c][new].alive <=> up[Target(t)]
          /\ Quiet(sock'[c][new])
      BY <1>1, <2>1, <3>1, OpenedIs
    <3> QED BY <1>4, <3>2
  <2>3. pc'[t] = "cache" /\ fd'[t] = new
    BY <1>4 DEF Goto, Inv, Types
  <2>4. Types'
    BY <1>1, <1>4, <2>1, <2>2 DEF Inv, Types, Goto, Places
  <2>5. OnlyThread(t)
    BY <1>1, <1>4, <2>2 DEF OnlyThread, Goto, Inv, Types
  <2>6. ThreadOK(t)'
    BY <1>1, <2>1, <2>2, <2>3 DEF ThreadOK, At, InCall, OpenTo, Sock, Target, Uncached, Quiet
  <2>7. CacheOK(c)'
    <3>1. \A g \in Fd : sock[c][g] # Closed => sock'[c][g] # Closed /\ sock'[c][g].host = sock[c][g].host
      BY <2>1, <2>2
    <3>2. Types /\ c \in Client /\ CacheOK(c) /\ cache'[c] = cache[c]
      BY <1>1, <1>3 DEF Inv
    <3> QED BY <3>1, <3>2, CacheStays
  <2>8. ASSUME NEW f \in Fd PROVE SocketOK(c, f)'
    <3>1. CASE f = new
      BY <2>2, <2>3, <3>1 DEF SocketOK, HeldAt, Quiet
    <3>2. CASE f # new
      BY <1>1, <1>2, <2>2, <3>2 DEF SocketOK, Quiet, Cached
    <3> QED BY <3>1, <3>2
  <2> QED BY <1>1, <2>4, <2>5, <2>6, <2>7, <2>8, Local
<1>5. CASE free # {} /\ ~up[Target(t)] /\ Opened /\ Goto(t, "send") /\ UNCHANGED fd
  <2>1. new \in Fd /\ sock[c][new] = Closed
    BY <1>1, <1>5, FreshFd DEF Inv
  <2> HIDE DEF new
  <2>2. /\ sock' \in [Client -> [Fd -> Wire]]
        /\ \A d \in Client : d # c => sock'[d] = sock[d]
        /\ \A g \in Fd : g # new => sock'[c][g] = sock[c][g]
        /\ sock'[c][new] # Closed /\ ~sock'[c][new].alive /\ Quiet(sock'[c][new])
    <3>1. sock' = [sock EXCEPT ![c][new] =
                     [host |-> Target(t), alive |-> up[Target(t)], req |-> <<>>, rep |-> <<>>]]
      BY <1>5 DEF new
    <3>2. At(t, "connect") /\ ~up[Target(t)]
      BY <1>1, <1>5
    <3> QED BY <2>1, <3>1, <3>2, OpenedIs
  <2>3. pc'[t] = "send" /\ fd'[t] = NoFd /\ crashes > 0
    BY <1>1, <1>5 DEF Goto, Inv, Types, DownIsFault
  <2>4. Types'
    BY <1>1, <1>5, <2>2 DEF Inv, Types, Goto, Places
  <2>5. OnlyThread(t)
    BY <1>1, <1>5, <2>2 DEF OnlyThread, Goto, Inv, Types
  <2>6. ThreadOK(t)'
    BY <1>1, <2>3 DEF ThreadOK, At, InCall
  <2>7. CacheOK(c)'
    <3>1. \A g \in Fd : sock[c][g] # Closed => sock'[c][g] # Closed /\ sock'[c][g].host = sock[c][g].host
      BY <2>1, <2>2
    <3>2. Types /\ c \in Client /\ CacheOK(c) /\ cache'[c] = cache[c]
      BY <1>1, <1>3 DEF Inv
    <3> QED BY <3>1, <3>2, CacheStays
  <2>8. ASSUME NEW f \in Fd PROVE SocketOK(c, f)'
    <3>1. CASE f = new
      BY <1>1, <2>2, <2>3, <3>1 DEF SocketOK, Quiet
    <3>2. CASE f # new
      BY <1>1, <1>2, <2>2, <3>2 DEF SocketOK, Quiet, Cached
    <3> QED BY <3>1, <3>2
  <2> QED BY <1>1, <2>4, <2>5, <2>6, <2>7, <2>8, Local
<1>6. CASE free = {} /\ Goto(t, "send") /\ UNCHANGED <<sock, fd>>
  <2>1. pc'[t] = "send" /\ fd'[t] = NoFd
    BY <1>1, <1>6 DEF Goto, Inv, Types
  <2>2. Types'
    BY <1>1, <1>6 DEF Inv, Types, Goto, Places
  <2>3. OnlyThread(t)
    BY <1>1, <1>6 DEF OnlyThread, Goto, Inv, Types
  <2>4. ThreadOK(t)'
    BY <1>1, <2>1 DEF ThreadOK, At, InCall
  <2>5. CacheOK(c)' /\ \A f \in Fd : SocketOK(c, f)'
    BY <1>1, <1>2, <1>3, <1>6 DEF SocketOK, Quiet, Cached, CacheOK
  <2> QED BY <1>1, <2>2, <2>3, <2>4, <2>5, Local
<1> QED BY <1>4, <1>5, <1>6 DEF Connect

\* and goes into the cache, which gives up another.
LEMMA CacheKeeps ==
    ASSUME Inv, NEW t \in Thread, Cache(t)
    PROVE  Inv' /\ OnlyThread(t)
<1> DEFINE c    == Process[t]
           old  == cache[c]
           list == Inserted(old, Target(t), fd[t])
           out  == Evicted(list)
           new  == Kept(list)
<1>1. /\ At(t, "cache") /\ UNCHANGED <<table, up, crashes, call, fd, ret>>
      /\ InCall(t) /\ Solo(t) /\ c \in Client /\ call[t] \in Calls
      /\ Uncached(t) /\ OpenTo(t) /\ Quiet(Sock(t)) /\ Target(t) \in Host
  <2>1. At(t, "cache") /\ UNCHANGED <<table, up, crashes, call, fd, ret>>
    BY DEF Cache, server
  <2>2. InCall(t) /\ call[t] \in Calls /\ Uncached(t) /\ OpenTo(t) /\ Quiet(Sock(t))
    BY <2>1 DEF InCall, At, Inv, ThreadOK
  <2> QED BY <2>1, <2>2, InCallIsSolo, ProcessAssumption, CallOf DEF Target
<1>2. \A f \in Fd : SocketOK(c, f) /\ ~HeldAt(c, f, "receive") /\ (HeldAt(c, f, "cache") => f = fd[t])
  BY <1>1, Holder DEF Inv, At
<1>3. /\ cache' = [cache EXCEPT ![c] = new] /\ pc' = [pc EXCEPT ![t] = "send"]
      /\ sock' = [sock EXCEPT ![c] = [f \in Fd |-> IF f \in out THEN Closed ELSE @[f]]]
  BY DEF Cache, Goto
<1> DEFINE n == Len(old)
<1>4. /\ n \in Nat /\ n <= CacheSize /\ old \in Seq(Entry) /\ DOMAIN old = 1 .. n
      /\ \A j \in 1 .. n : old[j].host # Target(t) /\ old[j].fd \in Fd
  BY <1>1, EntryIs, LenProperties DEF Inv, Types, Uncached
<1>5. /\ list \in Seq(Entry) /\ Len(list) = n + 1
      /\ \A j \in 1 .. (n + 1) : list[j] = IF j = 1 THEN [host |-> Target(t), fd |-> fd[t]] ELSE old[j - 1]
  BY <1>1, <1>4, InsertedIs DEF OpenTo
\* What holds of the cache before holds with the new entry in front.
<1>6. /\ \A j \in 1 .. (n + 1) : /\ sock[c][list[j].fd] # Closed /\ list[j].fd \in Fd
                                 /\ sock[c][list[j].fd].host = list[j].host
      /\ \A j, k \in 1 .. (n + 1) : list[j].host = list[k].host => j = k
  <2>1. /\ \A j \in 1 .. n : sock[c][old[j].fd] # Closed /\ sock[c][old[j].fd].host = old[j].host
        /\ \A j, k \in 1 .. n : old[j].host = old[k].host => j = k
    BY <1>1, <1>4 DEF Inv, CacheOK
  <2>2. fd[t] \in Fd /\ sock[c][fd[t]] # Closed /\ sock[c][fd[t]].host = Target(t)
    BY <1>1, ClosedAssumption DEF OpenTo, Sock
  <2> HIDE DEF list, old, n
  <2>3. ASSUME NEW j \in 1 .. (n + 1)
        PROVE  /\ j = 1 => list[j].host = Target(t) /\ list[j].fd = fd[t]
               /\ j # 1 => j - 1 \in 1 .. n /\ list[j] = old[j - 1] /\ list[j].host # Target(t)
    <3>1. CASE j = 1
      BY <1>5, <3>1
    <3>2. CASE j # 1
      <4>1. j - 1 \in 1 .. n
        BY <1>4, <3>2
      <4> QED BY <1>4, <1>5, <3>2, <4>1
    <3> QED BY <3>1, <3>2
  <2>4. ASSUME NEW j \in 1 .. (n + 1)
        PROVE  /\ sock[c][list[j].fd] # Closed /\ list[j].fd \in Fd
               /\ sock[c][list[j].fd].host = list[j].host
    BY <1>4, <2>1, <2>2, <2>3
  <2>5. ASSUME NEW j \in 1 .. (n + 1), NEW k \in 1 .. (n + 1), list[j].host = list[k].host
        PROVE  j = k
    <3>1. CASE j = 1 \/ k = 1
      BY <2>3, <2>5, <3>1
    <3>2. CASE j # 1 /\ k # 1
      <4>1. j - 1 = k - 1
        BY <2>1, <2>3, <2>5, <3>2
      <4> QED BY <1>4, <4>1
    <3> QED BY <3>1, <3>2
  <2> QED BY <2>4, <2>5
<1> DEFINE m == Len(new)
<1>7. /\ new \in Seq(Entry) /\ m \in Nat /\ m <= CacheSize /\ m <= n + 1 /\ 1 <= m /\ DOMAIN new = 1 .. m
      /\ \A j \in 1 .. m : new[j] = list[j]
      /\ m < n + 1 => m = CacheSize
      /\ out = {list[j].fd : j \in (CacheSize + 1) .. (n + 1)}
  <2> HIDE DEF list, n, old
  <2> QED BY <1>4, <1>5, KeptIs, LenProperties, SizeAssumption
<1> HIDE DEF list, old, out, new, n, m
<1>8. \A j \in 1 .. m : list[j].fd \notin out
  <2>1. SUFFICES ASSUME NEW j \in 1 .. m, NEW k \in (CacheSize + 1) .. (n + 1), list[j].fd = list[k].fd
                 PROVE  FALSE
    BY <1>7
  <2>2. j \in 1 .. (n + 1) /\ k \in 1 .. (n + 1) /\ j # k
    BY <1>4, <1>7, SizeAssumption
  <2>3. list[j].host = list[k].host
    BY <1>6, <2>1, <2>2
  <2> QED BY <1>6, <2>2, <2>3
<1>9. /\ sock \in [Client -> [Fd -> Wire]] /\ Closed \in Wire
      /\ \A f \in Fd : sock'[c][f] = IF f \in out THEN Closed ELSE sock[c][f]
      /\ \A d \in Client : d # c => sock'[d] = sock[d]
  BY <1>1, <1>3 DEF Inv, Types, Wire
<1>10. /\ fd[t] \in Fd /\ fd[t] \notin out
       /\ \A j \in 1 .. m : /\ new[j] = list[j] /\ j \in 1 .. (n + 1)
                            /\ sock'[c][list[j].fd] = sock[c][list[j].fd]
  <2>1. 1 \in 1 .. (n + 1) /\ 1 \in 1 .. m /\ list[1].fd = fd[t]
    BY <1>4, <1>5, <1>7
  <2>2. \A j \in 1 .. m : j \in 1 .. (n + 1)
    BY <1>4, <1>7
  <2> QED BY <1>1, <1>6, <1>7, <1>8, <1>9, <2>1, <2>2 DEF OpenTo
<1>11. Types'
  <2>1. sock' \in [Client -> [Fd -> Wire]]
    BY <1>1, <1>3, <1>9
  <2>2. cache' \in [Client -> Seq(Entry)] /\ \A d \in Client : Len(cache'[d]) <= CacheSize
    BY <1>1, <1>3, <1>7 DEF Inv, Types, m
  <2> QED BY <1>1, <1>3, <2>1, <2>2 DEF Inv, Types, Places
<1>12. OnlyThread(t)
  BY <1>1, <1>3, <1>9 DEF OnlyThread, Inv, Types
<1>13. ThreadOK(t)'
  <2>1. pc'[t] = "send" /\ fd'[t] = fd[t] /\ sock'[c][fd[t]] = sock[c][fd[t]]
    BY <1>1, <1>3, <1>9, <1>10 DEF Inv, Types
  <2> QED BY <1>1, <2>1 DEF ThreadOK, At, InCall, OpenTo, Sock, Target, Quiet
<1>14. CacheOK(c)'
  <2>1. cache'[c] = new
    BY <1>1, <1>3 DEF Inv, Types
  <2>2. /\ \A j \in 1 .. m : sock'[c][new[j].fd] # Closed /\ sock'[c][new[j].fd].host = new[j].host
        /\ \A j, k \in 1 .. m : new[j].host = new[k].host => j = k
    BY <1>6, <1>10
  <2> QED BY <1>7, <2>1, <2>2 DEF CacheOK
<1>15. ASSUME NEW f \in Fd PROVE SocketOK(c, f)'
  <2>1. CASE f \in out
    BY <1>9, <2>1 DEF SocketOK
  <2>2. CASE f \notin out
    <3>1. sock'[c][f] = sock[c][f]
      BY <1>9, <2>2
    <3>2. ASSUME Cached(c, f) \/ f = fd[t]
          PROVE  \E j \in 1 .. (n + 1) : list[j].fd = f
      <4>1. CASE f = fd[t]
        BY <1>4, <1>5, <4>1
      <4>2. CASE Cached(c, f)
        <5>1. PICK j \in 1 .. n : old[j].fd = f
          BY <1>4, <4>2 DEF Cached, old
        <5>2. j + 1 \in 1 .. (n + 1) /\ j + 1 # 1 /\ (j + 1) - 1 = j
          BY <1>4
        <5> QED BY <1>5, <5>1, <5>2
      <4> QED BY <3>2, <4>1, <4>2
    <3>3. ASSUME NEW j \in 1 .. (n + 1), list[j].fd = f PROVE Cached(c, f)'
      <4>1. j \in 1 .. m
        <5>1. ~(j \in (CacheSize + 1) .. (n + 1))
          BY <1>7, <2>2, <3>3
        <5> QED BY <1>4, <1>7, <5>1, SizeAssumption
      <4>2. cache'[c] = new
        BY <1>1, <1>3 DEF Inv, Types
      <4> QED BY <1>7, <3>3, <4>1, <4>2 DEF Cached
    <3> QED BY <1>1, <1>2, <3>1, <3>2, <3>3 DEF SocketOK, Quiet
  <2> QED BY <2>1, <2>2
<1> QED BY <1>1, <1>11, <1>12, <1>13, <1>14, <1>15, Local

\* What changing one socket does to the sockets of a process.
LEMMA OneSocket ==
    ASSUME Types, NEW c \in Client, NEW f \in Fd, NEW s \in Socket,
           sock' = [sock EXCEPT ![c][f] = s]
    PROVE  /\ sock' \in [Client -> [Fd -> Wire]]
           /\ \A d \in Client : d # c => sock'[d] = sock[d]
           /\ \A g \in Fd : g # f => sock'[c][g] = sock[c][g]
           /\ sock'[c][f] = s
<1>1. sock \in [Client -> [Fd -> Wire]] /\ s \in Wire
  BY DEF Types, Wire
<1> QED BY <1>1

\* A request is a message.
LEMMA AsksIs ==
    ASSUME NEW t \in Thread, call[t] \in Calls
    PROVE  Asks(t) \in Message /\ <<Asks(t)>> \in Seq(Message) /\ <<Asks(t)>> # <<>> /\ <<Asks(t)>>[1] = Asks(t)
<1>1. Asks(t) \in Message
  BY CallOf DEF Asks, Message
<1> QED BY <1>1

\* Send finds the socket open to the server or goes without.
SendsOn(t) ==
    /\ At(t, "send") /\ OpenTo(t) /\ Quiet(Sock(t)) /\ Sock(t).alive
    /\ sock' = [sock EXCEPT ![Process[t]][fd[t]] = [Sock(t) EXCEPT !.req = <<Asks(t)>>]]
    /\ Goto(t, "receive")
    /\ UNCHANGED <<server, cache, call, fd, ret>>

SendsInVain(t) ==
    /\ At(t, "send") /\ Unserved(t)
    /\ call[t].op = "lookup" => fd[t] # NoFd
    /\ Goto(t, "receive")
    /\ UNCHANGED <<server, sock, cache, call, fd, ret>>

\* A send puts the request on the socket, or is in vain.
LEMMA SendIs ==
    ASSUME Inv, NEW t \in Thread, Send(t)
    PROVE  SendsOn(t) \/ SendsInVain(t) \/ GoesWithout(t)
<1>1. At(t, "send") /\ UNCHANGED <<server, cache>>
  BY DEF Send
<1>2. fd[t] = NoFd \/ (OpenTo(t) /\ Quiet(Sock(t)) /\ HasSock(t))
  BY <1>1, ClosedAssumption, FdIsNat DEF Inv, ThreadOK, OpenTo, HasSock
<1>3. CASE Alive(t)
  <2>1. OpenTo(t) /\ Quiet(Sock(t)) /\ Sock(t).alive
    BY <1>2, <1>3 DEF Alive, HasSock
  <2>2. /\ sock' = [sock EXCEPT ![Process[t]][fd[t]].req = Append(@, Asks(t))]
        /\ Goto(t, "receive") /\ UNCHANGED <<call, fd, ret>>
    BY <1>3 DEF Send, Asks
  <2>3. Append(sock[Process[t]][fd[t]].req, Asks(t)) = <<Asks(t)>>
    BY <2>1, AppendEmpty DEF Quiet, Sock
  <2>4. sock' = [sock EXCEPT ![Process[t]][fd[t]] = [Sock(t) EXCEPT !.req = <<Asks(t)>>]]
    <3> HIDE DEF Asks
    <3> QED BY <2>2, <2>3 DEF Sock
  <2> QED BY <1>1, <2>1, <2>2, <2>4 DEF SendsOn
<1>4. CASE ~Alive(t)
  <2>1. Unserved(t)
    BY <1>2, <1>4 DEF Alive, Unserved
  <2>2. HasSock(t) => fd[t] # NoFd
    BY DEF HasSock
  <2> QED BY <1>1, <1>4, <2>1, <2>2 DEF Send, SendsInVain, GoesWithout, At
<1> QED BY <1>3, <1>4

\* Both keep the invariant.
LEMMA SendKeeps ==
    ASSUME Inv, NEW t \in Thread, SendsOn(t) \/ SendsInVain(t)
    PROVE  Inv' /\ OnlyThread(t)
<1> DEFINE c == Process[t]
           f == fd[t]
<1>1. /\ At(t, "send") /\ UNCHANGED <<table, up, crashes, cache, call, fd, ret>>
      /\ InCall(t) /\ Solo(t) /\ c \in Client /\ call[t] \in Calls /\ CacheOK(c)
  <2>1. At(t, "send") /\ UNCHANGED <<table, up, crashes, cache, call, fd, ret>>
    BY DEF SendsOn, SendsInVain, server
  <2>2. InCall(t) /\ call[t] \in Calls
    BY <2>1 DEF InCall, At, Inv, ThreadOK
  <2> QED BY <2>1, <2>2, InCallIsSolo, ProcessAssumption DEF Inv
<1>2. \A g \in Fd : SocketOK(c, g) /\ ~HeldAt(c, g, "receive") /\ ~HeldAt(c, g, "cache")
  BY <1>1, Holder DEF Inv, At
<1>3. pc' = [pc EXCEPT ![t] = "receive"] /\ pc'[t] = "receive"
  BY DEF SendsOn, SendsInVain, Goto, Inv, Types
<1>4. CASE SendsOn(t)
  <2> DEFINE s == [Sock(t) EXCEPT !.req = <<Asks(t)>>]
  <2>1. /\ f \in Fd /\ Sock(t) \in Socket /\ Sock(t).host = Target(t) /\ Quiet(Sock(t)) /\ Sock(t).alive
        /\ sock[c][f] = Sock(t) /\ Sock(t) # Closed
    BY <1>4, ClosedAssumption DEF SendsOn, OpenTo, Sock
  <2>2. /\ s \in Socket /\ s.host = Target(t) /\ s.alive /\ s.req = <<Asks(t)>> /\ s.rep = <<>>
    BY <1>1, <2>1, AsksIs DEF Socket, Quiet
  <2>3. sock' = [sock EXCEPT ![c][f] = s]
    BY <1>4 DEF SendsOn
  <2> HIDE DEF s
  <2>4. /\ sock' \in [Client -> [Fd -> Wire]]
        /\ \A d \in Client : d # c => sock'[d] = sock[d]
        /\ \A g \in Fd : g # f => sock'[c][g] = sock[c][g]
        /\ sock'[c][f] = s
    <3>1. Types /\ c \in Client /\ f \in Fd /\ s \in Socket
      BY <1>1, <2>1, <2>2 DEF Inv
    <3> QED BY <3>1, <2>3, OneSocket
  <2>5. Types'
    BY <1>1, <1>3, <2>4 DEF Inv, Types, Places
  <2>6. OnlyThread(t)
    BY <1>1, <1>3, <2>4 DEF OnlyThread, Inv, Types
  <2>7. ThreadOK(t)'
    BY <1>1, <1>3, <2>1, <2>2, <2>4 DEF ThreadOK, At, InCall, OpenTo, Sock, Target, Waits, Asks
  <2>8. CacheOK(c)'
    <3>1. sock'[c][f] # Closed /\ sock'[c][f].host = sock[c][f].host
      BY <2>1, <2>2, <2>4, ClosedAssumption
    <3>2. \A g \in Fd : sock[c][g] # Closed => sock'[c][g] # Closed /\ sock'[c][g].host = sock[c][g].host
      BY <2>4, <3>1
    <3>3. Types /\ c \in Client /\ CacheOK(c) /\ cache'[c] = cache[c]
      BY <1>1 DEF Inv
    <3> QED BY <3>2, <3>3, CacheStays
  <2>9. ASSUME NEW g \in Fd PROVE SocketOK(c, g)'
    <3>1. CASE g = f
      <4>1. HeldAt(c, g, "receive")' /\ Cached(c, g)'
        <5>1. Cached(c, g)
          BY <1>2, <2>1, <3>1 DEF SocketOK
        <5> QED BY <1>1, <1>3, <3>1, <5>1 DEF HeldAt, Cached
      <4> QED BY <2>2, <2>4, <3>1, <4>1 DEF SocketOK
    <3>2. CASE g # f
      BY <1>1, <1>2, <2>4, <3>2 DEF SocketOK, Quiet, Cached
    <3> QED BY <3>1, <3>2
  <2> QED BY <1>1, <2>5, <2>6, <2>7, <2>8, <2>9, Local
<1>5. CASE SendsInVain(t)
  <2>1. sock' = sock /\ Unserved(t) /\ (call[t].op = "lookup" => fd[t] # NoFd)
    BY <1>5 DEF SendsInVain
  <2>2. Types'
    BY <1>1, <1>3, <2>1 DEF Inv, Types, Places
  <2>3. OnlyThread(t)
    BY <1>1, <1>3, <2>1 DEF OnlyThread, Inv, Types
  <2>4. ThreadOK(t)'
    BY <1>1, <1>3, <2>1 DEF ThreadOK, At, InCall, OpenTo, Sock, Target, Waits, Quiet, Unserved
  <2>5. CacheOK(c)' /\ \A g \in Fd : SocketOK(c, g)'
    BY <1>1, <1>2, <2>1 DEF SocketOK, Quiet, Cached, CacheOK
  <2> QED BY <1>1, <2>2, <2>3, <2>4, <2>5, Local
<1> QED BY <1>4, <1>5

\* A thread that has returned is none of the invariant's concern.
LEMMA ReturnIs ==
    ASSUME Inv, NEW t \in Thread, NEW r \in Result, Return(t, r)
    PROVE  /\ pc' \in [Thread -> Places] /\ call' \in [Thread -> Calls \union {NoCall}]
           /\ fd' \in [Thread -> Fd \union {NoFd}] /\ ret' \in [Thread -> Result]
           /\ pc'[t] = "idle" /\ call'[t] = NoCall /\ fd'[t] = NoFd
           /\ \A u \in Thread : u # t => pc'[u] = pc[u] /\ call'[u] = call[u] /\ fd'[u] = fd[u]
           /\ ThreadOK(t)'
<1>1. /\ pc' \in [Thread -> Places] /\ call' \in [Thread -> Calls \union {NoCall}]
      /\ fd' \in [Thread -> Fd \union {NoFd}] /\ ret' \in [Thread -> Result]
      /\ pc'[t] = "idle" /\ call'[t] = NoCall /\ fd'[t] = NoFd
      /\ \A u \in Thread : u # t => pc'[u] = pc[u] /\ call'[u] = call[u] /\ fd'[u] = fd[u]
  BY DEF Return, Inv, Types, Places
<1> QED BY <1>1 DEF ThreadOK, At, InCall

\* What is made up is a result.
LEMMA MadeUpIs ==
    ASSUME NEW op, NEW r \in MadeUp(op)
    PROVE  r \in Result /\ r.status \in {"failed", "ok", "junk"} /\ r.val = NoVal
  BY DEF MadeUp, Result

\* A thread that goes without an answer keeps the invariant,
LEMMA GoesWithoutKeeps ==
    ASSUME Inv, NEW t \in Thread, GoesWithout(t)
    PROVE  Inv' /\ OnlyThread(t)
<1> DEFINE c == Process[t]
<1>1. /\ UNCHANGED <<table, up, crashes, sock, cache>>
      /\ pc[t] \in {"send", "receive"} /\ Unserved(t)
      /\ InCall(t) /\ Solo(t) /\ c \in Client /\ CacheOK(c)
  <2>1. UNCHANGED <<table, up, crashes, sock, cache>> /\ pc[t] \in {"send", "receive"} /\ Unserved(t)
    BY DEF GoesWithout, server
  <2> QED BY <2>1, InCallIsSolo, ProcessAssumption DEF Inv, InCall
<1>2. PICK r \in Result : Return(t, r)
  BY MadeUpIs DEF GoesWithout
<1>3. /\ Types' /\ OnlyThread(t) /\ ThreadOK(t)'
  BY <1>1, <1>2, ReturnIs DEF Inv, Types, OnlyThread
<1>4. ASSUME NEW g \in Fd PROVE SocketOK(c, g)'
  <2>1. SocketOK(c, g) /\ ~HeldAt(c, g, "cache") /\ (HeldAt(c, g, "receive") => g = fd[t])
    BY <1>1, Holder DEF Inv, At
  <2>2. Quiet(sock[c][g]) \/ sock[c][g] = Closed
    BY <1>1, <2>1, FdIsNat DEF SocketOK, Unserved, Sock
  <2> QED BY <1>1, <2>1, <2>2 DEF SocketOK, Quiet, Cached
<1>5. CacheOK(c)'
  BY <1>1 DEF CacheOK
<1> QED BY <1>1, <1>3, <1>4, <1>5, Local

\* The answer a thread takes is one.
LEMMA AnswerIs ==
    ASSUME NEW t, HasAnswer(t)
    PROVE  /\ Sock(t).rep[1] \in Answer /\ Sock(t).rep[1].by = t
           /\ Sock(t).rep[1].status \in {"ok", "missing"}
           /\ Sock(t).rep[1].val \in Val \union {NoVal}
<1>1. Sock(t).rep \in Seq(Answer) /\ Sock(t).rep # <<>>
  BY SocketIs DEF HasAnswer, OpenTo
<1>2. Sock(t).rep[1] \in Answer
  BY <1>1
<1> QED BY <1>2 DEF Answer, HasAnswer, Answers

\* so does one that takes its answer,
LEMMA TakesAnswerKeeps ==
    ASSUME Inv, NEW t \in Thread, TakesAnswer(t)
    PROVE  Inv' /\ OnlyThread(t)
<1> DEFINE c == Process[t]
           f == fd[t]
           a == Sock(t).rep[1]
           s == [Sock(t) EXCEPT !.rep = <<>>]
<1>1. /\ UNCHANGED <<table, up, crashes, cache>>
      /\ At(t, "receive") /\ HasAnswer(t)
      /\ InCall(t) /\ Solo(t) /\ c \in Client /\ CacheOK(c)
  <2>1. UNCHANGED <<table, up, crashes, cache>> /\ At(t, "receive") /\ HasAnswer(t)
    BY DEF TakesAnswer, server
  <2>2. InCall(t)
    BY <2>1 DEF InCall, At
  <2> QED BY <2>1, <2>2, InCallIsSolo, ProcessAssumption DEF Inv
<1>2. [by |-> a.by, status |-> a.status, val |-> a.val] \in Result
  BY <1>1, AnswerIs DEF Result
<1>3. Return(t, [by |-> a.by, status |-> a.status, val |-> a.val])
  BY DEF TakesAnswer
<1>4. f \in Fd /\ Sock(t) \in Socket /\ sock[c][f] = Sock(t) /\ Sock(t).req = <<>> /\ Sock(t) # Closed
  BY <1>1, ClosedAssumption DEF HasAnswer, OpenTo, Sock
<1>5. s \in Socket /\ s.host = Sock(t).host /\ s.alive = Sock(t).alive /\ Quiet(s) /\ s # Closed
  <2>1. s \in Socket
    BY <1>4 DEF Socket
  <2> QED BY <1>4, <2>1, ClosedAssumption DEF Socket, Quiet
<1>6. sock' = [sock EXCEPT ![c][f] = s]
  BY DEF TakesAnswer, Sock
<1> HIDE DEF s
<1>7. /\ sock' \in [Client -> [Fd -> Wire]]
      /\ \A d \in Client : d # c => sock'[d] = sock[d]
      /\ \A g \in Fd : g # f => sock'[c][g] = sock[c][g]
      /\ sock'[c][f] = s
  <2>1. Types /\ c \in Client /\ f \in Fd /\ s \in Socket
    BY <1>1, <1>4, <1>5 DEF Inv
  <2> QED BY <2>1, <1>6, OneSocket
<1>8. Types' /\ OnlyThread(t) /\ ThreadOK(t)'
  BY <1>1, <1>2, <1>3, <1>7, ReturnIs DEF Inv, Types, OnlyThread
<1>9. CacheOK(c)'
  <2>1. \A g \in Fd : sock[c][g] # Closed => sock'[c][g] # Closed /\ sock'[c][g].host = sock[c][g].host
    BY <1>4, <1>5, <1>7
  <2>2. Types /\ c \in Client /\ CacheOK(c) /\ cache'[c] = cache[c]
    BY <1>1 DEF Inv
  <2> QED BY <2>1, <2>2, CacheStays
<1>10. ASSUME NEW g \in Fd PROVE SocketOK(c, g)'
  <2>1. SocketOK(c, g) /\ ~HeldAt(c, g, "cache") /\ (HeldAt(c, g, "receive") => g = f)
    BY <1>1, Holder DEF Inv, At
  <2>2. CASE g = f
    BY <1>1, <1>4, <1>5, <1>7, <2>1, <2>2 DEF SocketOK, Cached, Quiet
  <2>3. CASE g # f
    BY <1>1, <1>7, <2>1, <2>3 DEF SocketOK, Cached, Quiet
  <2> QED BY <2>2, <2>3
<1> QED BY <1>1, <1>8, <1>9, <1>10, Local

\* and one that ends its process.
LEMMA FailsKeeps ==
    ASSUME Inv, NEW t \in Thread, Fails(t)
    PROVE  Inv'
<1> DEFINE c == Process[t]
<1>1. /\ UNCHANGED <<table, up, crashes, sock, cache, call, fd, ret>>
      /\ pc' = [u \in Thread |-> IF Process[u] = c THEN "dead" ELSE pc[u]]
      /\ At(t, "receive") /\ OpenTo(t) /\ Quiet(Sock(t)) /\ InCall(t) /\ Solo(t) /\ c \in Client
  <2>1. /\ UNCHANGED <<table, up, crashes, sock, cache, call, fd, ret>>
        /\ pc' = [u \in Thread |-> IF Process[u] = c THEN "dead" ELSE pc[u]]
        /\ At(t, "receive") /\ OpenTo(t) /\ Quiet(Sock(t))
    BY DEF Fails, Abort, server
  <2>2. InCall(t)
    BY <2>1 DEF InCall, At
  <2> QED BY <2>1, <2>2, InCallIsSolo, ProcessAssumption
<1>2. Types'
  BY <1>1 DEF Inv, Types, Places
<1>3. ASSUME NEW u \in Thread PROVE ThreadOK(u)'
  <2>1. CASE Process[u] = c
    BY <1>1, <2>1 DEF ThreadOK, At, InCall
  <2>2. CASE Process[u] # c
    BY <1>1, <2>2, Frame
  <2> QED BY <2>1, <2>2
<1>4. Alone' /\ DownIsFault'
  BY <1>1 DEF Inv, Alone, InCall, DownIsFault
<1>5. ASSUME NEW d \in Client PROVE CacheOK(d)'
  BY <1>1 DEF Inv, CacheOK
<1>6. ASSUME NEW d \in Client, NEW f \in Fd PROVE SocketOK(d, f)'
  <2>1. SocketOK(d, f)
    BY DEF Inv
  <2>2. CASE d = c
    <3>1. ~HeldAt(d, f, "cache") /\ (HeldAt(d, f, "receive") => fd[t] = f)
      BY <1>1, <2>2, Holder DEF At
    <3>2. Quiet(sock[d][f]) \/ sock[d][f] = Closed
      BY <1>1, <2>1, <2>2, <3>1 DEF SocketOK, Sock
    <3> QED BY <1>1, <2>1, <3>1, <3>2 DEF SocketOK, Cached, Quiet
  <2>3. CASE d # c
    <3>1. ASSUME NEW l PROVE HeldAt(d, f, l) => HeldAt(d, f, l)'
      BY <1>1, <2>3 DEF HeldAt
    <3> QED BY <1>1, <2>1, <3>1 DEF SocketOK, Cached, Quiet
  <2> QED BY <2>2, <2>3
<1> QED BY <1>2, <1>3, <1>4, <1>5, <1>6 DEF Inv
-----------------------------------------------------------------------------
(* The steps of a server keep the invariant. *)

\* A server finds one request on a socket: that of the thread that waits on it.
Served(t) ==
    LET h == Sock(t).host
        m == Asks(t)
    IN  /\ At(t, "receive") /\ OpenTo(t)
        /\ Sock(t).alive /\ Sock(t).req = <<m>> /\ Sock(t).rep = <<>>
        /\ table' = [table EXCEPT ![h] = Updated(h, m)]
        /\ sock' = [sock EXCEPT ![Process[t]][fd[t]] =
                      [Sock(t) EXCEPT !.req = <<>>, !.rep = <<Reply(h, m)>>]]
        /\ UNCHANGED <<up, crashes, cache, pc, call, fd, ret>>

\* The server finds the one request of the thread that waits.
LEMMA ServeIs ==
    ASSUME Inv, NEW c \in Client, NEW f \in Fd, Serve(c, f)
    PROVE  \E t \in Thread : Served(t)
<1>1. sock[c][f] # Closed /\ sock[c][f].alive
  BY DEF Serve
<1>2. PICK n \in 1 .. Len(sock[c][f].req) :
         LET h == sock[c][f].host
             m == sock[c][f].req[n]
         IN  /\ table' = [table EXCEPT ![h] = Updated(h, m)]
             /\ sock' = [sock EXCEPT ![c][f].req = SubSeq(@, n + 1, Len(@)),
                                     ![c][f].rep = Append(@, Reply(h, m))]
  BY DEF Serve
<1>3. UNCHANGED <<up, crashes, cache, pc, call, fd, ret>>
  BY DEF Serve
<1>4. sock[c][f].req # <<>>
  <2>1. Len(<<>>) = 0
    OBVIOUS
  <2> QED BY <1>2, <2>1
<1>5. PICK t \in Thread : Process[t] = c /\ pc[t] = "receive" /\ fd[t] = f
  BY <1>1, <1>4 DEF Inv, SocketOK, HeldAt, Quiet
<1>6. /\ At(t, "receive") /\ OpenTo(t) /\ Sock(t) = sock[c][f]
      /\ sock[c][f].req = <<Asks(t)>> /\ sock[c][f].rep = <<>>
  <2>1. fd[t] # NoFd
    BY <1>5, FdIsNat
  <2> QED BY <1>1, <1>4, <1>5, <2>1, WaitsFor DEF At, Sock, HasAnswer, Quiet
<1> DEFINE s == sock[c][f]
           h == s.host
<1>7. n = 1 /\ s.req[n] = Asks(t) /\ SubSeq(s.req, n + 1, Len(s.req)) = <<>>
  <2>1. \A b, w : w = <<b>> => Len(w) = 1 /\ w[1] = b /\ SubSeq(w, 1 + 1, Len(w)) = <<>>
    OBVIOUS
  <2>2. Len(s.req) = 1 /\ s.req[1] = Asks(t) /\ SubSeq(s.req, 1 + 1, Len(s.req)) = <<>>
    BY <1>6, <2>1
  <2>3. n = 1
    BY <1>2, <2>2
  <2> QED BY <2>2, <2>3
<1>8. Append(s.rep, Reply(h, Asks(t))) = <<Reply(h, Asks(t))>>
  BY <1>6, AppendEmpty
<1>9. table' = [table EXCEPT ![h] = Updated(h, Asks(t))]
  BY <1>2, <1>7
<1>10. sock' = [sock EXCEPT ![c][f] = [s EXCEPT !.req = <<>>, !.rep = <<Reply(h, Asks(t))>>]]
  <2>1. s \in Socket
    BY <1>6 DEF OpenTo
  <2>2. sock' = [sock EXCEPT ![c][f].req = SubSeq(@, n + 1, Len(@)),
                             ![c][f].rep = Append(@, Reply(h, Asks(t)))]
    BY <1>2, <1>7
  <2> QED BY <1>6, <1>7, <1>8, <2>1, <2>2 DEF Inv, Types
<1>11. Served(t)
  BY <1>1, <1>3, <1>5, <1>6, <1>9, <1>10 DEF Served
<1> QED BY <1>11

\* Its answer is one.
LEMMA ReplyIs ==
    ASSUME Inv, NEW t \in Thread, call[t] \in Calls, NEW h \in Host
    PROVE  /\ Reply(h, Asks(t)) \in Answer /\ Answers(t, Reply(h, Asks(t)))
           /\ Updated(h, Asks(t)) \in [Key -> Val \union {NoVal}]
<1>1. /\ Asks(t).by = t /\ Asks(t).op = call[t].op /\ Asks(t).key \in Key
      /\ Asks(t).val \in Val \union {NoVal}
  BY CallOf DEF Asks
<1>2. table[h] \in [Key -> Val \union {NoVal}]
  BY DEF Inv, Types
<1>3. Reply(h, Asks(t)) \in Answer
  BY <1>1, <1>2 DEF Reply, Answer, Status
<1>4. Answers(t, Reply(h, Asks(t)))
  BY <1>1 DEF Reply, Answers
<1>5. Updated(h, Asks(t)) \in [Key -> Val \union {NoVal}]
  BY <1>1, <1>2 DEF Updated
<1> QED BY <1>3, <1>4, <1>5

\* To be served keeps the invariant.
LEMMA ServedKeeps ==
    ASSUME Inv, NEW t \in Thread, Served(t)
    PROVE  Inv' /\ OnlyThread(t)
<1> DEFINE c == Process[t]
           f == fd[t]
<1>1. /\ UNCHANGED <<up, crashes, cache, pc, call, fd, ret>>
      /\ At(t, "receive") /\ OpenTo(t) /\ Sock(t).alive
      /\ InCall(t) /\ Solo(t) /\ c \in Client /\ CacheOK(c) /\ call[t] \in Calls
  <2>1. UNCHANGED <<up, crashes, cache, pc, call, fd, ret>> /\ At(t, "receive") /\ OpenTo(t) /\ Sock(t).alive
    BY DEF Served
  <2>2. InCall(t)
    BY <2>1 DEF InCall, At
  <2> QED BY <2>1, <2>2, InCallIsSolo, ProcessAssumption DEF Inv, ThreadOK
<1>2. f \in Fd /\ Sock(t) \in Socket /\ sock[c][f] = Sock(t) /\ Sock(t) # Closed /\ Sock(t).host \in Host
  BY <1>1, ClosedAssumption, SocketIs DEF OpenTo, Sock
<1>3. PICK a \in Answer : /\ a = Reply(Sock(t).host, Asks(t)) /\ Answers(t, a)
                          /\ Updated(Sock(t).host, Asks(t)) \in [Key -> Val \union {NoVal}]
  BY <1>1, <1>2, ReplyIs
<1>4. PICK s \in Socket : /\ s = [Sock(t) EXCEPT !.req = <<>>, !.rep = <<a>>]
                          /\ s.host = Sock(t).host /\ s.alive /\ s # Closed
                          /\ s.req = <<>> /\ s.rep = <<a>>
  <2>1. <<a>> \in Seq(Answer)
    OBVIOUS
  <2> DEFINE s == [Sock(t) EXCEPT !.req = <<>>, !.rep = <<a>>]
  <2>2. s \in Socket
    <3> DEFINE w == Sock(t)
    <3>1. /\ w = [host |-> w.host, alive |-> w.alive, req |-> w.req, rep |-> w.rep]
          /\ w.host \in Host /\ w.alive \in BOOLEAN
      BY <1>2, SocketIs
    <3>2. s = [w EXCEPT !.req = <<>>, !.rep = <<a>>]
      OBVIOUS
    <3> HIDE DEF w, s
    <3>3. s = [host |-> w.host, alive |-> w.alive, req |-> <<>>, rep |-> <<a>>]
      BY <3>1, <3>2
    <3>4. <<>> \in Seq(Message)
      OBVIOUS
    <3> QED BY <2>1, <3>1, <3>3, <3>4 DEF Socket
  <2>3. s.host = Sock(t).host /\ s.alive /\ s.req = <<>> /\ s.rep = <<a>>
    <3> DEFINE w == Sock(t)
    <3>1. w = [host |-> w.host, alive |-> w.alive, req |-> w.req, rep |-> w.rep] /\ w.alive
      BY <1>1, <1>2, SocketIs
    <3> HIDE DEF w
    <3> QED BY <3>1 DEF w
  <2> HIDE DEF s
  <2>4. s # Closed
    BY <2>2, ClosedAssumption
  <2> QED BY <2>2, <2>3, <2>4 DEF s
<1>40. s \in Socket /\ s.host = Sock(t).host /\ s.alive /\ s # Closed /\ s.req = <<>> /\ s.rep = <<a>>
  BY <1>4
<1>5. /\ sock' = [sock EXCEPT ![c][f] = s]
      /\ table' = [table EXCEPT ![Sock(t).host] = Updated(Sock(t).host, Asks(t))]
  BY <1>3, <1>4 DEF Served
<1>6. /\ sock' \in [Client -> [Fd -> Wire]]
      /\ \A d \in Client : d # c => sock'[d] = sock[d]
      /\ \A g \in Fd : g # f => sock'[c][g] = sock[c][g]
      /\ sock'[c][f] = s
  <2>1. Types /\ c \in Client /\ f \in Fd /\ s \in Socket
    BY <1>1, <1>2 DEF Inv
  <2> QED BY <2>1, <1>5, OneSocket
<1>7. Types' /\ OnlyThread(t)
  <2>1. table' \in [Host -> [Key -> Val \union {NoVal}]]
    BY <1>2, <1>3, <1>5 DEF Inv, Types
  <2> QED BY <1>1, <1>6, <2>1 DEF Inv, Types, OnlyThread
<1>8. ThreadOK(t)'
  <2>1. Sock(t)' = s /\ Answers(t, a)'
    BY <1>1, <1>3, <1>6 DEF Sock, Answers
  <2>2. s.rep # <<>> /\ s.rep[1] = a /\ s.rep = <<s.rep[1]>>
    BY <1>40, AppendEmpty
  <2>3. OpenTo(t)'
    BY <1>1, <1>2, <1>40, <2>1 DEF OpenTo, Target
  <2>4. sock'[c][f] = s /\ Answers(t, s.rep[1])'
    BY <1>6, <2>1, <2>2
  <2>5. Waits(t, Sock(t))'
    BY <1>1, <1>40, <2>2, <2>4 DEF Waits, Sock, Answers
  <2>6. pc'[t] = "receive" /\ call'[t] \in Calls
    BY <1>1 DEF At
  <2> QED BY <2>3, <2>5, <2>6 DEF ThreadOK, At, InCall
<1>9. CacheOK(c)'
  <2>1. \A g \in Fd : sock[c][g] # Closed => sock'[c][g] # Closed /\ sock'[c][g].host = sock[c][g].host
    BY <1>2, <1>40, <1>6
  <2>2. Types /\ c \in Client /\ CacheOK(c) /\ cache'[c] = cache[c]
    BY <1>1 DEF Inv
  <2> QED BY <2>1, <2>2, CacheStays
<1>10. ASSUME NEW g \in Fd PROVE SocketOK(c, g)'
  <2>1. SocketOK(c, g) /\ ~HeldAt(c, g, "cache") /\ (HeldAt(c, g, "receive") => g = f)
    BY <1>1, Holder DEF Inv, At
  <2>2. CASE g = f
    <3>1. HeldAt(c, g, "receive")'
      BY <1>1, <2>2 DEF HeldAt, At
    <3>2. Cached(c, g)'
      BY <1>1, <1>2, <2>1, <2>2 DEF SocketOK, Cached
    <3> QED BY <1>40, <1>6, <2>2, <3>1, <3>2 DEF SocketOK
  <2>3. CASE g # f
    BY <1>1, <1>6, <2>1, <2>3 DEF SocketOK, Cached, Quiet
  <2> QED BY <2>2, <2>3
<1> QED BY <1>1, <1>7, <1>8, <1>9, <1>10, Local

\* A crash leaves each socket as it was, or dead, with or without what was to be read.
Hit(s, h) == s # Closed /\ s.host = h
\* What is left of a socket when its server is lost.
LEMMA CrashIs ==
    ASSUME Inv, NEW h \in Host, CrashServer(h)
    PROVE  /\ up[h] /\ crashes < MaxCrashes
           /\ up' = [up EXCEPT ![h] = FALSE] /\ crashes' = crashes + 1
           /\ table' = [table EXCEPT ![h] = [k \in Key |-> NoVal]]
           /\ UNCHANGED <<cache, pc, call, fd, ret>>
           /\ sock' \in [Client -> [Fd -> Wire]]
           /\ \A c \in Client, f \in Fd :
                 /\ ~Hit(sock[c][f], h) => sock'[c][f] = sock[c][f]
                 /\ Hit(sock[c][f], h) => /\ sock'[c][f] \in Socket /\ sock'[c][f] # Closed
                                          /\ sock'[c][f].host = h /\ ~sock'[c][f].alive
                                          /\ sock'[c][f].req = <<>>
                                          /\ sock'[c][f].rep \in {sock[c][f].rep, <<>>}
<1>1. /\ up[h] /\ crashes < MaxCrashes
      /\ up' = [up EXCEPT ![h] = FALSE] /\ crashes' = crashes + 1
      /\ table' = [table EXCEPT ![h] = [k \in Key |-> NoVal]]
      /\ UNCHANGED <<cache, pc, call, fd, ret>>
  BY DEF CrashServer
<1>2. PICK answered \in SUBSET Client :
          sock' = [c \in Client |-> [f \in Fd |->
                     IF sock[c][f] = Closed \/ sock[c][f].host # h THEN sock[c][f]
                     ELSE [sock[c][f] EXCEPT !.alive = FALSE, !.req = <<>>,
                                             !.rep = IF c \in answered THEN @ ELSE <<>>]]]
  BY DEF CrashServer
<1>3. ASSUME NEW c \in Client, NEW f \in Fd
      PROVE  /\ sock'[c][f] \in Wire
             /\ ~Hit(sock[c][f], h) => sock'[c][f] = sock[c][f]
             /\ Hit(sock[c][f], h) => /\ sock'[c][f] \in Socket /\ sock'[c][f] # Closed
                                      /\ sock'[c][f].host = h /\ ~sock'[c][f].alive
                                      /\ sock'[c][f].req = <<>>
                                      /\ sock'[c][f].rep \in {sock[c][f].rep, <<>>}
  <2>1. CASE ~Hit(sock[c][f], h)
    <3>1. sock'[c][f] = sock[c][f]
      BY <1>2, <2>1 DEF Hit
    <3> QED BY <2>1, <3>1, SockOf DEF Inv
  <2>2. CASE Hit(sock[c][f], h)
    <3>1. PICK w \in Socket : w = sock[c][f] /\ w.host = h
      BY <2>2, SockOf DEF Hit, Inv
    <3>2. /\ w = [host |-> w.host, alive |-> w.alive, req |-> w.req, rep |-> w.rep]
          /\ w.host \in Host /\ w.rep \in Seq(Answer) /\ <<>> \in Seq(Answer) /\ <<>> \in Seq(Message)
      BY <3>1, SocketIs
    <3>3. sock'[c][f] = [w EXCEPT !.alive = FALSE, !.req = <<>>,
                                  !.rep = IF c \in answered THEN @ ELSE <<>>]
      BY <1>2, <2>2, <3>1 DEF Hit
    <3>4. PICK p \in Seq(Answer) : p \in {w.rep, <<>>} /\ p = IF c \in answered THEN w.rep ELSE <<>>
      BY <3>2
    <3>5. sock'[c][f] = [host |-> w.host, alive |-> FALSE, req |-> <<>>, rep |-> p]
      BY <3>2, <3>3, <3>4
    <3>6. sock'[c][f] \in Socket
      BY <3>2, <3>5 DEF Socket
    <3>7. /\ sock'[c][f].host = h /\ ~sock'[c][f].alive /\ sock'[c][f].req = <<>>
          /\ sock'[c][f].rep \in {sock[c][f].rep, <<>>}
      BY <3>1, <3>4, <3>5
    <3> QED BY <2>2, <3>6, <3>7, ClosedAssumption DEF Wire
  <2> QED BY <2>1, <2>2
<1>4. sock' \in [Client -> [Fd -> Wire]]
  <2>1. sock' = [c \in Client |-> [f \in Fd |-> sock'[c][f]]]
    BY <1>2
  <2> QED BY <1>3, <2>1
<1> QED BY <1>1, <1>3, <1>4

\* The loss of a server keeps the invariant,
LEMMA CrashKeeps ==
    ASSUME Inv, NEW h \in Host, CrashServer(h)
    PROVE  Inv'
<1>1. /\ crashes' = crashes + 1 /\ crashes' \in 0 .. MaxCrashes /\ crashes' > 0
      /\ UNCHANGED <<cache, pc, call, fd, ret>>
  BY CrashIs, SizeAssumption DEF Inv, Types
<1>2. \A c \in Client, f \in Fd :
         /\ ~Hit(sock[c][f], h) => sock'[c][f] = sock[c][f]
         /\ Hit(sock[c][f], h) => /\ sock'[c][f] \in Socket /\ sock'[c][f] # Closed
                                  /\ sock'[c][f].host = sock[c][f].host /\ ~sock'[c][f].alive
                                  /\ sock'[c][f].req = <<>>
                                  /\ sock'[c][f].rep \in {sock[c][f].rep, <<>>}
  BY CrashIs DEF Hit
<1>3. Types'
  <2>1. /\ up' = [up EXCEPT ![h] = FALSE]
        /\ table' = [table EXCEPT ![h] = [k \in Key |-> NoVal]]
        /\ sock' \in [Client -> [Fd -> Wire]]
    BY CrashIs
  <2> QED BY <1>1, <2>1 DEF Inv, Types
<1>4. Alone' /\ DownIsFault'
  BY <1>1 DEF Inv, Alone, DownIsFault, InCall
<1>5. ASSUME NEW t \in Thread PROVE ThreadOK(t)'
  <2> DEFINE c == Process[t]
             f == fd[t]
  <2>0. ThreadOK(t) /\ c \in Client
    BY ProcessAssumption DEF Inv
  <2>1. ASSUME OpenTo(t)
        PROVE  /\ OpenTo(t)'
               /\ Quiet(Sock(t)) => Quiet(Sock(t))'
               /\ Waits(t, Sock(t)) => Waits(t, Sock(t))'
    <3>1. f \in Fd /\ f' = f /\ Sock(t) = sock[c][f] /\ Sock(t)' = sock'[c][f] /\ Sock(t) # Closed
      BY <1>1, <2>1, ClosedAssumption DEF OpenTo, Sock
    <3>2. CASE ~Hit(sock[c][f], h)
      <4>1. sock'[c][f] = sock[c][f]
        BY <1>2, <2>0, <3>1, <3>2
      <4> QED BY <1>1, <2>1, <3>1, <4>1 DEF OpenTo, Quiet, Waits, Target, Asks, Answers
    <3>3. CASE Hit(sock[c][f], h)
      <4>1. PICK w \in Socket : /\ w = sock'[c][f] /\ w.host = Sock(t).host /\ ~w.alive
                                /\ w.req = <<>> /\ w.rep \in {Sock(t).rep, <<>>}
        BY <1>2, <2>0, <3>1, <3>3
      <4>2. OpenTo(t)'
        BY <1>1, <2>1, <3>1, <4>1 DEF OpenTo, Target
      <4>3. Quiet(Sock(t)) => Quiet(Sock(t))'
        BY <3>1, <4>1 DEF Quiet
      <4>4. Waits(t, Sock(t)) => Waits(t, Sock(t))'
        BY <1>1, <3>1, <4>1 DEF Waits, Quiet, Answers
      <4> QED BY <4>2, <4>3, <4>4
    <3> QED BY <3>2, <3>3
  <2>2. Uncached(t)' <=> Uncached(t)
    BY <1>1 DEF Uncached, Target
  <2> QED BY <1>1, <2>0, <2>1, <2>2 DEF ThreadOK, At, InCall
<1>6. ASSUME NEW c \in Client PROVE CacheOK(c)'
  <2>1. \A f \in Fd : sock[c][f] # Closed => sock'[c][f] # Closed /\ sock'[c][f].host = sock[c][f].host
    BY <1>2 DEF Hit
  <2>2. Types /\ CacheOK(c)
    BY DEF Inv
  <2> QED BY <1>1, <2>1, <2>2, CacheStays
<1>7. ASSUME NEW c \in Client, NEW f \in Fd PROVE SocketOK(c, f)'
  <2>1. SocketOK(c, f)
    BY DEF Inv
  <2>2. \A l : HeldAt(c, f, l)' <=> HeldAt(c, f, l)
    BY <1>1 DEF HeldAt
  <2>3. Cached(c, f)' <=> Cached(c, f)
    BY <1>1 DEF Cached
  <2>4. CASE Hit(sock[c][f], h)
    <3>1. Quiet(sock[c][f]) => Quiet(sock'[c][f])
      BY <1>2, <2>4 DEF Quiet
    <3> QED BY <1>1, <1>2, <2>1, <2>2, <2>4, <3>1 DEF SocketOK, Hit, Quiet
  <2>5. CASE ~Hit(sock[c][f], h)
    <3>1. sock'[c][f] = sock[c][f]
      BY <1>2, <2>5
    <3> QED BY <1>1, <2>1, <2>2, <2>3, <3>1 DEF SocketOK, Quiet
  <2> QED BY <2>4, <2>5
<1> QED BY <1>3, <1>4, <1>5, <1>6, <1>7 DEF Inv

\* so does its return.
LEMMA RestartKeeps ==
    ASSUME Inv, NEW h \in Host, RestartServer(h)
    PROVE  Inv'
<1>1. up' = [up EXCEPT ![h] = TRUE] /\ UNCHANGED <<table, crashes, sock, cache, pc, call, fd, ret>>
  BY DEF RestartServer
<1>2. Types' /\ DownIsFault'
  BY <1>1 DEF Inv, Types, DownIsFault
<1> QED BY <1>1, <1>2, Unmoved DEF Inv
-----------------------------------------------------------------------------
\* Nothing is open and nothing is called at first.
LEMMA InitInv == Init => Inv
<1> SUFFICES ASSUME Init PROVE Inv
  OBVIOUS
<1>1. Types
  <2>1. NoResult \in Result /\ Closed \in Wire /\ <<>> \in Seq(Entry) /\ Len(<<>>) = 0
    BY DEF NoResult, Result, Wire
  <2> QED BY <2>1, SizeAssumption DEF Init, Types, Places
<1>2. Alone /\ DownIsFault /\ \A t \in Thread : ThreadOK(t)
  BY DEF Init, Alone, DownIsFault, ThreadOK, At, InCall
<1>3. /\ \A c \in Client, f \in Fd : SocketOK(c, f)
      /\ \A c \in Client : CacheOK(c)
  BY DEF Init, SocketOK, CacheOK
<1> QED BY <1>1, <1>2, <1>3 DEF Inv

\* One case per action.
LEMMA StepKeepsInv == ASSUME ~SharedSockets, Inv, [Next]_vars PROVE Inv'
<1>1. ASSUME NEW t \in Thread, Begin(t) PROVE Inv'
  BY <1>1, BeginKeeps
<1>2. ASSUME NEW t \in Thread, Step(t) PROVE Inv'
  <2>1. CASE Fetch(t)
    BY <2>1, FetchKeeps
  <2>2. CASE Connect(t)
    BY <2>2, ConnectKeeps
  <2>3. CASE Cache(t)
    BY <2>3, CacheKeeps
  <2>4. CASE Send(t)
    BY <2>4, SendIs, SendKeeps, GoesWithoutKeeps
  <2>5. CASE ReceiveAck(t)
    BY <2>5, AckIs, TakesAnswerKeeps, GoesWithoutKeeps
  <2>6. CASE ReceiveText(t)
    BY <2>6, TextIs, TakesAnswerKeeps, GoesWithoutKeeps, FailsKeeps
  <2> QED BY <1>2, <2>1, <2>2, <2>3, <2>4, <2>5, <2>6 DEF Step
<1>3. ASSUME NEW c \in Client, NEW f \in Fd, Serve(c, f) PROVE Inv'
  BY <1>3, ServeIs, ServedKeeps
<1>4. ASSUME NEW h \in Host, CrashServer(h) \/ RestartServer(h) PROVE Inv'
  BY <1>4, CrashKeeps, RestartKeeps
<1>5. CASE UNCHANGED vars
  <2>1. UNCHANGED <<table, up, crashes, sock, cache, pc, call, fd, ret>>
    BY <1>5 DEF vars
  <2>2. Types' /\ DownIsFault'
    BY <2>1 DEF Inv, Types, DownIsFault
  <2> QED BY <2>1, <2>2, Unmoved DEF Inv
<1> QED BY <1>1, <1>2, <1>3, <1>4, <1>5 DEF Next

\* What the invariant says of the cache and the descriptors.
LEMMA InvIsCacheIsSockets == Inv => CacheIsSockets
<1> SUFFICES ASSUME Inv PROVE CacheIsSockets
  OBVIOUS
<1>1. TypeOK
  <2>1. \A c \in Client : /\ DOMAIN sock[c] = Fd
                          /\ \A f \in Fd : sock[c][f] = Closed \/ sock[c][f] \in Socket
    <3> SUFFICES ASSUME NEW c \in Client
                 PROVE  /\ DOMAIN sock[c] = Fd
                        /\ \A f \in Fd : sock[c][f] = Closed \/ sock[c][f] \in Socket
      OBVIOUS
    <3>1. sock[c] \in [Fd -> Wire]
      BY DEF Inv, Types
    <3> QED BY <3>1 DEF Wire
  <2> QED BY <2>1 DEF Inv, Types, TypeOK, Entry, Places
<1>2. ASSUME NEW c \in Client, NEW f \in Fd, sock[c][f] # Closed, sock[c][f].alive
      PROVE  \/ \E i \in DOMAIN cache[c] : cache[c][i].fd = f
             \/ \E t \in Thread : Process[t] = c /\ pc[t] = "cache" /\ fd[t] = f
  BY <1>2 DEF Inv, SocketOK, Cached, HeldAt
<1> QED BY <1>1, <1>2 DEF CacheIsSockets, Inv, CacheOK

\* With one call at a time in each process, the invariant holds in every reachable state.
THEOREM Invariance == ASSUME ~SharedSockets PROVE Spec => []Inv
<1>1. Init => Inv
  BY InitInv
<1>2. Inv /\ [Next]_vars => Inv'
  BY StepKeepsInv
<1> QED BY <1>1, <1>2, PTL DEF Spec

\* The cache of a process and its descriptors always agree (str2SockLRU and
\* makeClientSocket with lru_cache.h), for any number of servers, whatever the sizes of
\* the cache and of the table of descriptors.
THEOREM CachesAreSockets == ASSUME ~SharedSockets PROVE Spec => []CacheIsSockets
  BY Invariance, InvIsCacheIsSockets, PTL

-----------------------------------------------------------------------------
(* While no server was lost, every call gets a socket. *)

\* A full cache leaves a descriptor free, or there is one for every server.
EnoughFds ==
    \/ CacheSize < MaxFd
    \/ IsFiniteSet(Host) /\ Cardinality(Host) <= MaxFd

\* There is a descriptor to connect with.
LEMMA SomeFree ==
    ASSUME Inv, EnoughFds, NEW t \in Thread, At(t, "connect"), ~(crashes > 0)
    PROVE  \E f \in Fd : sock[Process[t]][f] = Closed
<1> DEFINE c == Process[t]
           n == Len(cache[c])
<1>1. c \in Client /\ Uncached(t) /\ Target(t) \in Host /\ InCall(t)
  BY ProcessAssumption, CallOf DEF Inv, ThreadOK, At, InCall, Target
<1>2. n \in Nat /\ n <= CacheSize /\ DOMAIN cache[c] = 1 .. n
  BY <1>1, LenProperties DEF Inv, Types
<1> SUFFICES ASSUME \A f \in Fd : sock[c][f] # Closed PROVE FALSE
  OBVIOUS
<1>3. \A f \in Fd : \E i \in 1 .. n : cache[c][i].fd = f
  <2> TAKE f \in Fd
  <2>1. SocketOK(c, f) /\ ~HeldAt(c, f, "cache")
    BY <1>1, Holder DEF Inv, At
  <2> QED BY <1>2, <2>1 DEF SocketOK, Cached
<1> DEFINE place == [f \in Fd |-> CHOOSE i \in 1 .. n : cache[c][i].fd = f]
<1>4. place \in [Fd -> 1 .. n] /\ \A f \in Fd : cache[c][place[f]].fd = f
  BY <1>3
<1> HIDE DEF place, n
<1>5. IsFiniteSet(Fd) /\ Cardinality(Fd) = MaxFd
  BY FS_Interval, SizeAssumption DEF Fd
<1>6. CASE CacheSize < MaxFd
  <2> DEFINE T == 1 .. n
  <2>1. IsFiniteSet(T) /\ Cardinality(T) = n /\ place \in [Fd -> T]
    BY <1>2, <1>4, FS_Interval
  <2> HIDE DEF T
  <2>2. Cardinality(T) < Cardinality(Fd)
    BY <1>2, <1>5, <1>6, <2>1, SizeAssumption
  <2>3. PICK f, g \in Fd : f # g /\ place[f] = place[g]
    BY <1>5, <2>1, <2>2, FS_PigeonHole
  <2> QED BY <1>4, <2>3
<1>7. CASE IsFiniteSet(Host) /\ Cardinality(Host) <= MaxFd
  <2> DEFINE T == Host \ {Target(t)}
             goes == [f \in Fd |-> cache[c][place[f]].host]
  <2>1. IsFiniteSet(T) /\ Cardinality(T) = Cardinality(Host) - 1 /\ Cardinality(Host) \in Nat
    BY <1>1, <1>7, FS_RemoveElement, FS_CardinalityType
  <2>2. goes \in [Fd -> T] /\ \A f \in Fd : place[f] \in DOMAIN cache[c]
    BY <1>1, <1>2, <1>4, EntryIs DEF Uncached, Inv
  <2>3. \A f \in Fd : goes[f] = cache[c][place[f]].host
    OBVIOUS
  <2> HIDE DEF goes, T
  <2>4. Cardinality(T) < Cardinality(Fd)
    BY <1>5, <1>7, <2>1, SizeAssumption
  <2>5. PICK f, g \in Fd : f # g /\ goes[f] = goes[g]
    BY <1>5, <2>1, <2>2, <2>4, FS_PigeonHole
  <2>6. place[f] = place[g]
    BY <1>1, <2>2, <2>3, <2>5 DEF Inv, CacheOK
  <2> QED BY <1>4, <2>5, <2>6
<1> QED BY <1>6, <1>7 DEF EnoughFds

\* A call is without a socket only if a server was lost.
NoneMissing ==
    \A t \in Thread : pc[t] \in {"send", "receive"} /\ fd[t] = NoFd => crashes > 0

\* So a call goes without a socket only after a server was lost.
LEMMA StepKeepsSockets ==
    ASSUME ~SharedSockets, EnoughFds, Inv, NoneMissing, [Next]_vars
    PROVE  NoneMissing'
<1>1. /\ pc \in [Thread -> Places] /\ fd \in [Thread -> Fd \union {NoFd}] /\ crashes \in Nat
      /\ ProcessAssumption
  BY SizeAssumption, ProcessAssumption DEF Inv, Types
<1>2. ASSUME NEW t \in Thread, OnlyThread(t), pc'[t] \in {"send", "receive"} /\ fd'[t] = NoFd => crashes > 0
      PROVE  NoneMissing'
  BY <1>2 DEF NoneMissing, OnlyThread
<1>3. ASSUME NEW t \in Thread, Begin(t) PROVE NoneMissing'
  <2>1. pc'[t] = "fetch"
    BY <1>1, <1>3 DEF Begin, Goto
  <2> QED BY <1>2, <1>3, <2>1, BeginKeeps
<1>4. ASSUME NEW t \in Thread, Fetch(t) PROVE NoneMissing'
  <2>1. pc'[t] = "connect" \/ fd'[t] # NoFd
    <3> DEFINE c == Process[t]
               i == PlaceOf(cache[c], Target(t))
    <3>1. c \in Client /\ cache[c] \in Seq(Entry) /\ Target(t) \in Host
      BY <1>4, ProcessAssumption, CallOf DEF Inv, Types, Fetch, ThreadOK, At, InCall, Target
    <3>2. CASE i = 0
      BY <1>1, <1>4, <3>2 DEF Fetch, Goto
    <3>3. CASE i # 0
      <4>1. i \in DOMAIN cache[c]
        BY <3>1, <3>3, Place
      <4>2. cache[c][i].fd \in Fd
        BY <3>1, <4>1, EntryIs DEF Inv
      <4>3. fd' = [fd EXCEPT ![t] = cache[c][i].fd]
        BY <1>4, <3>3 DEF Fetch
      <4> QED BY <1>1, <4>2, <4>3, FdIsNat
    <3> QED BY <3>2, <3>3
  <2> QED BY <1>2, <1>4, <2>1, FetchKeeps
<1>5. ASSUME NEW t \in Thread, Connect(t) PROVE NoneMissing'
  <2>1. pc'[t] = "cache" \/ crashes > 0
    <3>1. At(t, "connect") /\ Target(t) \in Host
      BY <1>5, CallOf DEF Connect, Inv, ThreadOK, At, InCall, Target
    <3>2. CASE up[Target(t)]
      <4>1. CASE {f \in Fd : sock[Process[t]][f] = Closed} # {}
        BY <1>1, <1>5, <3>2, <4>1 DEF Connect, Goto
      <4>2. CASE {f \in Fd : sock[Process[t]][f] = Closed} = {}
        BY <3>1, <4>2, SomeFree
      <4> QED BY <4>1, <4>2
    <3>3. CASE ~up[Target(t)]
      BY <3>1, <3>3 DEF Inv, DownIsFault
    <3> QED BY <3>2, <3>3
  <2> QED BY <1>2, <1>5, <2>1, ConnectKeeps
<1>6. ASSUME NEW t \in Thread, Cache(t) PROVE NoneMissing'
  <2>1. fd'[t] # NoFd
    BY <1>6, FdIsNat DEF Cache, Inv, ThreadOK, OpenTo
  <2> QED BY <1>2, <1>6, <2>1, CacheKeeps
<1>7. ASSUME NEW t \in Thread, SendsOn(t) \/ SendsInVain(t) PROVE NoneMissing'
  <2>1. pc[t] = "send" /\ fd'[t] = fd[t]
    BY <1>7 DEF SendsOn, SendsInVain, At
  <2> QED BY <1>2, <1>7, <2>1, SendKeeps DEF NoneMissing
<1>8. ASSUME NEW t \in Thread, GoesWithout(t) PROVE NoneMissing'
  <2>1. pc'[t] = "idle"
    BY <1>1, <1>8 DEF GoesWithout, Return
  <2> QED BY <1>2, <1>8, <2>1, GoesWithoutKeeps
<1>9. ASSUME NEW t \in Thread, TakesAnswer(t) PROVE NoneMissing'
  <2>1. pc'[t] = "idle"
    BY <1>1, <1>9 DEF TakesAnswer, Return
  <2> QED BY <1>2, <1>9, <2>1, TakesAnswerKeeps
<1>10. ASSUME NEW t \in Thread, Fails(t) PROVE NoneMissing'
  BY <1>10 DEF Fails, Abort, NoneMissing, server
<1>11. ASSUME NEW t \in Thread, Served(t) PROVE NoneMissing'
  BY <1>11 DEF Served, NoneMissing
<1>12. ASSUME NEW h \in Host, CrashServer(h) \/ RestartServer(h) PROVE NoneMissing'
  <2>1. UNCHANGED <<pc, fd>> /\ (crashes' = crashes \/ crashes' = crashes + 1)
    BY <1>12 DEF CrashServer, RestartServer
  <2> QED BY <1>1, <2>1 DEF NoneMissing
<1>13. CASE UNCHANGED vars
  BY <1>13 DEF vars, NoneMissing
<1>14. ASSUME NEW t \in Thread, Send(t) PROVE NoneMissing'
  BY <1>7, <1>8, <1>14, SendIs
<1>15. ASSUME NEW t \in Thread, ReceiveAck(t) \/ ReceiveText(t) PROVE NoneMissing'
  BY <1>8, <1>9, <1>10, <1>15, AckIs, TextIs
<1>16. ASSUME NEW c \in Client, NEW f \in Fd, Serve(c, f) PROVE NoneMissing'
  BY <1>11, <1>16, ServeIs
<1> QED BY <1>3, <1>4, <1>5, <1>6, <1>12, <1>13, <1>14, <1>15, <1>16 DEF Next, Step

-----------------------------------------------------------------------------
(* Every step is a step of AtomicMap or none. *)

TheMap     == [k \in Key |-> table[HostOf[k]][k]]
TheAnswers == [t \in Thread |-> AnswerOf(t)]
TheReturns == [t \in Thread |-> [status |-> ret[t].status, val |-> ret[t].val]]

\* What a thread will return, by where it is and what is on its socket.
AnswerForms(t) ==
    /\ At(t, "dead") /\ call[t] # NoCall => AnswerOf(t) = AM!Lost
    /\ ~At(t, "receive") /\ ~(At(t, "dead") /\ call[t] # NoCall) => AnswerOf(t) = AM!None
    /\ At(t, "receive") =>
        /\ ~HasSock(t) => AnswerOf(t) = AM!Lost
        /\ HasSock(t) =>
            /\ Sock(t).req = <<>> /\ Sock(t).rep = <<>> => AnswerOf(t) = AM!Lost
            /\ \A m : Sock(t).req = <<m>> /\ m.by = t /\ Sock(t).rep = <<>> => AnswerOf(t) = AM!None
            /\ \A a : Sock(t).rep = <<a>> /\ a.by = t =>
                  AnswerOf(t) = [status |-> a.status, val |-> a.val]

\* The answer a thread has, step by step,
LEMMA AnswerIn == \A t : AnswerForms(t)
<1> SUFFICES ASSUME NEW t PROVE AnswerForms(t)
  OBVIOUS
<1> DEFINE mine == IF ~HasSock(t) THEN {} ELSE {a \in ToSet(Sock(t).rep) : a.by = t}
           sent == HasSock(t) /\ \E m \in ToSet(Sock(t).req) : m.by = t
<1>1. At(t, "receive") =>
        AnswerOf(t) = IF mine # {} THEN [status |-> (CHOOSE a \in mine : TRUE).status,
                                         val |-> (CHOOSE a \in mine : TRUE).val]
                      ELSE [status |-> IF sent THEN "none" ELSE "lost", val |-> NoVal]
  BY DEF AnswerOf
<1>2. ~At(t, "receive") =>
        AnswerOf(t) = [status |-> IF At(t, "dead") /\ call[t] # NoCall THEN "lost" ELSE "none", val |-> NoVal]
  BY DEF AnswerOf
<1>3. At(t, "dead") => ~At(t, "receive")
  BY DEF At
<1>4. ASSUME At(t, "receive"), ~HasSock(t) PROVE AnswerOf(t) = AM!Lost
  BY <1>1, <1>4 DEF AM!Lost
<1>5. ASSUME At(t, "receive"), HasSock(t), Sock(t).req = <<>>, Sock(t).rep = <<>>
      PROVE  AnswerOf(t) = AM!Lost
  <2>1. mine = {} /\ ~sent
    BY <1>5, SetNone
  <2> QED BY <1>1, <1>5, <2>1 DEF AM!Lost
<1>6. ASSUME At(t, "receive"), HasSock(t), NEW m, Sock(t).req = <<m>>, m.by = t, Sock(t).rep = <<>>
      PROVE  AnswerOf(t) = AM!None
  <2>1. mine = {} /\ sent
    BY <1>6, SetNone, SetOne
  <2> QED BY <1>1, <1>6, <2>1 DEF AM!None
<1>7. ASSUME At(t, "receive"), HasSock(t), NEW a, Sock(t).rep = <<a>>, a.by = t
      PROVE  AnswerOf(t) = [status |-> a.status, val |-> a.val]
  <2>1. mine = {a}
    BY <1>7, SetOne
  <2>2. mine # {} /\ (CHOOSE x \in mine : TRUE) = a
    BY <2>1
  <2> HIDE DEF mine, sent
  <2> QED BY <1>1, <1>7, <2>2
<1> QED BY <1>2, <1>3, <1>4, <1>5, <1>6, <1>7 DEF AnswerForms, AM!Lost, AM!None

\* and in the next state.
LEMMA AnswerNext == (\A t : AnswerForms(t))'
  BY AnswerIn, PTL

\* A thread that waits on a socket which stays as it is keeps its answer.
LEMMA AnswerStays ==
    ASSUME NEW u \in Thread, pc'[u] = pc[u], call'[u] = call[u], fd'[u] = fd[u],
           At(u, "receive") => Sock(u)' = Sock(u)
    PROVE  AnswerOf(u)' = AnswerOf(u)
<1>1. CASE ~At(u, "receive")
  <2>1. ~At(u, "receive")' /\ At(u, "dead")' = At(u, "dead")
    BY <1>1 DEF At
  <2> QED BY <1>1, <2>1 DEF AnswerOf
<1>2. CASE At(u, "receive")
  <2>1. At(u, "receive")' /\ Sock(u)' = Sock(u) /\ HasSock(u)' = HasSock(u)
    BY <1>2 DEF At, HasSock
  <2> QED BY <1>2, <2>1 DEF AnswerOf
<1> QED BY <1>1, <1>2

\* A step of one thread leaves the answers of the others,
LEMMA OthersAnswer ==
    ASSUME Inv, NEW t \in Thread, Solo(t), OnlyThread(t)
    PROVE  \A u \in Thread : u # t => AnswerOf(u)' = AnswerOf(u)
<1> SUFFICES ASSUME NEW u \in Thread, u # t PROVE AnswerOf(u)' = AnswerOf(u)
  OBVIOUS
<1>1. pc'[u] = pc[u] /\ call'[u] = call[u] /\ fd'[u] = fd[u] /\ Process[u] \in Client
  BY ProcessAssumption DEF OnlyThread
<1>2. At(u, "receive") => Process[u] # Process[t]
  BY DEF At, Solo
<1>3. At(u, "receive") => Sock(u)' = Sock(u)
  BY <1>1, <1>2 DEF Sock, OnlyThread
<1> QED BY <1>1, <1>3, AnswerStays

\* All answers, when only that of t may change.
LEMMA AnswersAre ==
    ASSUME NEW t \in Thread, \A u \in Thread : u # t => AnswerOf(u)' = AnswerOf(u)
    PROVE  TheAnswers' = [TheAnswers EXCEPT ![t] = AnswerOf(t)']
  BY DEF TheAnswers

\* and some steps leave all of them.
LEMMA AnswersStay ==
    ASSUME NEW t \in Thread, \A u \in Thread : u # t => AnswerOf(u)' = AnswerOf(u),
           AnswerOf(t)' = AnswerOf(t)
    PROVE  TheAnswers' = TheAnswers
  BY DEF TheAnswers

\* Where answers and calls stay, the map stutters.
LEMMA NoStep ==
    ASSUME TheMap' = TheMap, TheAnswers' = TheAnswers, call' = call, ret' = ret, crashes' = crashes
    PROVE  [AM!Next]_(AM!vars)
  BY DEF AM!vars, TheMap, TheAnswers

\* The same of its contents.
LEMMA MapStays == table' = table => TheMap' = TheMap
  BY DEF TheMap

\* A thread on its way to the server has no answer yet.
LEMMA Underway ==
    ASSUME Inv, NEW t \in Thread, OnlyThread(t), Solo(t),
           pc[t] \notin {"receive", "dead"}, pc'[t] \notin {"receive", "dead"}
    PROVE  TheAnswers' = TheAnswers
<1>1. AnswerOf(t) = AM!None
  BY AnswerIn DEF AnswerForms, At
<1>2. AnswerOf(t)' = AM!None
  <2>1. AnswerForms(t)'
    BY AnswerNext
  <2>2. ~At(t, "receive")' /\ ~At(t, "dead")'
    BY DEF At
  <2> QED BY <2>1, <2>2 DEF AnswerForms, AM!None
<1> QED BY <1>1, <1>2, OthersAnswer, AnswersStay

\* Each step is one of the map or a stutter: a call begins,
LEMMA BeginIs ==
    ASSUME Inv, ~SharedSockets, NEW t \in Thread, Begin(t)
    PROVE  AM!Invoke(t)
<1>1. At(t, "idle") /\ UNCHANGED <<table, crashes>>
  BY DEF Begin, server
<1>2. Solo(t) /\ OnlyThread(t) /\ pc'[t] = "fetch" /\ call[t] = NoCall
  <2>1. Solo(t)
    BY DEF Begin, Solo, InCall, Inv, Types, Places
  <2>2. pc'[t] = "fetch" /\ call[t] = NoCall
    BY <1>1 DEF Begin, Goto, Inv, Types, ThreadOK
  <2> QED BY <2>1, <2>2, BeginKeeps
<1>3. TheAnswers' = TheAnswers
  BY <1>1, <1>2, Underway DEF At
<1>4. TheMap' = TheMap
  BY <1>1, MapStays
<1>5. TheReturns' = [TheReturns EXCEPT ![t] = AM!NoResult]
  BY DEF TheReturns, Begin, AM!NoResult, NoResult, Inv, Types
<1>6. \E r \in Calls : call' = [call EXCEPT ![t] = r]
  BY DEF Begin
<1> QED BY <1>1, <1>2, <1>3, <1>4, <1>5, <1>6 DEF AM!Invoke, TheMap, TheAnswers, TheReturns

\* goes its way to the request,
LEMMA WayIs ==
    ASSUME Inv, NEW t \in Thread, Fetch(t) \/ Connect(t) \/ Cache(t)
    PROVE  [AM!Next]_(AM!vars)
<1>1. pc[t] \in {"fetch", "connect", "cache"} /\ UNCHANGED <<table, crashes, call, ret>>
  BY DEF Fetch, Connect, Cache, At, server
<1>2. pc'[t] \in {"connect", "cache", "send"}
  BY DEF Fetch, Connect, Cache, Goto, Inv, Types
<1>3. OnlyThread(t) /\ Solo(t)
  BY <1>1, FetchKeeps, ConnectKeeps, CacheKeeps, InCallIsSolo DEF InCall
<1>4. TheAnswers' = TheAnswers
  BY <1>1, <1>2, <1>3, Underway
<1> QED BY <1>1, <1>4, MapStays, NoStep

\* The request is on its way: nothing has happened yet for the caller.
LEMMA SendsOnIs ==
    ASSUME Inv, NEW t \in Thread, SendsOn(t)
    PROVE  [AM!Next]_(AM!vars)
<1>1. At(t, "send") /\ InCall(t) /\ OpenTo(t) /\ UNCHANGED <<table, crashes, call, fd, ret>>
  BY DEF SendsOn, InCall, At, server
<1>2. Inv' /\ OnlyThread(t) /\ Solo(t)
  BY <1>1, SendKeeps, InCallIsSolo
<1>3. pc'[t] = "receive"
  BY DEF SendsOn, Goto, Inv, Types
<1>4. Sock(t)' = [Sock(t) EXCEPT !.req = <<Asks(t)>>]
  <2>1. PICK s : s = [Sock(t) EXCEPT !.req = <<Asks(t)>>]
    OBVIOUS
  <2>2. sock' = [sock EXCEPT ![Process[t]][fd[t]] = s]
    BY <2>1 DEF SendsOn
  <2>3. sock \in [Client -> [Fd -> Wire]] /\ Process[t] \in Client /\ fd[t] \in Fd /\ fd'[t] = fd[t]
    BY <1>1, ProcessAssumption DEF OpenTo, Inv, Types
  <2>4. Sock(t)' = s
    BY <2>2, <2>3 DEF Sock
  <2> QED BY <2>1, <2>4
<1>5. Sock(t)'.req = <<Asks(t)>> /\ Sock(t)'.rep = <<>> /\ HasSock(t)'
  <2>1. /\ Sock(t) = [host |-> Sock(t).host, alive |-> Sock(t).alive,
                      req |-> Sock(t).req, rep |-> Sock(t).rep]
        /\ Sock(t).rep = <<>>
    BY <1>1, SocketIs DEF OpenTo, SendsOn, Quiet
  <2>2. Sock(t)'.req = <<Asks(t)>> /\ Sock(t)'.rep = <<>>
    BY <1>4, <2>1
  <2>3. HasSock(t)'
    <3>1. OpenTo(t)'
      <4>1. ThreadOK(t)' /\ fd'[t] # NoFd
        BY <1>1, <1>2, FdIsNat DEF Inv, OpenTo
      <4> QED BY <1>3, <4>1 DEF ThreadOK, At
    <3> QED BY <3>1, ClosedAssumption, FdIsNat DEF OpenTo, HasSock
  <2> QED BY <2>2, <2>3
<1>6. AnswerOf(t)' = AM!None
  <2>1. AnswerForms(t)'
    BY AnswerNext
  <2>2. Asks(t).by = t /\ At(t, "receive")'
    BY <1>3 DEF Asks, At
  <2>3. \A m : Sock(t)'.req = <<m>> /\ m.by = t /\ Sock(t)'.rep = <<>> => AnswerOf(t)' = AM!None
    BY <1>5, <2>1, <2>2 DEF AnswerForms, AM!None
  <2> QED BY <1>5, <2>2, <2>3
<1>7. AnswerOf(t) = AM!None
  BY <1>1, AnswerIn DEF AnswerForms, At
<1>8. TheAnswers' = TheAnswers
  BY <1>2, <1>6, <1>7, OthersAnswer, AnswersStay
<1> QED BY <1>1, <1>8, MapStays, NoStep

\* sends it in vain,
LEMMA InVainIs ==
    ASSUME Inv, NoneMissing, NEW t \in Thread, SendsInVain(t)
    PROVE  AM!Miss(t)
<1>1. /\ At(t, "send") /\ InCall(t) /\ Unserved(t) /\ UNCHANGED <<table, crashes, sock, call, fd, ret>>
      /\ call[t] \in Calls /\ call[t] # NoCall
  BY CallOf DEF SendsInVain, InCall, At, server, Inv, ThreadOK
<1>2. OnlyThread(t) /\ Solo(t)
  BY <1>1, SendKeeps, InCallIsSolo
<1>3. pc'[t] = "receive"
  BY DEF SendsInVain, Goto, Inv, Types
<1>4. crashes > 0
  <2>1. CASE fd[t] = NoFd
    BY <1>1, <2>1 DEF NoneMissing, At
  <2>2. CASE OpenTo(t) /\ ~Sock(t).alive
    BY <2>2, ProcessAssumption, ClosedAssumption DEF Inv, SocketOK, OpenTo, Sock
  <2> QED BY <1>1, <2>1, <2>2 DEF Unserved
<1>5. AnswerOf(t)' = AM!Lost
  <2>1. AnswerForms(t)' /\ At(t, "receive")'
    BY <1>3, AnswerNext DEF At
  <2>2. ~HasSock(t)' \/ (HasSock(t)' /\ Sock(t)'.req = <<>> /\ Sock(t)'.rep = <<>>)
    BY <1>1 DEF Unserved, HasSock, Sock, Quiet
  <2> QED BY <2>1, <2>2 DEF AnswerForms, AM!Lost
<1>6. AnswerOf(t) = AM!None
  BY <1>1, AnswerIn DEF AnswerForms, At
<1>7. TheAnswers' = [TheAnswers EXCEPT ![t] = AM!Lost]
  <2>1. TheAnswers' = [TheAnswers EXCEPT ![t] = AnswerOf(t)']
    BY <1>2, OthersAnswer, AnswersAre
  <2> QED BY <1>5, <2>1
<1>8. TheMap' = TheMap /\ TheAnswers[t] = AM!None
  BY <1>1, <1>6, MapStays DEF TheAnswers
<1> QED BY <1>1, <1>4, <1>7, <1>8 DEF AM!Miss, TheMap, TheAnswers

\* What is common to all returns.
LEMMA ReturnsAre ==
    ASSUME Inv, Inv', NEW t \in Thread, OnlyThread(t), Solo(t), NEW r, Return(t, r)
    PROVE  /\ TheAnswers' = [TheAnswers EXCEPT ![t] = AM!None]
           /\ TheReturns' = [TheReturns EXCEPT ![t] = [status |-> r.status, val |-> r.val]]
           /\ call' = [call EXCEPT ![t] = NoCall]
<1>1. pc'[t] = "idle" /\ call' = [call EXCEPT ![t] = NoCall] /\ ret' = [ret EXCEPT ![t] = r]
  BY DEF Return, Inv, Types
<1>2. AnswerOf(t)' = AM!None
  <2>1. AnswerForms(t)' /\ ~At(t, "receive")' /\ ~At(t, "dead")'
    BY <1>1, AnswerNext DEF At
  <2> QED BY <2>1 DEF AnswerForms, AM!None
<1>3. TheAnswers' = [TheAnswers EXCEPT ![t] = AnswerOf(t)']
  BY OthersAnswer, AnswersAre
<1>4. TheReturns' = [TheReturns EXCEPT ![t] = [status |-> r.status, val |-> r.val]]
  BY <1>1 DEF TheReturns, Inv, Types
<1> QED BY <1>1, <1>2, <1>3, <1>4

\* returns with its answer
LEMMA TakesAnswerIs ==
    ASSUME Inv, NEW t \in Thread, TakesAnswer(t)
    PROVE  AM!Return(t)
<1> DEFINE a == Sock(t).rep[1]
<1>1. /\ At(t, "receive") /\ InCall(t) /\ HasAnswer(t) /\ UNCHANGED <<table, crashes>>
      /\ Return(t, [by |-> a.by, status |-> a.status, val |-> a.val])
  BY DEF TakesAnswer, InCall, At, server
<1>2. call[t] # NoCall /\ HasSock(t)
  BY <1>1, CallOf, ClosedAssumption, FdIsNat DEF Inv, ThreadOK, HasAnswer, OpenTo, HasSock
<1>3. Inv' /\ OnlyThread(t) /\ Solo(t)
  BY <1>1, TakesAnswerKeeps, InCallIsSolo
<1>4. /\ a.by = t /\ a.status \in {"ok", "missing"} /\ a.val \in Val \union {NoVal}
      /\ Sock(t).rep = <<a>>
  BY <1>1, AnswerIs DEF HasAnswer
<1>5. TheAnswers[t] = [status |-> a.status, val |-> a.val]
  <2>1. AnswerOf(t) = [status |-> a.status, val |-> a.val]
    <3>1. \A b : Sock(t).rep = <<b>> /\ b.by = t => AnswerOf(t) = [status |-> b.status, val |-> b.val]
      BY <1>1, <1>2, AnswerIn DEF AnswerForms
    <3> HIDE DEF a
    <3> QED BY <1>4, <3>1
  <2> QED BY <2>1 DEF TheAnswers
<1>6. TheAnswers[t] \in AM!Result
  BY <1>4, <1>5 DEF AM!Result
<1>7. /\ TheAnswers' = [TheAnswers EXCEPT ![t] = AM!None]
      /\ TheReturns' = [TheReturns EXCEPT ![t] = TheAnswers[t]]
      /\ call' = [call EXCEPT ![t] = NoCall]
  BY <1>1, <1>3, <1>5, ReturnsAre
<1>8. TheMap' = TheMap
  BY <1>1, MapStays
<1> QED BY <1>1, <1>2, <1>6, <1>7, <1>8 DEF AM!Return, TheMap, TheAnswers, TheReturns

\* or without one,
LEMMA GoesWithoutIs ==
    ASSUME Inv, NoneMissing, NEW t \in Thread, GoesWithout(t)
    PROVE  AM!Return(t)
<1>1. /\ pc[t] \in {"send", "receive"} /\ InCall(t) /\ Unserved(t) /\ UNCHANGED <<table, crashes>>
      /\ call[t] # NoCall
  BY CallOf DEF GoesWithout, InCall, server, Inv, ThreadOK
<1>2. PICK r \in MadeUp(call[t].op) : Return(t, r)
  BY DEF GoesWithout
<1>3. Inv' /\ OnlyThread(t) /\ Solo(t)
  BY <1>1, GoesWithoutKeeps, InCallIsSolo
<1>4. crashes > 0
  <2>1. CASE fd[t] = NoFd
    BY <1>1, <2>1 DEF NoneMissing
  <2>2. CASE OpenTo(t) /\ ~Sock(t).alive
    BY <2>2, ProcessAssumption, ClosedAssumption DEF Inv, SocketOK, OpenTo, Sock
  <2> QED BY <1>1, <2>1, <2>2 DEF Unserved
<1>5. TheAnswers[t] \in {AM!None, AM!Lost}
  <2>1. CASE pc[t] = "send"
    BY <2>1, AnswerIn DEF AnswerForms, At, TheAnswers
  <2>2. CASE pc[t] = "receive"
    <3>1. ~HasSock(t) \/ (HasSock(t) /\ Sock(t).req = <<>> /\ Sock(t).rep = <<>>)
      BY <1>1 DEF Unserved, HasSock, Quiet
    <3> QED BY <2>2, <3>1, AnswerIn DEF AnswerForms, At, TheAnswers
  <2> QED BY <1>1, <2>1, <2>2
<1>6. [status |-> r.status, val |-> r.val] \in AM!Unanswered(call[t].op)
  BY <1>2 DEF MadeUp, AM!Unanswered
<1>7. /\ TheAnswers' = [TheAnswers EXCEPT ![t] = AM!None]
      /\ TheReturns' = [TheReturns EXCEPT ![t] = [status |-> r.status, val |-> r.val]]
      /\ call' = [call EXCEPT ![t] = NoCall]
  BY <1>2, <1>3, ReturnsAre
<1>8. TheMap' = TheMap
  BY <1>1, MapStays
<1> QED BY <1>1, <1>4, <1>5, <1>6, <1>7, <1>8 DEF AM!Return, TheMap, TheAnswers, TheReturns

\* The process that ends had lost its answer.
LEMMA FailsIs ==
    ASSUME Inv, NEW t \in Thread, Fails(t)
    PROVE  [AM!Next]_(AM!vars)
<1>1. /\ UNCHANGED <<table, crashes, sock, call, fd, ret>>
      /\ pc' = [u \in Thread |-> IF Process[u] = Process[t] THEN "dead" ELSE pc[u]]
      /\ At(t, "receive") /\ OpenTo(t) /\ Quiet(Sock(t)) /\ InCall(t)
  BY DEF Fails, Abort, server, InCall, At
<1>2. ASSUME NEW u \in Thread PROVE AnswerOf(u)' = AnswerOf(u)
  <2>0. AnswerForms(u)' /\ AnswerForms(u)
    BY AnswerIn, AnswerNext
  <2>1. CASE u = t
    <3>1. AnswerOf(u) = AM!Lost
      <4>1. HasSock(t) /\ Sock(t).req = <<>> /\ Sock(t).rep = <<>>
        BY <1>1, ClosedAssumption, FdIsNat DEF OpenTo, HasSock, Quiet
      <4> QED BY <1>1, <2>0, <2>1, <4>1 DEF AnswerForms
    <3>2. At(u, "dead")' /\ call'[u] # NoCall
      BY <1>1, <2>1, CallOf DEF At, Inv, ThreadOK
    <3>3. AnswerOf(u)' = AM!Lost
      BY <2>0, <3>2 DEF AnswerForms, AM!Lost
    <3> QED BY <3>1, <3>3
  <2>2. CASE u # t /\ Process[u] = Process[t]
    <3>1. pc[u] \in {"idle", "dead"} /\ pc'[u] = "dead" /\ call'[u] = call[u]
      BY <1>1, <2>2, InCallIsSolo DEF Solo
    <3>2. pc[u] = "idle" => call[u] = NoCall
      BY DEF Inv, ThreadOK, At
    <3>3. /\ At(u, "dead") <=> pc[u] = "dead"
          /\ ~At(u, "receive") /\ At(u, "dead")' /\ ~At(u, "receive")'
      BY <3>1 DEF At
    <3>4. CASE call[u] = NoCall
      <4>1. AnswerOf(u) = AM!None
        BY <2>0, <3>3, <3>4 DEF AnswerForms
      <4>2. AnswerOf(u)' = AM!None
        BY <2>0, <3>1, <3>3, <3>4 DEF AnswerForms, AM!None
      <4> QED BY <4>1, <4>2
    <3>5. CASE call[u] # NoCall
      <4>1. AnswerOf(u) = AM!Lost
        BY <2>0, <3>1, <3>2, <3>3, <3>5 DEF AnswerForms
      <4>2. AnswerOf(u)' = AM!Lost
        BY <2>0, <3>1, <3>3, <3>5 DEF AnswerForms, AM!Lost
      <4> QED BY <4>1, <4>2
    <3> QED BY <3>4, <3>5
  <2>3. CASE Process[u] # Process[t]
    <3>1. Sock(u)' = Sock(u)
      BY <1>1 DEF Sock
    <3> QED BY <1>1, <2>3, <3>1, AnswerStays
  <2> QED BY <2>1, <2>2, <2>3
<1>3. TheAnswers' = TheAnswers
  BY <1>2 DEF TheAnswers
<1> QED BY <1>1, <1>3, MapStays, NoStep

\* A call takes effect when the server reads its request.
LEMMA ServedIs ==
    ASSUME Inv, NEW t \in Thread, Served(t)
    PROVE  AM!TakeEffect(t)
<1> DEFINE h == Sock(t).host
           r == call[t]
           k == r.key
<1>1. /\ At(t, "receive") /\ InCall(t) /\ OpenTo(t) /\ UNCHANGED <<crashes, call, fd, ret, pc>>
      /\ r \in Calls /\ r # NoCall /\ k \in Key /\ h = HostOf[k] /\ h \in Host /\ HasSock(t)
  <2>1. At(t, "receive") /\ OpenTo(t) /\ UNCHANGED <<crashes, call, fd, ret, pc>>
    BY DEF Served
  <2>2. InCall(t) /\ r \in Calls
    BY <2>1 DEF InCall, At, Inv, ThreadOK
  <2> QED BY <2>1, <2>2, CallOf, ClosedAssumption, FdIsNat DEF OpenTo, Target, HasSock
<1>2. Inv' /\ OnlyThread(t) /\ Solo(t)
  BY <1>1, ServedKeeps, InCallIsSolo
<1>3. /\ Asks(t).by = t /\ Asks(t).op = r.op /\ Asks(t).key = k /\ Asks(t).val = r.val
  BY DEF Asks
<1>4. /\ table' = [table EXCEPT ![h] = Updated(h, Asks(t))]
      /\ table \in [Host -> [Key -> Val \union {NoVal}]]
      /\ TheMap[k] = table[h][k]
  BY <1>1 DEF Served, Inv, Types, TheMap
<1>5. TheMap' = CASE r.op = "insert" -> [TheMap EXCEPT ![k] = r.val]
                  [] r.op = "remove" -> [TheMap EXCEPT ![k] = NoVal]
                  [] OTHER           -> TheMap
  <2>1. ASSUME NEW x \in Key PROVE HostOf[x] \in Host
    BY HostAssumption
  <2>2. CASE r.op = "insert"
    <3>1. Updated(h, Asks(t)) = [table[h] EXCEPT ![k] = r.val]
      BY <1>3, <2>2 DEF Updated
    <3>2. \A x \in Key : table'[HostOf[x]][x] = IF x = k THEN r.val ELSE table[HostOf[x]][x]
      BY <1>1, <1>4, <2>1, <3>1
    <3>3. TheMap' = [TheMap EXCEPT ![k] = r.val]
      BY <1>1, <3>2 DEF TheMap
    <3> QED BY <2>2, <3>3
  <2>3. CASE r.op = "remove"
    <3>1. Updated(h, Asks(t)) = [table[h] EXCEPT ![k] = NoVal]
      BY <1>3, <2>3 DEF Updated
    <3>2. \A x \in Key : table'[HostOf[x]][x] = IF x = k THEN NoVal ELSE table[HostOf[x]][x]
      BY <1>1, <1>4, <2>1, <3>1
    <3>3. TheMap' = [TheMap EXCEPT ![k] = NoVal]
      BY <1>1, <3>2 DEF TheMap
    <3> QED BY <2>3, <3>3
  <2>4. CASE r.op # "insert" /\ r.op # "remove"
    <3>1. Updated(h, Asks(t)) = table[h]
      BY <1>3, <2>4 DEF Updated
    <3>2. table' = table
      BY <1>1, <1>4, <3>1
    <3> QED BY <2>4, <3>2, MapStays
  <2> QED BY <2>2, <2>3, <2>4
<1>6. PICK a : a = Reply(h, Asks(t))
  OBVIOUS
<1>7. /\ a.by = t
      /\ [status |-> a.status, val |-> a.val] =
           [status |-> IF r.op # "insert" /\ TheMap[k] = NoVal THEN "missing" ELSE "ok",
            val    |-> IF r.op = "lookup" THEN TheMap[k] ELSE NoVal]
  BY <1>3, <1>4, <1>6 DEF Reply, Status
<1>8. Sock(t)'.rep = <<a>> /\ HasSock(t)'
  <2>1. Sock(t)' = [Sock(t) EXCEPT !.req = <<>>, !.rep = <<Reply(h, Asks(t))>>]
    <3>1. PICK s : s = [Sock(t) EXCEPT !.req = <<>>, !.rep = <<Reply(h, Asks(t))>>]
      OBVIOUS
    <3>2. sock' = [sock EXCEPT ![Process[t]][fd[t]] = s]
      BY <3>1 DEF Served
    <3>3. sock \in [Client -> [Fd -> Wire]] /\ Process[t] \in Client /\ fd[t] \in Fd /\ fd'[t] = fd[t]
      BY <1>1, ProcessAssumption DEF OpenTo, Inv, Types
    <3>4. Sock(t)' = s
      BY <3>2, <3>3 DEF Sock
    <3> QED BY <3>1, <3>4
  <2>2. Sock(t) = [host |-> Sock(t).host, alive |-> Sock(t).alive,
                   req |-> Sock(t).req, rep |-> Sock(t).rep]
    BY <1>1, SocketIs DEF OpenTo
  <2>3. Sock(t)'.rep = <<a>>
    BY <1>6, <2>1, <2>2
  <2>4. HasSock(t)'
    <3>1. OpenTo(t)'
      <4>1. ThreadOK(t)' /\ fd'[t] # NoFd /\ pc'[t] = "receive"
        BY <1>1, <1>2, FdIsNat DEF Inv, OpenTo, At
      <4> QED BY <4>1 DEF ThreadOK, At
    <3> QED BY <3>1, ClosedAssumption, FdIsNat DEF OpenTo, HasSock
  <2> QED BY <2>3, <2>4
<1>9. AnswerOf(t)' = [status |-> a.status, val |-> a.val]
  <2>1. AnswerForms(t)' /\ At(t, "receive")'
    BY <1>1, AnswerNext DEF At
  <2>2. \A b : Sock(t)'.rep = <<b>> /\ b.by = t => AnswerOf(t)' = [status |-> b.status, val |-> b.val]
    BY <1>8, <2>1 DEF AnswerForms
  <2> QED BY <1>7, <1>8, <2>2
<1>10. TheAnswers' = [TheAnswers EXCEPT ![t] = [status |-> a.status, val |-> a.val]]
  <2>1. TheAnswers' = [TheAnswers EXCEPT ![t] = AnswerOf(t)']
    BY <1>2, OthersAnswer, AnswersAre
  <2> QED BY <1>9, <2>1
<1>11. TheAnswers[t] = AM!None
  <2>1. \A m : Sock(t).req = <<m>> /\ m.by = t /\ Sock(t).rep = <<>> => AnswerOf(t) = AM!None
    BY <1>1, AnswerIn DEF AnswerForms
  <2>2. Sock(t).req = <<Asks(t)>> /\ Sock(t).rep = <<>>
    BY DEF Served
  <2> QED BY <1>3, <2>1, <2>2 DEF TheAnswers
<1>12. AM!AnswerTo(r) = [status |-> a.status, val |-> a.val]
  BY <1>7 DEF AM!AnswerTo, TheMap
<1> QED BY <1>1, <1>5, <1>10, <1>11, <1>12 DEF AM!TakeEffect, TheMap, TheAnswers, TheReturns

\* a server is lost with its table and what it had not answered,
LEMMA CrashIsLoss ==
    ASSUME Inv, NEW h \in Host, CrashServer(h)
    PROVE  AM!Lose
<1> DEFINE ks == {k \in Key : HostOf[k] = h}
           ts == {t \in Thread : AnswerOf(t)' # AnswerOf(t)}
<1>1. /\ table' = [table EXCEPT ![h] = [k \in Key |-> NoVal]]
      /\ UNCHANGED <<cache, pc, call, fd, ret>> /\ crashes' > 0
      /\ \A c \in Client, f \in Fd :
            /\ ~Hit(sock[c][f], h) => sock'[c][f] = sock[c][f]
            /\ Hit(sock[c][f], h) => /\ sock'[c][f] # Closed /\ sock'[c][f].req = <<>>
                                     /\ sock'[c][f].rep \in {sock[c][f].rep, <<>>}
  <2>1. /\ table' = [table EXCEPT ![h] = [k \in Key |-> NoVal]]
        /\ UNCHANGED <<cache, pc, call, fd, ret>> /\ crashes' = crashes + 1
    BY CrashIs
  <2>2. crashes' > 0
    BY <2>1, SizeAssumption DEF Inv, Types
  <2>3. ASSUME NEW c \in Client, NEW f \in Fd
        PROVE  /\ ~Hit(sock[c][f], h) => sock'[c][f] = sock[c][f]
               /\ Hit(sock[c][f], h) => /\ sock'[c][f] # Closed /\ sock'[c][f].req = <<>>
                                        /\ sock'[c][f].rep \in {sock[c][f].rep, <<>>}
    BY CrashIs
  <2> QED BY <2>1, <2>2, <2>3
<1>2. TheMap' = [k \in Key |-> IF k \in ks THEN NoVal ELSE TheMap[k]]
  BY <1>1, HostAssumption DEF TheMap, Inv, Types
<1>3. ASSUME NEW t \in Thread
      PROVE  AnswerOf(t)' = AnswerOf(t) \/ (AnswerOf(t)' = AM!Lost /\ call[t] # NoCall)
  <2>0. AnswerForms(t) /\ AnswerForms(t)'
    BY AnswerIn, AnswerNext
  <2>1. CASE ~At(t, "receive")
    BY <1>1, <2>1, AnswerStays
  <2>2. CASE At(t, "receive") /\ fd[t] = NoFd
    <3>1. ~HasSock(t) /\ ~HasSock(t)' /\ At(t, "receive")'
      BY <1>1, <2>2 DEF HasSock, At
    <3>2. AnswerOf(t) = AM!Lost
      BY <2>0, <2>2, <3>1 DEF AnswerForms
    <3>3. AnswerOf(t)' = AM!Lost
      BY <2>0, <3>1 DEF AnswerForms, AM!Lost
    <3> QED BY <3>2, <3>3
  <2>3. CASE At(t, "receive") /\ fd[t] # NoFd
    <3> DEFINE c == Process[t]
               f == fd[t]
    <3>1. /\ c \in Client /\ f \in Fd /\ OpenTo(t) /\ Waits(t, Sock(t)) /\ HasSock(t)
          /\ Sock(t) = sock[c][f] /\ Sock(t)' = sock'[c][f] /\ call[t] # NoCall
      BY <1>1, <2>3, ProcessAssumption, CallOf, ClosedAssumption
         DEF Inv, ThreadOK, At, InCall, OpenTo, Sock, HasSock
    <3>2. At(t, "receive")'
      BY <1>1, <2>3 DEF At
    <3>3. CASE ~Hit(sock[c][f], h)
      <4>1. Sock(t)' = Sock(t)
        BY <1>1, <3>1, <3>3
      <4> QED BY <1>1, <4>1, AnswerStays
    <3>4. CASE Hit(sock[c][f], h)
      <4>1. /\ Sock(t)' # Closed /\ Sock(t)'.req = <<>> /\ Sock(t)'.rep \in {Sock(t).rep, <<>>}
            /\ HasSock(t)'
        <5>1. /\ Sock(t)' # Closed /\ Sock(t)'.req = <<>> /\ Sock(t)'.rep \in {Sock(t).rep, <<>>}
          BY <1>1, <3>1, <3>4
        <5>2. HasSock(t)'
          BY <1>1, <2>3, <5>1 DEF HasSock
        <5> QED BY <5>1, <5>2
      <4>2. CASE Sock(t)'.rep = <<>>
        <5>1. AnswerOf(t)' = AM!Lost
          BY <2>0, <3>2, <4>1, <4>2 DEF AnswerForms, AM!Lost
        <5> QED BY <3>1, <5>1
      <4>3. CASE Sock(t)'.rep = Sock(t).rep /\ Sock(t).rep # <<>>
        <5>1. PICK a : Sock(t).rep = <<a>> /\ a.by = t
          <6>1. Sock(t).rep = <<Sock(t).rep[1]>> /\ Answers(t, Sock(t).rep[1])
            BY <3>1, <4>3 DEF Waits, Quiet
          <6> QED BY <6>1 DEF Answers
        <5>2. AnswerOf(t) = [status |-> a.status, val |-> a.val]
          BY <2>0, <2>3, <3>1, <5>1 DEF AnswerForms
        <5>3. AnswerOf(t)' = [status |-> a.status, val |-> a.val]
          BY <2>0, <3>2, <4>1, <4>3, <5>1 DEF AnswerForms
        <5> QED BY <5>2, <5>3
      <4> QED BY <4>1, <4>2, <4>3
    <3> QED BY <3>3, <3>4
  <2> QED BY <2>1, <2>2, <2>3
<1>4. /\ ts \in SUBSET {t \in Thread : call[t] # NoCall}
      /\ TheAnswers' = [t \in Thread |-> IF t \in ts THEN AM!Lost ELSE TheAnswers[t]]
  BY <1>3 DEF TheAnswers
<1>5. ks \in SUBSET Key
  OBVIOUS
<1> HIDE DEF ks, ts
<1>6. TheReturns' = TheReturns /\ call' = call
  BY <1>1 DEF TheReturns
<1>7. \E s \in SUBSET Key, q \in SUBSET {t \in Thread : call[t] # NoCall} :
         /\ TheMap' = [k \in Key |-> IF k \in s THEN NoVal ELSE TheMap[k]]
         /\ TheAnswers' = [t \in Thread |-> IF t \in q THEN AM!Lost ELSE TheAnswers[t]]
  BY <1>2, <1>4, <1>5
<1> QED BY <1>1, <1>6, <1>7 DEF AM!Lose, TheMap, TheAnswers, TheReturns

\* and comes back.
LEMMA RestartIs ==
    ASSUME Inv, NEW h \in Host, RestartServer(h)
    PROVE  [AM!Next]_(AM!vars)
<1>1. UNCHANGED <<table, crashes, sock, cache, pc, call, fd, ret>>
  BY DEF RestartServer
<1>2. \A u \in Thread : AnswerOf(u)' = AnswerOf(u)
  BY <1>1, AnswerStays DEF Sock
<1> QED BY <1>1, <1>2, MapStays, NoStep DEF TheAnswers

\* The initial states are those of the map.
LEMMA InitIs == Init => AM!Init
<1> SUFFICES ASSUME Init PROVE AM!Init
  OBVIOUS
<1>1. TheMap = [k \in Key |-> NoVal]
  BY HostAssumption DEF Init, TheMap
<1>2. TheAnswers = [t \in Thread |-> AM!None]
  BY AnswerIn DEF Init, TheAnswers, AnswerForms, At
<1>3. TheReturns = [t \in Thread |-> AM!NoResult] /\ call = [t \in Thread |-> NoCall] /\ ~(crashes > 0)
  BY DEF Init, TheReturns, AM!NoResult, NoResult
<1> QED BY <1>1, <1>2, <1>3 DEF AM!Init, TheMap, TheAnswers, TheReturns

\* One case per action.
LEMMA StepIs ==
    ASSUME ~SharedSockets, Inv, NoneMissing, [Next]_vars
    PROVE  [AM!Next]_(AM!vars)
<1>1. ASSUME NEW t \in Thread, Begin(t) PROVE AM!Next
  BY <1>1, BeginIs DEF AM!Next
<1>2. ASSUME NEW t \in Thread, Fetch(t) \/ Connect(t) \/ Cache(t) PROVE [AM!Next]_(AM!vars)
  BY <1>2, WayIs
<1>3. ASSUME NEW t \in Thread, GoesWithout(t) \/ TakesAnswer(t) PROVE AM!Next
  BY <1>3, GoesWithoutIs, TakesAnswerIs DEF AM!Next
<1>4. ASSUME NEW t \in Thread, Send(t) PROVE [AM!Next]_(AM!vars)
  <2>1. CASE SendsOn(t)
    BY <2>1, SendsOnIs
  <2>2. CASE SendsInVain(t)
    BY <2>2, InVainIs DEF AM!Next
  <2>3. CASE GoesWithout(t)
    BY <1>3, <2>3
  <2> QED BY <1>4, <2>1, <2>2, <2>3, SendIs
<1>5. ASSUME NEW t \in Thread, ReceiveAck(t) \/ ReceiveText(t) PROVE [AM!Next]_(AM!vars)
  BY <1>3, <1>5, AckIs, TextIs, FailsIs
<1>6. ASSUME NEW c \in Client, NEW f \in Fd, Serve(c, f) PROVE AM!Next
  BY <1>6, ServeIs, ServedIs DEF AM!Next
<1>7. ASSUME NEW h \in Host, CrashServer(h) \/ RestartServer(h) PROVE [AM!Next]_(AM!vars)
  BY <1>7, CrashIsLoss, RestartIs DEF AM!Next
<1>8. CASE UNCHANGED vars
  <2>1. UNCHANGED <<table, crashes, sock, cache, pc, call, fd, ret>>
    BY <1>8 DEF vars
  <2>2. \A u \in Thread : AnswerOf(u)' = AnswerOf(u)
    BY <2>1, AnswerStays DEF Sock
  <2> QED BY <2>1, <2>2, MapStays, NoStep DEF TheAnswers
<1> QED BY <1>1, <1>2, <1>4, <1>5, <1>6, <1>7, <1>8 DEF Next, Step

\* Where the threads of a process call one at a time and there are descriptors for the
\* servers, ZHT is a map with atomic calls (insert, lookup, remove and dataService over
\* the cache of sockets): each call takes effect once, when the server reads it, and
\* returns the answer of that moment, unless a server was lost.
THEOREM ZHTIsAtomicMap == ASSUME ~SharedSockets, EnoughFds PROVE Spec => IsAtomicMap
<1>1. Init => NoneMissing /\ AM!Init
  BY InitIs DEF Init, NoneMissing
<1>2. Inv /\ NoneMissing /\ [Next]_vars => NoneMissing' /\ [AM!Next]_(AM!vars)
  BY StepKeepsSockets, StepIs
<1> QED BY <1>1, <1>2, Invariance, PTL DEF Spec, IsAtomicMap, AM!Spec

=============================================================================
