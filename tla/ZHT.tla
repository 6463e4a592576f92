---------------------------------- MODULE ZHT ----------------------------------
(***************************************************************************)
(* The client of ZHT, cpp_zhtclient.cpp, as the threads of FusionFS clients *)
(* run it, and the event loop of its servers, server_general.cpp, over TCP  *)
(* and without replicas, as zht.cfg and start_service.sh configure them.    *)
(*                                                                         *)
(* A client process keeps one socket for a server in a cache that all its   *)
(* threads share.  A socket is two byte streams; the model keeps requests   *)
(* and answers whole and counts their bytes only where the code does: the   *)
(* server takes what has arrived for one request, insert and remove take    *)
(* four bytes, lookup takes what there is.                                  *)
(***************************************************************************)
EXTENDS Naturals, FiniteSets, SequencesExt

CONSTANTS
    Client, Thread,   \* client processes and their threads
    Process,          \* Process[t]: the process of a thread
    Host,             \* servers
    Key, Val, NoVal,  \* keys and values; the value of a missing key
    HostOf,           \* HostOf[k]: the server of a key (myhash of the member list)
    Calls, NoCall,    \* what the threads may call; the call of an idle thread
    NoThread,         \* the sender of an answer that is made up
    Closed,           \* a descriptor that is not in use
    SharedSockets,    \* may two threads of a process be in a call at once?
    CacheSize,        \* CACHE_SIZE
    MaxFd,            \* how many descriptors a process may have open
    MaxCrashes        \* bound on the crashes of servers

Request == [op : {"insert", "lookup", "remove"}, key : Key, val : Val \union {NoVal}]

ASSUME ProcessAssumption == Process \in [Thread -> Client]
ASSUME HostAssumption    == HostOf \in [Key -> Host]
ASSUME CallsAssumption   ==
    /\ Calls \subseteq Request /\ NoCall \notin Request
    /\ NoVal \notin Val /\ NoThread \notin Thread
    /\ \A r \in Calls : r.op = "insert" => r.val # NoVal
ASSUME SizeAssumption    ==
    /\ CacheSize \in Nat \ {0} /\ MaxFd \in Nat /\ MaxCrashes \in Nat
    /\ SharedSockets \in BOOLEAN

\* An evicted socket is closed, even while another thread waits on it; the
\* model has threads share sockets only where nothing is evicted.
ASSUME SharingAssumption ==
    SharedSockets => Cardinality(Host) <= CacheSize

VARIABLES
    table,    \* table[h]: the NoVoHT table of a server
    up,       \* up[h]: does the server run?
    crashes,  \* how many servers crashed so far
    sock,     \* sock[c]: the descriptors of a process
    cache,    \* cache[c]: connectionCache, the most recently used socket first
    pc, call, fd,  \* of each thread: the next step, the call, the descriptor
    ret       \* what the thread's last call returned, until the next begins

vars   == <<table, up, crashes, sock, cache, pc, call, fd, ret>>
server == <<table, up, crashes>>

Fd   == 1 .. MaxFd
NoFd == 0

\* by: the thread whose request it is; the code does not know it.
Message == [by : Thread, op : {"insert", "lookup", "remove"}, key : Key, val : Val \union {NoVal}]
Answer  == [by : Thread, kind : {"ack", "text", "rest"}, status : {"ok", "missing"},
            val : Val \union {NoVal}]
Socket  == [host : Host, alive : BOOLEAN, req : Seq(Message), rep : Seq(Answer)]
ASSUME ClosedAssumption == Closed \notin Socket
Result  == [by : Thread \union {NoThread}, status : {"ok", "missing", "failed", "junk"},
            val : Val \union {NoVal}]
NoResult == [by |-> NoThread, status |-> "failed", val |-> NoVal]
-----------------------------------------------------------------------------
Sock(t)    == sock[Process[t]][fd[t]]
HasSock(t) == fd[t] # NoFd /\ Sock(t) # Closed
Alive(t)   == HasSock(t) /\ Sock(t).alive
Target(t)  == HostOf[call[t].key]
At(t, l)   == pc[t] = l
Goto(t, l) == pc' = [pc EXCEPT ![t] = l]
InCall(t)  == pc[t] \notin {"idle", "dead"}

\* The cache as a list: lru_cache.h moves what it finds to the front.
PlaceOf(list, h)  == SelectInSeq(list, LAMBDA e : e.host = h)
Touched(list, i)  == <<list[i]>> \o RemoveAt(list, i)
Without(list, h)  == RemoveFirstMatch(list, LAMBDA e : e.host = h)
Inserted(list, h, f) == <<[host |-> h, fd |-> f]>> \o Without(list, h)
Evicted(list) == {list[i].fd : i \in {j \in DOMAIN list : j > CacheSize}}
Kept(list)    == SubSeq(list, 1, IF Len(list) > CacheSize THEN CacheSize ELSE Len(list))

Return(t, r) ==
    /\ pc' = [pc EXCEPT ![t] = "idle"]
    /\ call' = [call EXCEPT ![t] = NoCall]
    /\ fd' = [fd EXCEPT ![t] = NoFd]
    /\ ret' = [ret EXCEPT ![t] = r]

\* What is returned without an answer: lookup has a status of its own, insert
\* and remove read theirs from a buffer that nothing was received into.
MadeUp(op) ==
    IF op = "lookup" THEN {[by |-> NoThread, status |-> "failed", val |-> NoVal]}
    ELSE {[by |-> NoThread, status |-> s, val |-> NoVal] : s \in {"ok", "junk"}}

\* An exception no one catches, in one thread, ends the process.
Abort(t) ==
    /\ pc' = [u \in Thread |-> IF Process[u] = Process[t] THEN "dead" ELSE pc[u]]
    /\ UNCHANGED <<call, fd, ret>>
-----------------------------------------------------------------------------
Init ==
    /\ table = [h \in Host |-> [k \in Key |-> NoVal]]
    /\ up = [h \in Host |-> TRUE]
    /\ crashes = 0
    /\ sock = [c \in Client |-> [f \in Fd |-> Closed]]
    /\ cache = [c \in Client |-> <<>>]
    /\ pc = [t \in Thread |-> "idle"]
    /\ call = [t \in Thread |-> NoCall]
    /\ fd = [t \in Thread |-> NoFd]
    /\ ret = [t \in Thread |-> NoResult]

Begin(t) ==
    /\ At(t, "idle")
    /\ SharedSockets \/ \A u \in Thread : Process[u] = Process[t] => ~InCall(u)
    /\ \E r \in Calls : call' = [call EXCEPT ![t] = r]
    /\ ret' = [ret EXCEPT ![t] = NoResult]
    /\ Goto(t, "fetch")
    /\ UNCHANGED <<server, sock, cache, fd>>

\* Mutant of Fetch: whatever socket was used last.
Fetch_Newest(t) ==
    /\ At(t, "fetch")
    /\ \/ /\ cache[Process[t]] = <<>>
          /\ Goto(t, "connect")
          /\ UNCHANGED fd
       \/ /\ cache[Process[t]] # <<>>
          /\ fd' = [fd EXCEPT ![t] = cache[Process[t]][1].fd]
          /\ Goto(t, "send")
    /\ UNCHANGED <<server, sock, cache, call, ret>>

(* str2SockLRU: the socket from the cache, or a new connection, which is put *)
(* into the cache; the one it pushes out is closed.                          *)
Fetch(t) ==
    LET c == Process[t]
        i == PlaceOf(cache[c], Target(t))
    IN  /\ At(t, "fetch")
        /\ \/ /\ i = 0
              /\ Goto(t, "connect")
              /\ UNCHANGED <<cache, fd>>
           \/ /\ i # 0
              /\ cache' = [cache EXCEPT ![c] = Touched(@, i)]
              /\ fd' = [fd EXCEPT ![t] = cache[c][i].fd]
              /\ Goto(t, "send")
        /\ UNCHANGED <<server, sock, call, ret>>

(* makeClientSocket: the lowest descriptor that is not in use, if there is   *)
(* one.  When the server does not answer the descriptor is not closed.       *)
Connect(t) ==
    LET c    == Process[t]
        free == {f \in Fd : sock[c][f] = Closed}
        new  == CHOOSE f \in free : \A g \in free : f <= g
        Opened == sock' = [sock EXCEPT ![c][new] =
                     [host |-> Target(t), alive |-> up[Target(t)], req |-> <<>>, rep |-> <<>>]]
    IN  /\ At(t, "connect")
        /\ \/ /\ free # {} /\ up[Target(t)]
              /\ Opened
              /\ fd' = [fd EXCEPT ![t] = new]
              /\ Goto(t, "cache")
           \/ /\ free # {} /\ ~up[Target(t)]
              /\ Opened
              /\ Goto(t, "send")
              /\ UNCHANGED fd
           \/ /\ free = {}
              /\ Goto(t, "send")
              /\ UNCHANGED <<sock, fd>>
        /\ UNCHANGED <<server, cache, call, ret>>

\* Mutant of Cache: the evicted socket stays open.
Cache_NoClose(t) ==
    /\ At(t, "cache")
    /\ cache' = [cache EXCEPT ![Process[t]] = Kept(Inserted(@, Target(t), fd[t]))]
    /\ Goto(t, "send")
    /\ UNCHANGED <<server, sock, call, fd, ret>>

Cache(t) ==
    LET c    == Process[t]
        list == Inserted(cache[c], Target(t), fd[t])
    IN  /\ At(t, "cache")
        /\ cache' = [cache EXCEPT ![c] = Kept(list)]
        /\ sock' = [sock EXCEPT ![c] =
                      [f \in Fd |-> IF f \in Evicted(list) THEN Closed ELSE @[f]]]
        /\ Goto(t, "send")
        /\ UNCHANGED <<server, call, fd, ret>>

(* generalSendTo.  On a socket whose server is gone the first send succeeds  *)
(* and a later one does not.  lookup gives up when it did not send all;      *)
(* insert and remove go on to receive.                                      *)
Send(t) ==
    /\ At(t, "send")
    /\ \/ /\ Alive(t)
          /\ sock' = [sock EXCEPT ![Process[t]][fd[t]].req =
                        Append(@, [by |-> t, op |-> call[t].op, key |-> call[t].key, val |-> call[t].val])]
          /\ Goto(t, "receive")
          /\ UNCHANGED <<call, fd, ret>>
       \/ /\ ~Alive(t)
          /\ HasSock(t) \/ call[t].op # "lookup"
          /\ Goto(t, "receive")
          /\ UNCHANGED <<sock, call, fd, ret>>
       \/ /\ ~Alive(t)
          /\ call[t].op = "lookup"
          /\ \E r \in MadeUp("lookup") : Return(t, r)
          /\ UNCHANGED sock
    /\ UNCHANGED <<server, cache>>

(* generalReceive of insert and remove: four bytes, which is an            *)
(* acknowledgement, or the beginning of an answer to a lookup.              *)
ReceiveAck(t) ==
    LET s    == Sock(t)
        head == s.rep[1]
        rest == [head EXCEPT !.kind = "rest"]
        Leave(rep) == sock' = [sock EXCEPT ![Process[t]][fd[t]].rep = rep]
        Junk == [by |-> head.by, status |-> "junk", val |-> NoVal]
    IN  /\ At(t, "receive") /\ call[t].op # "lookup"
        /\ \/ /\ HasSock(t) /\ s.rep # <<>> /\ head.kind = "ack"
              /\ Leave(Tail(s.rep))
              /\ Return(t, [by |-> head.by, status |-> head.status, val |-> NoVal])
           \/ /\ HasSock(t) /\ s.rep # <<>> /\ head.kind # "ack"
              /\ \/ Leave(<<rest>> \o Tail(s.rep))
                 \/ head.kind = "rest" /\ Leave(Tail(s.rep))
              /\ Return(t, Junk)
           \/ /\ ~Alive(t) /\ (HasSock(t) => s.rep = <<>>)
              /\ \E r \in MadeUp(call[t].op) : Return(t, r)
              /\ UNCHANGED sock
        /\ UNCHANGED <<server, cache>>

(* generalReceive of lookup: whatever has arrived, read as one string, whose *)
(* first three characters are the status.  An acknowledgement of success     *)
(* begins with a zero byte, and the end of the stream is no character at all: *)
(* substr(3) throws.                                                        *)
ReceiveText(t) ==
    LET s    == Sock(t)
        head == s.rep[1]
        Take(n) == sock' = [sock EXCEPT ![Process[t]][fd[t]].rep = SubSeq(@, n + 1, Len(@))]
        Got(n)  == IF head.kind = "text" /\ n = 1
                   THEN [by |-> head.by, status |-> head.status, val |-> head.val]
                   ELSE [by |-> head.by, status |-> "junk", val |-> NoVal]
    IN  /\ At(t, "receive") /\ call[t].op = "lookup"
        /\ \/ /\ s.rep # <<>>
              /\ \E n \in 1 .. Len(s.rep) :
                    /\ Take(n)
                    /\ IF head.kind = "ack" /\ head.status = "ok" THEN Abort(t) ELSE Return(t, Got(n))
           \/ /\ ~s.alive /\ s.rep = <<>>
              /\ Abort(t) \/ \E r \in MadeUp("lookup") : Return(t, r)
              /\ UNCHANGED sock
        /\ UNCHANGED <<server, cache>>
-----------------------------------------------------------------------------
(* dataService. *)
Status(h, m) == IF m.op # "insert" /\ table[h][m.key] = NoVal THEN "missing" ELSE "ok"
Reply(h, m) ==
    [by |-> m.by, kind |-> IF m.op = "lookup" THEN "text" ELSE "ack", status |-> Status(h, m),
     val |-> IF m.op = "lookup" THEN table[h][m.key] ELSE NoVal]
Updated(h, m) ==
    CASE m.op = "insert" -> [table[h] EXCEPT ![m.key] = m.val]
      [] m.op = "remove" -> [table[h] EXCEPT ![m.key] = NoVal]
      [] OTHER           -> table[h]

\* Mutant of Serve: nothing is sent when there is nothing to remove.
Serve_SilentIfMissing(c, f) ==
    /\ sock[c][f] # Closed /\ sock[c][f].alive /\ sock[c][f].req # <<>>
    /\ LET h == sock[c][f].host
           m == sock[c][f].req[1]
       IN  /\ table' = [table EXCEPT ![h] = Updated(h, m)]
           /\ sock' = [sock EXCEPT
                 ![c][f].req = Tail(@),
                 ![c][f].rep = IF m.op = "remove" /\ Status(h, m) = "missing" THEN @
                               ELSE Append(@, Reply(h, m))]
    /\ UNCHANGED <<up, crashes, cache, pc, call, fd, ret>>

(* The event loop reads what has arrived on a socket and parses it as one    *)
(* package.  Of the packages in it the last one's fields win.                *)
Serve(c, f) ==
    /\ sock[c][f] # Closed /\ sock[c][f].alive
    /\ \E n \in 1 .. Len(sock[c][f].req) :
       LET h == sock[c][f].host
           m == sock[c][f].req[n]
       IN  /\ table' = [table EXCEPT ![h] = Updated(h, m)]
           /\ sock' = [sock EXCEPT ![c][f].req = SubSeq(@, n + 1, Len(@)),
                                   ![c][f].rep = Append(@, Reply(h, m))]
    /\ UNCHANGED <<up, crashes, cache, pc, call, fd, ret>>

(* A server has no file: its table is gone with it, and so are the requests  *)
(* it did not read and, for some clients, the answers on their way.          *)
CrashServer(h) ==
    /\ up[h] /\ crashes < MaxCrashes
    /\ up' = [up EXCEPT ![h] = FALSE]
    /\ crashes' = crashes + 1
    /\ table' = [table EXCEPT ![h] = [k \in Key |-> NoVal]]
    /\ \E answered \in SUBSET Client :
          sock' = [c \in Client |-> [f \in Fd |->
                     IF sock[c][f] = Closed \/ sock[c][f].host # h THEN sock[c][f]
                     ELSE [sock[c][f] EXCEPT !.alive = FALSE, !.req = <<>>,
                                             !.rep = IF c \in answered THEN @ ELSE <<>>]]]
    /\ UNCHANGED <<cache, pc, call, fd, ret>>

RestartServer(h) ==
    /\ ~up[h]
    /\ up' = [up EXCEPT ![h] = TRUE]
    /\ UNCHANGED <<table, crashes, sock, cache, pc, call, fd, ret>>
-----------------------------------------------------------------------------
Step(t) == Fetch(t) \/ Connect(t) \/ Cache(t) \/ Send(t) \/ ReceiveAck(t) \/ ReceiveText(t)

Next ==
    \/ \E t \in Thread : Begin(t) \/ Step(t)
    \/ \E c \in Client, f \in Fd : Serve(c, f)
    \/ \E h \in Host : CrashServer(h) \/ RestartServer(h)

Spec == Init /\ [][Next]_vars

\* A thread that can go on does, and a server that runs reads its sockets.
FairSpec ==
    /\ Spec
    /\ \A t \in Thread : WF_vars(Step(t))
    /\ \A c \in Client, f \in Fd : WF_vars(Serve(c, f))
-----------------------------------------------------------------------------
TypeOK ==
    /\ table \in [Host -> [Key -> Val \union {NoVal}]]
    /\ up \in [Host -> BOOLEAN]
    /\ crashes \in 0 .. MaxCrashes
    /\ \A c \in Client :
          /\ DOMAIN sock[c] = Fd
          /\ \A f \in Fd : sock[c][f] = Closed \/ sock[c][f] \in Socket
          /\ cache[c] \in Seq([host : Host, fd : Fd]) /\ Len(cache[c]) <= CacheSize
    /\ pc \in [Thread -> {"idle", "fetch", "connect", "cache", "send", "receive", "dead"}]
    /\ call \in [Thread -> Calls \union {NoCall}]
    /\ fd \in [Thread -> Fd \union {NoFd}]
    /\ ret \in [Thread -> Result]

(* The cache and the descriptors agree: every socket in the cache is open    *)
(* and goes to the server it is kept for, although numbers are used again,   *)
(* and every connection is in the cache or about to be: str2SockLRU closes   *)
(* the socket the cache gives up.                                           *)
CacheIsSockets ==
    /\ TypeOK
    /\ \A c \in Client :
        /\ \A i \in DOMAIN cache[c] :
              sock[c][cache[c][i].fd] # Closed /\ sock[c][cache[c][i].fd].host = cache[c][i].host
        /\ \A f \in Fd : sock[c][f] # Closed /\ sock[c][f].alive =>
              \/ \E i \in DOMAIN cache[c] : cache[c][i].fd = f
              \/ \E t \in Thread : Process[t] = c /\ pc[t] = "cache" /\ fd[t] = f

(* Every call returns or ends its process: no thread waits for ever for an   *)
(* answer, whichever server goes down.                                      *)
CallsReturn == \A t \in Thread : InCall(t) ~> ~InCall(t)

(* ZHT is a map on which calls are atomic, as FusionFS takes it to be: over  *)
(* all the caches and sockets, every call takes effect once, in between, and *)
(* returns its own answer, unless a server was lost.                         *)
AnswerOf(t) ==
    IF ~At(t, "receive")
    THEN [status |-> IF At(t, "dead") /\ call[t] # NoCall THEN "lost" ELSE "none", val |-> NoVal]
    ELSE LET mine == IF ~HasSock(t) THEN {} ELSE {a \in ToSet(Sock(t).rep) : a.by = t}
             sent == HasSock(t) /\ \E m \in ToSet(Sock(t).req) : m.by = t
         IN  IF mine # {} THEN [status |-> (CHOOSE a \in mine : TRUE).status,
                                val |-> (CHOOSE a \in mine : TRUE).val]
             ELSE [status |-> IF sent THEN "none" ELSE "lost", val |-> NoVal]

AM == INSTANCE AtomicMap WITH
        map    <- [k \in Key |-> table[HostOf[k]][k]],
        answer <- [t \in Thread |-> AnswerOf(t)],
        ret    <- [t \in Thread |-> [status |-> ret[t].status, val |-> ret[t].val]],
        faulty <- crashes > 0
IsAtomicMap == AM!Spec
================================================================================
