----------------------------- MODULE UDTRcvQueue -----------------------------
(***************************************************************************)
(* CRcvQueue with its CRcvUList, CHash and CRendezvousQueue                  *)
(* (udt/src/queue.cpp): the worker that receives hands packets to connected  *)
(* sockets and to those that connect, and looks after the timers of sockets  *)
(* it has not heard of for 100 ms.  Callers connect and close, a connecting  *)
(* caller waits for its answer in the buffer the worker fills, and the       *)
(* garbage collector frees what is closed and off the worker's list.         *)
(***************************************************************************)
EXTENDS Integers, Sequences, FiniteSets, SequencesExt

CONSTANTS Socks,    \* sockets of the multiplexer
          Async,    \* those with UDT_RCVSYN off
          MaxStored, \* packets kept for a connecting socket: 16 in the code
          NoSock

\* What an instance must give.
Given == IsFiniteSet(Socks) /\ NoSock \notin Socks /\ MaxStored \in Nat

VARIABLES first, last, next, prev, \* CRcvUList and the links of CRNode
          old,      \* the time stamp is older than 100 ms
          onList,   \* m_bOnList
          hash,     \* the sockets of CHash
          fresh,    \* m_vNewEntry
          rid,      \* the sockets of m_lRendezvousID
          stored,   \* m_mBuffer: how many packets wait for a connecting socket
          st,       \* a socket is "init", "connecting", "open", "broken" or "freed"
          cpc,      \* where its thread is in connect, or "out"
          wpc, wsock \* what the worker does, and the socket it has looked up

list == <<first, last, next, prev, old>>
vars == <<list, onList, hash, fresh, rid, stored, st, cpc, wpc, wsock>>

Init == /\ first = NoSock /\ last = NoSock /\ hash = {} /\ fresh = <<>> /\ rid = {}
        /\ next = [u \in Socks |-> NoSock] /\ prev = [u \in Socks |-> NoSock]
        /\ old = [u \in Socks |-> FALSE] /\ onList = [u \in Socks |-> FALSE]
        /\ stored = [u \in Socks |-> 0] /\ st = [u \in Socks |-> "init"]
        /\ cpc = [u \in Socks |-> "out"] /\ wpc = "entry" /\ wsock = NoSock
-----------------------------------------------------------------------------
(* CRcvUList: every operation reads the clock where the code does. *)

insert(u) == /\ old' = [old EXCEPT ![u] = FALSE] /\ last' = u
             /\ next' = [n \in Socks |-> IF n = u THEN NoSock ELSE IF n = last THEN u ELSE next[n]]
             /\ prev' = [prev EXCEPT ![u] = last]
             /\ first' = IF first = NoSock THEN u ELSE first

remove(u) ==
    /\ next' = [n \in Socks |-> IF n = u THEN NoSock ELSE IF n = prev[u] THEN next[u] ELSE next[n]]
    /\ prev' = [n \in Socks |-> IF n = u THEN NoSock ELSE IF n = next[u] THEN prev[u] ELSE prev[n]]
    /\ first' = IF prev[u] = NoSock THEN next[u] ELSE first
    /\ last' = IF next[u] = NoSock THEN prev[u] ELSE last
    /\ UNCHANGED old

update(u) ==
    IF ~onList[u] THEN UNCHANGED list
    ELSE /\ old' = [old EXCEPT ![u] = FALSE]
         /\ IF next[u] = NoSock THEN UNCHANGED <<first, last, next, prev>>
            ELSE /\ first' = IF prev[u] = NoSock THEN next[u] ELSE first
                 /\ next' = [n \in Socks |-> IF n = u THEN NoSock ELSE IF n = last THEN u
                                             ELSE IF n = prev[u] THEN next[u] ELSE next[n]]
                 /\ prev' = [n \in Socks |-> IF n = u THEN last
                                             ELSE IF n = next[u] THEN prev[u] ELSE prev[n]]
                 /\ last' = u
-----------------------------------------------------------------------------
(* The worker. *)

TakeNew == /\ wpc = "entry"
           /\ IF fresh = <<>>
              THEN wpc' = "packet" /\ UNCHANGED <<list, hash, fresh>>
              ELSE /\ insert(Head(fresh)) /\ hash' = hash \cup {Head(fresh)}
                   /\ fresh' = Tail(fresh) /\ UNCHANGED wpc
           /\ UNCHANGED <<onList, rid, stored, st, cpc, wsock>>

\* connect(response) of u succeeds: the second half of a connection request.
Connected(u) == /\ st' = [st EXCEPT ![u] = "open"] /\ rid' = rid \ {u}
                /\ stored' = [stored EXCEPT ![u] = 0]
                /\ onList' = [onList EXCEPT ![u] = TRUE] /\ fresh' = Append(fresh, u)

\* A datagram for u, or with id 0: then for the first that connects to the sender.
Receive(u) ==
    /\ wpc = "packet"
    /\ \/ /\ u \in hash
          /\ IF st[u] = "open" THEN update(u) ELSE UNCHANGED list
          /\ wpc' = "timers" /\ UNCHANGED <<onList, fresh, rid, stored, st, wsock>>
       \/ /\ u \notin hash /\ u \in rid
          /\ IF u \in Async
             THEN /\ wpc' = "timers" /\ UNCHANGED <<list, wsock>>
                  /\ IF st[u] = "connecting" THEN Connected(u)
                     ELSE UNCHANGED <<onList, fresh, rid, stored, st>>
             ELSE /\ wpc' = "store" /\ wsock' = u
                  /\ UNCHANGED <<list, onList, fresh, rid, stored, st>>
    /\ UNCHANGED <<hash, cpc>>

NoPacket == /\ wpc = "packet" /\ wpc' = "timers"
            /\ UNCHANGED <<list, onList, hash, fresh, rid, stored, st, cpc, wsock>>

\* The signal wakes one of the waiting callers, perhaps not the one the packet is for.
storePkt == /\ wpc = "store" /\ wpc' = "timers" /\ wsock' = NoSock
            /\ stored' = [stored EXCEPT ![wsock] = IF @ > MaxStored THEN @ ELSE @ + 1]
            /\ LET waiting == {u \in Socks : cpc[u] = "wait"} IN
               IF stored[wsock] > 0 \/ waiting = {} THEN UNCHANGED cpc
               ELSE \E u \in waiting : cpc' = [cpc EXCEPT ![u] = "look"]
            /\ UNCHANGED <<list, onList, hash, fresh, rid, st>>

\* Mutant: a socket that is not open any more keeps its place.
Timer_Keeps == /\ wpc = "timers"
               /\ IF first = NoSock \/ ~old[first] THEN wpc' = "entry" /\ UNCHANGED list
                  ELSE update(first) /\ UNCHANGED wpc
               /\ UNCHANGED <<onList, hash, fresh, rid, stored, st, cpc, wsock>>

\* The timer of the first socket of the list: the loop ends where one is not old enough.
Timer == /\ wpc = "timers"
         /\ IF first = NoSock \/ ~old[first]
            THEN wpc' = "entry" /\ UNCHANGED <<list, hash, onList>>
            ELSE /\ UNCHANGED wpc
                 /\ IF st[first] = "open" THEN update(first) /\ UNCHANGED <<hash, onList>>
                    ELSE /\ hash' = hash \ {first} /\ remove(first)
                         /\ onList' = [onList EXCEPT ![first] = FALSE]
         /\ UNCHANGED <<fresh, rid, stored, st, cpc, wsock>>

Worker == TakeNew \/ (\E u \in Socks : Receive(u)) \/ NoPacket \/ storePkt \/ Timer
-----------------------------------------------------------------------------
(* Callers, and the garbage collector. *)

Connect(u) == /\ st[u] = "init" /\ st' = [st EXCEPT ![u] = "connecting"]
              /\ rid' = rid \cup {u}
              /\ cpc' = [cpc EXCEPT ![u] = IF u \in Async THEN "out" ELSE "ask"]
              /\ UNCHANGED <<list, onList, hash, fresh, stored, wpc, wsock>>

\* recvfrom: the caller finds a packet, or waits a second for the signal and looks again.
\* The answer connects it, asks for more, or refuses.
Look(u) == /\ cpc[u] \in {"ask", "look"}
           /\ IF stored[u] = 0
              THEN /\ cpc' = [cpc EXCEPT ![u] = IF @ = "ask" THEN "wait" ELSE "ask"]
                   /\ UNCHANGED <<onList, fresh, rid, stored, st>>
              ELSE \/ /\ st[u] = "connecting" /\ Connected(u) /\ cpc' = [cpc EXCEPT ![u] = "out"]
                   \/ /\ cpc' \in {[cpc EXCEPT ![u] = "ask"], [cpc EXCEPT ![u] = "out"]}
                      /\ stored' = [stored EXCEPT ![u] = @ - 1]
                      /\ UNCHANGED <<onList, fresh, rid, st>>
           /\ UNCHANGED <<list, hash, wpc, wsock>>

WaitEnds(u) == /\ cpc[u] = "wait" /\ cpc' = [cpc EXCEPT ![u] = "look"]
               /\ UNCHANGED <<list, onList, hash, fresh, rid, stored, st, wpc, wsock>>

\* The connection timer or a close ends connect.
GiveUp(u) == /\ cpc[u] = "ask" /\ cpc' = [cpc EXCEPT ![u] = "out"]
             /\ UNCHANGED <<list, onList, hash, fresh, rid, stored, st, wpc, wsock>>

Break(u) == /\ st[u] = "open" /\ st' = [st EXCEPT ![u] = "broken"]
            /\ UNCHANGED <<list, onList, hash, fresh, rid, stored, cpc, wpc, wsock>>

removeConnector(u) == rid' = rid \ {u} /\ stored' = [stored EXCEPT ![u] = 0]

\* close, once no thread is in connect: m_ConnectionLock.
Close(u) == /\ st[u] \in {"init", "connecting", "open", "broken"} /\ cpc[u] = "out"
            /\ st' = [st EXCEPT ![u] = "closed"] /\ removeConnector(u)
            /\ UNCHANGED <<list, onList, hash, fresh, cpc, wpc, wsock>>

\* checkBrokenSockets waits a second and for the worker to take the socket off its list.
\* The worker has left a step that looked the socket up before long ago.
Free(u) == /\ st[u] = "closed" /\ ~onList[u] /\ wsock # u
           /\ st' = [st EXCEPT ![u] = "freed"]
           /\ UNCHANGED <<list, onList, hash, fresh, rid, stored, cpc, wpc, wsock>>

\* 100 ms go by: what has not been touched gets old, from the front.  The loop over the
\* timers compares with the time it began at, so nothing gets old during it.
Age == /\ wpc # "timers"
       /\ \E u \in hash : ~old[u]
       /\ \E k \in {u \in hash : ~old[u]} :
            /\ prev[k] # NoSock => old[prev[k]]
            /\ old' = [old EXCEPT ![k] = TRUE]
       /\ UNCHANGED <<first, last, next, prev, onList, hash, fresh, rid, stored, st, cpc, wpc, wsock>>

Next == \/ Worker \/ Age
        \/ \E u \in Socks : \/ Connect(u) \/ Look(u) \/ WaitEnds(u) \/ GiveUp(u)
                            \/ Break(u) \/ Close(u) \/ Free(u)

Spec == /\ Init /\ [][Next]_vars
        /\ WF_vars(Worker) /\ SF_vars(Age)
-----------------------------------------------------------------------------
\* The list by its links, from the front; one more place than there are sockets shows a
\* list that runs in a circle.
Walk == LET at[i \in 1..(Cardinality(Socks) + 1)] ==
              IF i = 1 THEN first ELSE IF at[i - 1] = NoSock THEN NoSock ELSE next[at[i - 1]]
        IN at

Order == [i \in 1..Cardinality({j \in DOMAIN Walk : Walk[j] # NoSock}) |-> Walk[i]]

\* The links make one list of exactly the sockets in the table, the links back agree, and the
\* end of the list is its last node, through insertions, removals and moves.
ListIsWhole == /\ ToSet(Order) = hash /\ Len(Order) = Cardinality(hash)
               /\ last = IF Order = <<>> THEN NoSock ELSE Order[Len(Order)]
               /\ \A i \in 2..Len(Order) : prev[Order[i]] = Order[i - 1]
               /\ first # NoSock => prev[first] = NoSock

\* The oldest are in front, so the worker that stops at the first young one misses none.
OldestFirst == \A i \in 2..Len(Order) : old[Order[i]] => old[Order[i - 1]]

\* What is freed is nowhere in the queue: not in the list, the table, the new entries or
\* the sockets that connect.
FreedIsForgotten == \A u \in Socks : st[u] = "freed" =>
                      u \notin hash \cup ToSet(Order) \cup ToSet(fresh) \cup rid

\* A packet the worker stores after its socket has left stays behind, but never two.
OneStray == \A u \in Socks : u \notin rid => stored[u] <= 1

\* A closed socket comes off the list, so that it can be freed.
ClosedLeaves == \A u \in Socks : st[u] = "closed" ~> ~onList[u]
=============================================================================
