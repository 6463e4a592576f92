------------------------------ MODULE UDTEPoll ------------------------------
(***************************************************************************)
(* CEPoll (udt/src/epoll.cpp) and its users in core.cpp and api.cpp.  One    *)
(* lock guards the polls; whether a socket can be read or written is looked  *)
(* at before the lock is taken, by the worker that receives, by the callers  *)
(* of recv and send, and by the one who adds the socket to a poll.           *)
(***************************************************************************)
EXTENDS Integers, FiniteSets

CONSTANTS Socks,
          MaxEid  \* bound: poll ids given out

VARIABLES seed,            \* m_iIDSeed: the poll ids given out are 1..seed
          polls,           \* m_mPolls: those in use
          in, out,         \* m_sUDTSocksIn, m_sUDTSocksOut of each poll
          reads, writes,   \* m_sUDTReads, m_sUDTWrites of each poll
          ids,             \* m_sPollID of each socket
          data, room,      \* there is something to read, there is room to write
          st,              \* a socket is "open", "broken" or "closed"
          wpc, rpc, spc,   \* the worker, the reader and the sender of each socket
          apc,             \* the application that adds, removes and closes, per socket
          waiter           \* the poll a thread waits for and what it got

sockets == <<data, room, st>>
tables == <<in, out, reads, writes>>
vars == <<seed, polls, tables, ids, sockets, wpc, rpc, spc, apc, waiter>>

Eids == 1..MaxEid
Free == [at |-> "out", eid |-> 0]
Idle == [wait |-> {}, got |-> {}]

Init == /\ seed = 0 /\ polls = {} /\ in = [e \in Eids |-> {}] /\ out = [e \in Eids |-> {}]
        /\ reads = [e \in Eids |-> {}] /\ writes = [e \in Eids |-> {}]
        /\ ids = [u \in Socks |-> {}]
        /\ data = [u \in Socks |-> FALSE] /\ room = [u \in Socks |-> TRUE]
        /\ st = [u \in Socks |-> "open"]
        /\ wpc = [u \in Socks |-> "out"] /\ rpc = [u \in Socks |-> "out"]
        /\ spc = [u \in Socks |-> "out"] /\ apc = [u \in Socks |-> Free] /\ waiter = Idle
-----------------------------------------------------------------------------
(* CEPoll, each with m_EPollLock. *)

create == /\ seed < MaxEid /\ seed' = seed + 1 /\ polls' = polls \cup {seed + 1}
          /\ UNCHANGED <<tables, ids, sockets, wpc, rpc, spc, apc, waiter>>

release == /\ \E e \in polls :
                /\ polls' = polls \ {e}
                /\ in' = [in EXCEPT ![e] = {}] /\ out' = [out EXCEPT ![e] = {}]
                /\ reads' = [reads EXCEPT ![e] = {}] /\ writes' = [writes EXCEPT ![e] = {}]
           /\ UNCHANGED <<seed, ids, sockets, wpc, rpc, spc, apc, waiter>>

add_usock(e, u) == /\ \E ev \in {{"in"}, {"out"}, {"in", "out"}} :
                        /\ in' = IF "in" \in ev THEN [in EXCEPT ![e] = @ \cup {u}] ELSE in
                        /\ out' = IF "out" \in ev THEN [out EXCEPT ![e] = @ \cup {u}] ELSE out
                   /\ UNCHANGED <<reads, writes>>

remove_usock(e, u) == /\ in' = [in EXCEPT ![e] = @ \ {u}] /\ out' = [out EXCEPT ![e] = @ \ {u}]
                      /\ reads' = [reads EXCEPT ![e] = @ \ {u}]
                      /\ writes' = [writes EXCEPT ![e] = @ \ {u}]

\* Polls that were released are taken out of the socket's set on the way.
enable_read(u) == /\ reads' = [e \in Eids |-> IF e \in ids[u] /\ u \in in[e]
                                              THEN reads[e] \cup {u} ELSE reads[e]]
                  /\ ids' = [ids EXCEPT ![u] = @ \cap polls] /\ UNCHANGED <<in, out>>

enable_write(u) == /\ writes' = [e \in Eids |-> IF e \in ids[u] /\ u \in out[e]
                                                THEN writes[e] \cup {u} ELSE writes[e]]
                   /\ ids' = [ids EXCEPT ![u] = @ \cap polls] /\ UNCHANGED <<in, out>>

disable_read(u) == /\ reads' = [e \in Eids |-> IF e \in ids[u] THEN reads[e] \ {u} ELSE reads[e]]
                   /\ ids' = [ids EXCEPT ![u] = @ \cap polls] /\ UNCHANGED <<in, out>>

disable_write(u) == /\ writes' = [e \in Eids |-> IF e \in ids[u] THEN writes[e] \ {u} ELSE writes[e]]
                    /\ ids' = [ids EXCEPT ![u] = @ \cap polls] /\ UNCHANGED <<in, out>>
-----------------------------------------------------------------------------
(* The threads of a socket. *)

\* An acknowledgement goes out: data can be read; one comes in: there is room; or the
\* worker finds the connection broken.
Worker(u) ==
    \/ /\ wpc[u] = "out" /\ st[u] = "open" /\ ~data[u]
       /\ data' = [data EXCEPT ![u] = TRUE] /\ wpc' = [wpc EXCEPT ![u] = "read"]
       /\ UNCHANGED <<room, st, tables, ids>>
    \/ /\ wpc[u] = "out" /\ st[u] = "open" /\ ~room[u]
       /\ room' = [room EXCEPT ![u] = TRUE] /\ wpc' = [wpc EXCEPT ![u] = "write"]
       /\ UNCHANGED <<data, st, tables, ids>>
    \/ /\ wpc[u] = "out" /\ st[u] = "open"
       /\ st' = [st EXCEPT ![u] = "broken"] /\ wpc' = [wpc EXCEPT ![u] = "both"]
       /\ UNCHANGED <<data, room, tables, ids>>
    \/ /\ wpc[u] \in {"read", "both"}
       /\ enable_read(u) /\ wpc' = [wpc EXCEPT ![u] = IF @ = "both" THEN "write" ELSE "out"]
       /\ UNCHANGED <<sockets, writes>>
    \/ /\ wpc[u] = "write" /\ enable_write(u) /\ wpc' = [wpc EXCEPT ![u] = "out"]
       /\ UNCHANGED <<sockets, reads>>

\* recv empties the buffer, sees that it is empty and takes the event away.
Reader(u) ==
    \/ /\ rpc[u] = "out" /\ data[u] /\ st[u] # "closed"
       /\ data' = [data EXCEPT ![u] = FALSE] /\ rpc' = [rpc EXCEPT ![u] = "disable"]
       /\ UNCHANGED <<room, st, tables, ids>>
    \/ /\ rpc[u] = "disable" /\ disable_read(u) /\ rpc' = [rpc EXCEPT ![u] = "out"]
       /\ UNCHANGED <<sockets, writes>>

Sender(u) ==
    \/ /\ spc[u] = "out" /\ room[u] /\ st[u] = "open"
       /\ room' = [room EXCEPT ![u] = FALSE] /\ spc' = [spc EXCEPT ![u] = "disable"]
       /\ UNCHANGED <<data, st, tables, ids>>
    \/ /\ spc[u] = "disable" /\ disable_write(u) /\ spc' = [spc EXCEPT ![u] = "out"]
       /\ UNCHANGED <<sockets, reads>>

Step(u, at) == apc' = [apc EXCEPT ![u].at = at]

\* epoll_add_usock, addEPoll: into the poll, into the socket's set, then the events there are.
Add(u) ==
    \/ /\ apc[u].at = "out" /\ st[u] # "closed"
       /\ \E e \in polls : add_usock(e, u) /\ apc' = [apc EXCEPT ![u] = [at |-> "add", eid |-> e]]
       /\ UNCHANGED ids
    \/ /\ apc[u].at = "add" /\ ids' = [ids EXCEPT ![u] = @ \cup {apc[u].eid}]
       /\ Step(u, IF st[u] # "open" THEN "out" ELSE IF data[u] THEN "read"
                  ELSE IF room[u] THEN "write" ELSE "out")
       /\ UNCHANGED tables
    \/ /\ apc[u].at = "read" /\ enable_read(u)
       /\ Step(u, IF room[u] THEN "write" ELSE "out") /\ UNCHANGED writes
    \/ /\ apc[u].at = "write" /\ enable_write(u) /\ apc' = [apc EXCEPT ![u] = Free] /\ UNCHANGED reads

\* epoll_remove_usock, removeEPoll: out of the socket's set, then out of the poll.  (The
\* two disable calls between them go over a set that does not hold the poll any more.)
Remove(u) ==
    \/ /\ apc[u].at = "out" /\ st[u] # "closed"
       /\ \E e \in polls : apc' = [apc EXCEPT ![u] = [at |-> "remove", eid |-> e]]
                           /\ ids' = [ids EXCEPT ![u] = (@ \ {e}) \cap polls]
       /\ UNCHANGED tables
    \/ /\ apc[u].at = "remove"
       /\ IF apc[u].eid \in polls THEN remove_usock(apc[u].eid, u) ELSE UNCHANGED tables
       /\ apc' = [apc EXCEPT ![u] = Free] /\ UNCHANGED ids

\* close removes the socket from its polls in order, up to one that was released: the
\* exception ends the loop.
Close(u) ==
    /\ apc[u].at = "out" /\ st[u] # "closed" /\ st' = [st EXCEPT ![u] = "closed"]
    /\ \E gone \in SUBSET ids[u] :
         /\ gone \subseteq polls /\ (gone = ids[u] \/ ~(ids[u] \subseteq polls))
         /\ in' = [e \in Eids |-> IF e \in gone THEN in[e] \ {u} ELSE in[e]]
         /\ out' = [e \in Eids |-> IF e \in gone THEN out[e] \ {u} ELSE out[e]]
         /\ reads' = [e \in Eids |-> IF e \in gone THEN reads[e] \ {u} ELSE reads[e]]
         /\ writes' = [e \in Eids |-> IF e \in gone THEN writes[e] \ {u} ELSE writes[e]]
    /\ UNCHANGED <<data, room, ids, apc>>

\* wait with no time limit looks every 10 ms; it ends with events, or with an exception
\* when its poll is gone or watches nothing.
Wait == \/ /\ waiter = Idle /\ \E e \in polls : waiter' = [wait |-> {e}, got |-> {}]
        \/ \E e \in waiter.wait :
             LET got == reads[e] \cup writes[e] IN
             /\ e \notin polls \/ in[e] \cup out[e] = {} \/ got # {}
             /\ waiter' = [wait |-> {}, got |-> IF e \in polls THEN got ELSE {}]
        \/ waiter.wait = {} /\ waiter # Idle /\ waiter' = Idle

WaitStep == Wait /\ UNCHANGED <<seed, polls, tables, ids, sockets, wpc, rpc, spc, apc>>

Next == \/ create \/ release
        \/ \E u \in Socks :
             \/ Worker(u) /\ UNCHANGED <<seed, polls, rpc, spc, apc, waiter>>
             \/ Reader(u) /\ UNCHANGED <<seed, polls, wpc, spc, apc, waiter>>
             \/ Sender(u) /\ UNCHANGED <<seed, polls, wpc, rpc, apc, waiter>>
             \/ (Add(u) \/ Remove(u)) /\ UNCHANGED <<seed, polls, sockets, wpc, rpc, spc, waiter>>
             \/ Close(u) /\ UNCHANGED <<seed, polls, wpc, rpc, spc, waiter>>
        \/ WaitStep

Spec == Init /\ [][Next]_vars /\ WF_vars(WaitStep)
-----------------------------------------------------------------------------
\* An event is reported only for a socket the poll watches, though events come from
\* threads that do not know what is added and removed meanwhile.
ReportedIsWatched == \A e \in Eids : reads[e] \subseteq in[e] /\ writes[e] \subseteq out[e]

\* A thread that waits for ever in a poll comes back when the poll is released.
ReleasedWaitEnds == \A e \in Eids : (e \in waiter.wait /\ e \notin polls)
                                      ~> waiter.wait = {}
=============================================================================
