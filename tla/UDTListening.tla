---------------------------- MODULE UDTListening ----------------------------
(***************************************************************************)
(* The sockets of a process that listens (udt/src/api.cpp, core.cpp,         *)
(* queue.cpp): a thread binds, listens and accepts, others close what was    *)
(* accepted or the listener, the worker that receives answers connection     *)
(* requests and makes a socket for each new one, and a thread collects       *)
(* broken and closed sockets.  All share one multiplexer.  An action ends    *)
(* where a lock is released or a thread waits.  The network repeats, delays  *)
(* and loses: a request of any peer may arrive at any time.                  *)
(***************************************************************************)
EXTENDS Integers, FiniteSets, FiniteSetsExt

CONSTANTS Peer,        \* the sockets elsewhere that connect, each with one request
          MaxId,       \* m_SocketID of the listener; a new socket gets the next below
          BackLog,     \* m_uiBackLog
          NoPeer       \* of a socket without a connection

ASSUME ListeningAssumption == /\ MaxId \in Nat \ {0} /\ BackLog \in Nat \ {0}
                              /\ NoPeer \notin Peer

Listener == MaxId
Server == 0..(MaxId - 1)
Socket == Server \cup {Listener}

VARIABLES sock,      \* CUDTSocket and CUDT of every socket
          muxRef,    \* m_iRefCount of the multiplexer
          nextId,    \* CUDTUnited::m_SocketID
          queued,    \* m_pQueuedSockets of the listener
          accepted,  \* m_pAcceptSockets
          worker,    \* the request the receiving worker is busy with
          acceptor,  \* the thread that calls accept
          returned   \* the sockets accept has returned and nobody closed yet

handshake == <<nextId, worker>>
accepting == <<queued, accepted, acceptor, returned>>
vars == <<sock, muxRef, handshake, accepting>>

\* where: in m_Sockets (open), in m_ClosedSockets, deleted, or not made yet;
\* live: connected, and neither broken nor closing; leaving: within close.
NoSocket == [status |-> "NONEXIST", where |-> "none", live |-> FALSE, broken |-> FALSE,
             onList |-> FALSE, leaving |-> FALSE, peer |-> NoPeer]

Idle == [pc |-> "idle"]

Init == /\ sock = [s \in Socket |-> IF s # Listener THEN NoSocket
                                    ELSE [NoSocket EXCEPT !.status = "INIT", !.where = "open"]]
        /\ muxRef = 0 /\ nextId = MaxId /\ worker = Idle
        /\ queued = {} /\ accepted = {} /\ acceptor = Idle /\ returned = {}
-----------------------------------------------------------------------------
\* locate by number.
Located(s) == sock[s].where = "open" /\ sock[s].status # "CLOSED"

\* Mutant: only among what waits to be accepted.
OfPeer_Queued(p) == {s \in queued : sock[s].where = "open" /\ sock[s].peer = p}

\* locate by peer: of the sockets m_PeerRec lists for it the first in m_Sockets.
OfPeer(p) == {s \in Server : sock[s].where = "open" /\ sock[s].peer = p}
FirstOfPeer(p) == Min(OfPeer(p))

\* CUDT::connect of a new socket to the peer that asked; it sends the answer.
Connection(p) == [NoSocket EXCEPT !.status = "CONNECTED", !.live = TRUE, !.onList = TRUE,
                                  !.peer = p]

updateMux == muxRef' = muxRef + 1

Listening == sock[Listener].status = "LISTENING" /\ ~sock[Listener].broken
-----------------------------------------------------------------------------
(* The callers. *)

bind == /\ sock[Listener].status = "INIT"
        /\ sock' = [sock EXCEPT ![Listener].status = "OPENED"]
        /\ updateMux
        /\ UNCHANGED <<handshake, accepting>>

listen == /\ sock[Listener].status = "OPENED"
          /\ sock' = [sock EXCEPT ![Listener].status = "LISTENING"]
          /\ UNCHANGED <<muxRef, handshake, accepting>>

\* accept, once under m_AcceptLock: the smallest number is the newest connection.
AcceptTakes == /\ acceptor.pc \in {"idle", "awake"}
               /\ sock[Listener].status \notin {"INIT", "OPENED"}
               /\ IF ~Listening
                  THEN acceptor' = [pc |-> "stopped"] /\ UNCHANGED <<queued, accepted>>
                  ELSE IF queued = {}
                  THEN acceptor' = [pc |-> "waiting"] /\ UNCHANGED <<queued, accepted>>
                  ELSE /\ acceptor' = [pc |-> "took", id |-> Min(queued)]
                       /\ accepted' = accepted \cup {Min(queued)}
                       /\ queued' = queued \ {Min(queued)}
               /\ UNCHANGED <<sock, muxRef, handshake, returned>>

\* The address of the peer is copied from the socket, located once more: a null
\* pointer if it was closed in between.
AcceptReturns == /\ acceptor.pc = "took"
                 /\ IF Located(acceptor.id)
                    THEN returned' = returned \cup {acceptor.id} /\ acceptor' = Idle
                    ELSE acceptor' = [pc |-> "crashed"] /\ UNCHANGED returned
                 /\ UNCHANGED <<sock, muxRef, handshake, queued, accepted>>

Awakened == IF acceptor.pc = "waiting" THEN [pc |-> "awake"] ELSE acceptor

\* close of the listener: it breaks, and whoever waits in accept is told.
CloseListener == /\ Listening
                 /\ sock' = [sock EXCEPT ![Listener].broken = TRUE]
                 /\ acceptor' = Awakened
                 /\ UNCHANGED <<muxRef, handshake, queued, accepted, returned>>

\* close of a connection: CUDT::close, and then the move under m_ControlLock.
CloseCore(s) == /\ s \in returned /\ ~sock[s].leaving
                /\ IF Located(s)
                   THEN /\ sock' = [sock EXCEPT ![s].live = FALSE, ![s].leaving = TRUE]
                        /\ UNCHANGED returned
                   ELSE returned' = returned \ {s} /\ UNCHANGED sock
                /\ UNCHANGED <<muxRef, handshake, queued, accepted, acceptor>>

CloseMove(s) == /\ sock[s].leaving
                /\ sock' = [sock EXCEPT ![s] =
                              IF Located(s) THEN [@ EXCEPT !.status = "CLOSED", !.where = "closed",
                                                           !.leaving = FALSE]
                              ELSE [@ EXCEPT !.leaving = FALSE]]
                /\ returned' = returned \ {s}
                /\ UNCHANGED <<muxRef, handshake, queued, accepted, acceptor>>
-----------------------------------------------------------------------------
(* The receiving worker: CUDT::listen and newConnection.  Answers are not state. *)

\* A request with the right cookie.  A listener that is closed, or has the
\* connection already, only answers.  Bound: there are numbers left.
Answer(p) == LET old == FirstOfPeer(p) IN
             /\ nextId > 0 /\ worker = Idle /\ Located(Listener) /\ sock[Listener].status = "LISTENING"
             /\ IF OfPeer(p) = {}
                THEN worker' = [pc |-> "admit", peer |-> p] /\ UNCHANGED sock
                ELSE /\ sock[old].broken
                     /\ sock' = [sock EXCEPT ![old].status = "CLOSED"]
                     /\ worker' = [pc |-> "dequeue", peer |-> p, id |-> old]
             /\ UNCHANGED <<muxRef, nextId, accepting>>

\* The last connection of the peer is broken and leaves the queue.
Dequeue == /\ worker.pc = "dequeue"
           /\ queued' = queued \ {worker.id} /\ accepted' = accepted \ {worker.id}
           /\ worker' = [pc |-> "admit", peer |-> worker.peer]
           /\ UNCHANGED <<sock, muxRef, nextId, acceptor, returned>>

\* Refused if the queue is full; otherwise a connected socket that answers.
Admit == /\ worker.pc = "admit"
         /\ IF Cardinality(queued) >= BackLog
            THEN worker' = Idle /\ UNCHANGED <<sock, muxRef, nextId>>
            ELSE LET s == nextId - 1 IN
                 /\ nextId' = s
                 /\ sock' = [sock EXCEPT ![s] = Connection(worker.peer)]
                 /\ updateMux
                 /\ worker' = [pc |-> "insert", id |-> s]
         /\ UNCHANGED accepting

\* m_Sockets and m_PeerRec, under m_ControlLock.
InsertNew == /\ worker.pc = "insert"
             /\ sock' = [sock EXCEPT ![worker.id].where = "open"]
             /\ worker' = [worker EXCEPT !.pc = "queue"]
             /\ UNCHANGED <<muxRef, nextId, accepting>>

\* Mutant: accept is not told.
QueueNew_Silent == /\ worker.pc = "queue"
                   /\ queued' = queued \cup {worker.id}
                   /\ worker' = Idle
                   /\ UNCHANGED <<sock, muxRef, nextId, accepted, acceptor, returned>>

\* The queue of the listener, under m_AcceptLock, and a signal to accept.
QueueNew == /\ worker.pc = "queue"
            /\ queued' = queued \cup {worker.id}
            /\ acceptor' = Awakened
            /\ worker' = Idle
            /\ UNCHANGED <<sock, muxRef, nextId, accepted, returned>>

\* The worker serves its other sockets between requests: a shutdown arrives, or
\* checkTimers has heard nothing for too long.
Break(s) == /\ worker = Idle /\ sock[s].live
            /\ sock' = [sock EXCEPT ![s].live = FALSE, ![s].broken = TRUE]
            /\ UNCHANGED <<muxRef, handshake, accepting>>

\* Mutant: only a socket that broke leaves the list, not one that was closed.
Unlist_Broken(s) == /\ worker = Idle /\ sock[s].onList /\ sock[s].broken
                    /\ sock' = [sock EXCEPT ![s].onList = FALSE]
                    /\ UNCHANGED <<muxRef, handshake, accepting>>

\* A socket that is not live any more leaves the hash table and the list.
Unlist(s) == /\ worker = Idle /\ sock[s].onList /\ ~sock[s].live
             /\ sock' = [sock EXCEPT ![s].onList = FALSE]
             /\ UNCHANGED <<muxRef, handshake, accepting>>
-----------------------------------------------------------------------------
(* The collecting thread: checkBrokenSockets and removeSocket. *)

\* Mutant: the queue of the listener is forgotten.
CloseBroken_KeepsQueue(s) == /\ sock[s].where = "open" /\ sock[s].broken
                             /\ sock' = [sock EXCEPT ![s].status = "CLOSED", ![s].where = "closed"]
                             /\ UNCHANGED <<muxRef, handshake, accepting>>

\* A listener waits three more seconds, a socket with data until it was read.
CloseBroken(s) == /\ sock[s].where = "open" /\ sock[s].broken
                  /\ sock' = [sock EXCEPT ![s].status = "CLOSED", ![s].where = "closed"]
                  /\ queued' = queued \ {s} /\ accepted' = accepted \ {s}
                  /\ UNCHANGED <<muxRef, handshake, acceptor, returned>>

\* A second after it was closed, when the calls that were using it have ended.
Unused(s) == /\ ~sock[s].leaving /\ acceptor # [pc |-> "took", id |-> s]
             /\ s = Listener => worker = Idle /\ acceptor.pc # "awake"

\* A listener takes the connections that nobody accepted along.
removeSocket(s) ==
    LET waiting == IF s = Listener THEN queued ELSE {} IN
    /\ sock[s].where = "closed" /\ ~sock[s].onList /\ Unused(s)
    /\ sock' = [q \in Socket |->
                  IF q = s THEN [sock[q] EXCEPT !.live = FALSE, !.where = "deleted"]
                  ELSE IF q \in waiting
                  THEN [sock[q] EXCEPT !.live = FALSE, !.broken = TRUE, !.status = "CLOSED",
                                       !.where = "closed"]
                  ELSE sock[q]]
    /\ muxRef' = muxRef - 1
    /\ queued' = queued \ waiting
    /\ accepted' = IF s = Listener THEN {} ELSE accepted
    /\ UNCHANGED <<handshake, acceptor, returned>>
-----------------------------------------------------------------------------
Crashed == acceptor.pc = "crashed"

Accepts == AcceptTakes \/ AcceptReturns
Receives == Dequeue \/ Admit \/ InsertNew \/ QueueNew
Collects(s) == CloseBroken(s) \/ removeSocket(s)

Next == /\ ~Crashed
        /\ \/ bind \/ listen \/ Accepts \/ CloseListener \/ Receives
           \/ \E p \in Peer : Answer(p)
           \/ \E s \in Server : CloseCore(s) \/ CloseMove(s) \/ Break(s) \/ Unlist(s)
           \/ \E s \in Socket : Collects(s)

\* Threads that run go on: the worker and the collector loop, accept and close end
\* once nothing holds them up.  When a caller closes is left open.
Fairness == /\ WF_vars(~Crashed /\ Accepts) /\ WF_vars(~Crashed /\ Receives)
            /\ \A s \in Server : WF_vars(~Crashed /\ CloseMove(s)) /\ WF_vars(~Crashed /\ Unlist(s))
            /\ \A s \in Socket : WF_vars(~Crashed /\ Collects(s))

Spec == Init /\ [][Next]_vars /\ Fairness
-----------------------------------------------------------------------------
SocketRecord ==
    [status : {"NONEXIST", "INIT", "OPENED", "LISTENING", "CONNECTED", "CLOSED"},
     where : {"none", "open", "closed", "deleted"}, peer : Peer \cup {NoPeer},
     live : BOOLEAN, broken : BOOLEAN, onList : BOOLEAN, leaving : BOOLEAN]

\* The variables are what the code keeps in them (CUDTUnited and CUDTSocket, api.h).
TypeOK == /\ sock \in [Socket -> SocketRecord]
          /\ muxRef \in 0..(MaxId + 1) /\ nextId \in 0..MaxId
          /\ queued \subseteq Server /\ accepted \subseteq Server /\ returned \subseteq Server
          /\ worker.pc \in {"idle", "dequeue", "admit", "insert", "queue"}
          /\ acceptor.pc \in {"idle", "awake", "waiting", "took", "stopped", "crashed"}

\* However often a request is repeated, and whatever breaks and is collected between
\* its copies, it leads to one working connection at most (newConnection looks the
\* peer up before it makes a socket).
OneLive == \A s, t \in Server : s # t /\ sock[s].live /\ sock[t].live => sock[s].peer # sock[t].peer

\* What waits to be accepted is in m_Sockets, where removeSocket of the listener looks
\* it up without asking whether it is there, and nothing is handed out twice.
QueuedAreOpen == /\ \A s \in queued : sock[s].where = "open"
                 /\ queued \cap (returned \cup accepted) = {}

\* The multiplexer, with the threads that serve it, lives exactly as long as sockets
\* use it: its count is the number of those updateMux has bound to it and removeSocket
\* has not deleted.
MuxCounts == muxRef = Cardinality({s \in Socket : sock[s].status \notin {"NONEXIST", "INIT"}
                                                  /\ sock[s].where # "deleted"})

\* A closed socket is deleted in the end, though the worker has to let go of it first.
Collected == \A s \in Socket : sock[s].where = "closed" ~> sock[s].where = "deleted" \/ Crashed

\* A connection that waits is accepted, or closed with its listener: no wake-up is
\* lost between newConnection and accept.
QueuedIsAccepted == \A s \in Server : s \in queued ~> s \notin queued \/ Crashed
=============================================================================
