---------------------------- MODULE UDTConnecting ----------------------------
(***************************************************************************)
(* The sockets of a process that connects (udt/src/api.cpp, core.cpp,        *)
(* queue.cpp): every thread starts UDT up, connects a socket of its own,     *)
(* closes it or not, and cleans up; each socket has a multiplexer and a      *)
(* worker that receives; one thread collects sockets until the last instance *)
(* is cleaned up.  What the network brings, a late, repeated or lost answer  *)
(* included, may come at any time.                                           *)
(***************************************************************************)
EXTENDS Integers, FiniteSets

CONSTANT Client        \* the sockets that connect, one thread each

VARIABLES socks,     \* CUDTSocket and CUDT of every socket
          thread,    \* where its thread is
          connRes,   \* m_ConnRes: the last answer
          count,     \* m_iInstanceCount
          gc         \* the collecting thread: off, on, final, draining

connVars == <<socks, thread, connRes, count, gc>>

\* where: in m_Sockets (open), in m_ClosedSockets, deleted, or not made yet;
\* live: connected, and neither broken nor closing; leaving: within close.
Init == /\ socks = [c \in Client |-> [status |-> "NONEXIST", where |-> "none", live |-> FALSE,
                                      broken |-> FALSE, onList |-> FALSE, leaving |-> FALSE]]
        /\ thread = [c \in Client |-> "out"] /\ connRes = [c \in Client |-> "none"]
        /\ count = 0 /\ gc = "off"

Located(c) == socks[c].where = "open" /\ socks[c].status # "CLOSED"

Goes(c, pc) == thread' = [thread EXCEPT ![c] = pc]
-----------------------------------------------------------------------------

\* startup and cleanup hold m_InitLock, cleanup until the collecting thread has ended.
startup(c) == /\ thread[c] = "out" /\ gc \in {"off", "on"}
              /\ Goes(c, "in")
              /\ count' = count + 1 /\ gc' = "on"
              /\ UNCHANGED <<socks, connRes>>

newSocket(c) == /\ thread[c] = "in"
                /\ Goes(c, "made")
                /\ socks' = [socks EXCEPT ![c].status = "INIT", ![c].where = "open"]
                /\ UNCHANGED <<connRes, count, gc>>

\* A multiplexer of its own, and the first request.
connect(c) == /\ thread[c] = "made"
              /\ Goes(c, "connecting")
              /\ socks' = [socks EXCEPT ![c].status = "CONNECTING"]
              /\ UNCHANGED <<connRes, count, gc>>

Failed(answer) == answer \in {"none", "reject"}

\* A packet for the socket.  A cookie asks for another request; any other handshake,
\* a rejection too, connects the socket; a packet that is no handshake (a shutdown
\* or a keep-alive that overtook it) ends the call as well, which then succeeds if
\* the last handshake was good.
ConnectGets(c, m) ==
    LET ends == /\ Goes(c, IF Failed(connRes'[c]) THEN "failed" ELSE "up")
                /\ socks' = [socks EXCEPT ![c].live = m # "other", ![c].onList = m # "other",
                               ![c].status = CASE Failed(connRes'[c]) -> "OPENED"
                                               [] m = "other" /\ ~Failed(connRes'[c]) -> @
                                               [] OTHER -> "CONNECTED"]
    IN /\ thread[c] = "connecting"
       /\ connRes' = IF m = "other" THEN connRes ELSE [connRes EXCEPT ![c] = m]
       /\ IF m = "cookie" THEN UNCHANGED <<socks, thread>> ELSE ends
       /\ UNCHANGED <<count, gc>>

ConnectTimesOut(c) == /\ thread[c] = "connecting"
                      /\ Goes(c, "failed")
                      /\ socks' = [socks EXCEPT ![c].status = "OPENED"]
                      /\ UNCHANGED <<connRes, count, gc>>

\* close: CUDT::close, and then the move under m_ControlLock.
CloseCore(c) == /\ thread[c] \in {"up", "failed"} /\ ~socks[c].leaving
                /\ IF Located(c)
                   THEN /\ socks' = [socks EXCEPT ![c].live = FALSE, ![c].leaving = TRUE]
                        /\ UNCHANGED thread
                   ELSE Goes(c, "closed") /\ UNCHANGED socks
                /\ UNCHANGED <<connRes, count, gc>>

CloseMove(c) == /\ socks[c].leaving
                /\ socks' = [socks EXCEPT ![c] =
                               IF Located(c) THEN [@ EXCEPT !.status = "CLOSED", !.where = "closed",
                                                            !.leaving = FALSE]
                               ELSE [@ EXCEPT !.leaving = FALSE]]
                /\ Goes(c, "closed")
                /\ UNCHANGED <<connRes, count, gc>>

\* The last one out stops the collecting thread and waits for it.
cleanup(c) == /\ thread[c] \in {"up", "failed", "closed"} /\ ~socks[c].leaving /\ gc = "on"
              /\ count' = count - 1
              /\ IF count' > 0 THEN Goes(c, "done") /\ UNCHANGED gc
                 ELSE Goes(c, "cleaning") /\ gc' = "final"
              /\ UNCHANGED <<socks, connRes>>

\* A caller that gives up on an error leaves the socket and the instance behind.
Abandon(c) == /\ thread[c] \in {"up", "failed"} /\ ~socks[c].leaving
              /\ Goes(c, "gone")
              /\ UNCHANGED <<socks, connRes, count, gc>>
-----------------------------------------------------------------------------
\* The worker: a shutdown arrives, or checkTimers has heard nothing for too long; and
\* a socket that is not live any more leaves the hash table and the list.
Break(c) == /\ socks[c].live
            /\ socks' = [socks EXCEPT ![c].live = FALSE, ![c].broken = TRUE]
            /\ UNCHANGED <<thread, connRes, count, gc>>

Unlist(c) == /\ socks[c].onList /\ ~socks[c].live
             /\ socks' = [socks EXCEPT ![c].onList = FALSE]
             /\ UNCHANGED <<thread, connRes, count, gc>>
-----------------------------------------------------------------------------
(* The collecting thread: checkBrokenSockets, removeSocket, garbageCollect. *)

Collecting == gc \in {"on", "draining"}

CloseBroken(c) == /\ Collecting /\ socks[c].where = "open" /\ socks[c].broken
                  /\ socks' = [socks EXCEPT ![c].status = "CLOSED", ![c].where = "closed"]
                  /\ UNCHANGED <<thread, connRes, count, gc>>

\* A second after it was closed, when a close of it has ended.
removeSocket(c) == /\ Collecting /\ socks[c].where = "closed"
                   /\ ~socks[c].onList /\ ~socks[c].leaving
                   /\ socks' = [socks EXCEPT ![c].where = "deleted"]
                   /\ UNCHANGED <<thread, connRes, count, gc>>

\* Mutant: CUDT::close is not called, so that the socket stays live.
CloseAll_Live == /\ gc = "final" /\ gc' = "draining"
                 /\ socks' = [c \in Client |->
                                IF socks[c].where = "open"
                                THEN [socks[c] EXCEPT !.status = "CLOSED", !.where = "closed"]
                                ELSE socks[c]]
                 /\ UNCHANGED <<thread, connRes, count>>

\* At the end everything that is open is broken and closed.
CloseAll == /\ gc = "final" /\ gc' = "draining"
            /\ socks' = [c \in Client |->
                           IF socks[c].where = "open"
                           THEN [socks[c] EXCEPT !.live = FALSE, !.broken = TRUE,
                                                 !.status = "CLOSED", !.where = "closed"]
                           ELSE socks[c]]
            /\ UNCHANGED <<thread, connRes, count>>

Drained == /\ gc = "draining" /\ \A c \in Client : socks[c].where # "closed"
           /\ gc' = "off"
           /\ thread' = [c \in Client |-> IF thread[c] = "cleaning" THEN "done" ELSE thread[c]]
           /\ UNCHANGED <<socks, connRes, count>>
-----------------------------------------------------------------------------
Collects(c) == CloseBroken(c) \/ removeSocket(c)

Next == \/ \E c \in Client :
             \/ startup(c) \/ newSocket(c) \/ connect(c) \/ ConnectTimesOut(c)
             \/ \E m \in {"cookie", "accept", "reject", "other"} : ConnectGets(c, m)
             \/ CloseCore(c) \/ CloseMove(c) \/ cleanup(c) \/ Abandon(c)
             \/ Break(c) \/ Unlist(c) \/ Collects(c)
        \/ CloseAll \/ Drained

\* The workers and the collector loop, connect has a time limit, and close and cleanup
\* end once nothing holds them up.
Fairness == /\ \A c \in Client : /\ WF_connVars(ConnectTimesOut(c)) /\ WF_connVars(CloseMove(c))
                                 /\ WF_connVars(Unlist(c)) /\ WF_connVars(Collects(c))
            /\ WF_connVars(CloseAll) /\ WF_connVars(Drained)

Spec == Init /\ [][Next]_connVars /\ Fairness
-----------------------------------------------------------------------------
\* The variables are what the code keeps in them (CUDTUnited and CUDTSocket, api.h).
TypeOK == /\ socks \in [Client -> [status : {"NONEXIST", "INIT", "OPENED", "CONNECTING",
                                            "CONNECTED", "CLOSED"},
                                   where : {"none", "open", "closed", "deleted"},
                                   live : BOOLEAN, broken : BOOLEAN, onList : BOOLEAN,
                                   leaving : BOOLEAN]]
          /\ thread \in [Client -> {"out", "in", "made", "connecting", "up", "failed", "gone",
                                    "closed", "cleaning", "done"}]
          /\ connRes \in [Client -> {"none", "cookie", "accept", "reject"}]
          /\ count \in Nat /\ gc \in {"off", "on", "final", "draining"}

\* Every socket of the process is closed under the callers' feet only when no caller is
\* left: not one that waits in connect, with whose locks the collecting thread would
\* deadlock, and not one that still has a socket to use.
FinalAlone == gc \in {"final", "draining"}
                => \A c \in Client : thread[c] \in {"out", "cleaning", "done"}

\* When the library is off again nothing of it is left, not even the sockets whose
\* callers never closed them: what the worker still served has been let go of.
OffMeansGone == gc = "off" => \A c \in Client : socks[c].where \in {"none", "deleted"}

\* The last cleanup, which waits for the collecting thread, returns; nobody is
\* deleted before the worker let go of it, and the worker always does.
CleanupReturns == \A c \in Client : thread[c] = "cleaning" ~> thread[c] = "done"

\* A socket that a thread closed, or that broke, is deleted in the end.
Collected == \A c \in Client : socks[c].broken \/ socks[c].where = "closed"
                                 ~> socks[c].where = "deleted"
=============================================================================
