------------------------ MODULE UDTSocketsProofs ------------------------
(***************************************************************************)
(* The processes of MCUDTSockets for every number of sockets, peers and      *)
(* threads.  However often peers repeat their requests, and whatever breaks, *)
(* is accepted, closed and collected between: a peer has one working         *)
(* connection at most, what waits to be accepted is open and is handed out   *)
(* once, and the multiplexer lives exactly as long as sockets use it.        *)
(***************************************************************************)
EXTENDS MCUDTSockets, FiniteSetTheorems, WellFoundedInduction, TLAPS

WorkerStates == {Idle} \cup [pc : {"admit"}, peer : Peer]
                \cup [pc : {"dequeue"}, peer : Peer, id : Server]
                \cup [pc : {"insert", "queue"}, id : Server]

AcceptorStates == [pc : {"idle", "awake", "waiting", "stopped", "crashed"}]
                  \cup [pc : {"took"}, id : Server]

Types == /\ sock \in [Socket -> SocketRecord]
         /\ nextId \in 0..MaxId
         /\ queued \in SUBSET Server /\ accepted \in SUBSET Server /\ returned \in SUBSET Server
         /\ worker \in WorkerStates /\ acceptor \in AcceptorStates

\* The socket the worker has connected and not put into the queue yet; the one accept
\* has taken out of it; those that left newConnection.
Fresh(s) == worker.pc \in {"insert", "queue"} /\ worker.id = s
Taken(s) == acceptor.pc = "took" /\ acceptor.id = s
Known(s) == s \in queued \cup accepted \cup returned \/ Taken(s)

\* A number that was not given out has no socket; the others have a peer.
Made(s) == /\ s < nextId => sock[s] = NoSocket
           /\ s >= nextId => /\ sock[s].peer \in Peer
                             /\ sock[s].status \in {"CONNECTED", "CLOSED"}
                             /\ sock[s].where # "none" \/ Fresh(s)

\* What works has not been touched by close or the collector.
Lives(s) == sock[s].live => /\ ~sock[s].broken /\ ~sock[s].leaving
                            /\ sock[s].where \in {"none", "open"}

Leaves(s) == sock[s].leaving => s \in returned

\* What waits in the queue is open and was not handed out.
Waits(s) == s \in queued => /\ sock[s].where = "open"
                            /\ s \notin accepted /\ s \notin returned /\ ~Taken(s)

Numbered(s) == Known(s) => s >= nextId

\* What newConnection is busy with works, and nobody else knows it.
Comes(s) == Fresh(s) => /\ s = nextId /\ sock[s].live /\ ~Known(s)
                        /\ sock[s].where = IF worker.pc = "insert" THEN "none" ELSE "open"

ServerOK(s) == Made(s) /\ Lives(s) /\ Leaves(s) /\ Waits(s) /\ Numbered(s) /\ Comes(s)

ListenerOK == LET l == sock[Listener] IN
              /\ ~l.live /\ ~l.leaving /\ l.where # "none" /\ l.status # "NONEXIST"
              /\ l.status \in {"INIT", "OPENED"} => l.where = "open" /\ ~l.broken

\* Of the sockets of one peer only the newest, which has the smallest number, works,
\* and none while the worker is about to make a newer one.
Newest(s, t) == sock[s].live /\ sock[t].peer = sock[s].peer => s <= t
Admits == worker.pc \in {"dequeue", "admit"}
            => /\ nextId > 0
               /\ \A s \in Server : sock[s].peer = worker.peer => ~sock[s].live

\* What updateMux has bound to the multiplexer and removeSocket has not deleted.
Bound == {s \in Socket : sock[s].status \notin {"NONEXIST", "INIT"} /\ sock[s].where # "deleted"}

Inv == /\ Types /\ ListenerOK /\ Admits /\ MuxCounts
       /\ \A s \in Server : ServerOK(s)
       /\ \A s, t \in Server : Newest(s, t)
-----------------------------------------------------------------------------
(* Numbers, and the states of the two threads.                               *)

Less == {p \in Nat \X Nat : p[1] < p[2]}

LEMMA LessWellFounded == IsWellFoundedOn(Less, Nat)
  BY NatLessThanWellFounded, Zenon DEF OpToRel, Less

\* A set of numbers has a least one.
LEMMA MinIs ==
    ASSUME NEW S \in SUBSET Nat, S # {}
    PROVE  Min(S) \in S /\ \A x \in S : Min(S) <= x
<1>1. PICK x \in S : \A y \in S : ~(<<y, x>> \in Less)
  BY LessWellFounded, WFMin
<1>2. \A y \in S : x <= y
  <2> TAKE y \in S
  <2>1. <<y, x>> \in Nat \X Nat /\ <<y, x>>[1] = y /\ <<y, x>>[2] = x
    OBVIOUS
  <2>2. ~(y < x)
    BY <1>1, <2>1, Zenon DEF Less
  <2> QED
    BY <2>2
<1> QED
  BY <1>2, Zenon DEF Min

LEMMA Numbers ==
    /\ Listener \in Socket /\ Listener \notin Server /\ Server \subseteq Nat
    /\ Server \subseteq Socket /\ \A s \in Socket : s # Listener => s \in Server
  BY ListeningAssumption DEF Socket, Server, Listener

LEMMA WorkerIs ==
    ASSUME worker \in WorkerStates
    PROVE  /\ worker = Idle \/ worker.pc \in {"admit", "dequeue", "insert", "queue"}
           /\ worker.pc \in {"admit", "dequeue"} => worker # Idle /\ worker.peer \in Peer
           /\ worker.pc \in {"dequeue", "insert", "queue"} => worker # Idle /\ worker.id \in Server
           /\ Idle.pc = "idle"
  BY DEF WorkerStates, Idle

LEMMA AcceptorIs ==
    ASSUME acceptor \in AcceptorStates
    PROVE  /\ acceptor.pc \in {"idle", "awake", "waiting", "took", "stopped", "crashed"}
           /\ acceptor.pc = "took" => acceptor.id \in Server
           /\ Awakened \in AcceptorStates
           /\ \A s : Awakened.pc = "took" /\ Awakened.id = s <=> acceptor.pc = "took" /\ acceptor.id = s
  BY DEF AcceptorStates, Awakened

\* A socket in the place of another.
LEMMA Replaced ==
    ASSUME Types, NEW s \in Socket, NEW new \in SocketRecord, sock' = [sock EXCEPT ![s] = new]
    PROVE  /\ sock' \in [Socket -> SocketRecord]
           /\ sock'[s] = new /\ \A t \in Socket : t # s => sock'[t] = sock[t]
  BY DEF Types

LEMMA SocketIs ==
    ASSUME Types, NEW s \in Socket
    PROVE  sock[s] \in SocketRecord
  BY DEF Types
-----------------------------------------------------------------------------
LEMMA InitInv == Init => Inv
<1> SUFFICES ASSUME Init PROVE Inv
  OBVIOUS
<1> USE ListeningAssumption, Numbers
<1>1. NoSocket \in SocketRecord /\ [NoSocket EXCEPT !.status = "INIT", !.where = "open"] \in SocketRecord
  BY DEF NoSocket, SocketRecord
<1>2. sock \in [Socket -> SocketRecord]
  BY <1>1 DEF Init
<1>3. Idle \in WorkerStates /\ Idle \in AcceptorStates /\ Idle.pc = "idle"
  BY DEF WorkerStates, AcceptorStates, Idle
<1>4. Types
  BY <1>2, <1>3 DEF Init, Types
<1>5. ListenerOK
  BY DEF Init, ListenerOK, NoSocket
<1>6. Admits
  BY <1>3 DEF Init, Admits
<1>7. ASSUME NEW s \in Server PROVE ServerOK(s) /\ sock[s].live = FALSE
  <2>1. sock[s] = NoSocket /\ s < nextId
    BY DEF Init, Server, Listener
  <2>2. ~Fresh(s) /\ ~Known(s)
    BY <1>3 DEF Init, Fresh, Known, Taken
  <2> QED
    BY <2>1, <2>2 DEF ServerOK, Made, Lives, Leaves, Waits, Numbered, Comes, NoSocket, Server, Init
<1>8. MuxCounts
  <2>1. Bound = {}
    BY DEF Init, Bound, NoSocket
  <2> QED
    BY <2>1, FS_EmptySet DEF MuxCounts, Bound, Init
<1> QED
  BY <1>4, <1>5, <1>6, <1>7, <1>8 DEF Inv, Newest
-----------------------------------------------------------------------------
(* What most steps leave alone.                                              *)

\* A step gives nobody a connection: all but Admit.
Calmer == \A s \in Server : sock'[s].peer = sock[s].peer /\ (sock'[s].live => sock[s].live)

LEMMA CalmNewest ==
    ASSUME Inv, Calmer
    PROVE  \A s, t \in Server : Newest(s, t)'
  BY DEF Inv, Calmer, Newest

LEMMA CalmAdmits ==
    ASSUME Inv, Calmer, UNCHANGED <<nextId, worker>> \/ worker'.pc \notin {"dequeue", "admit"}
    PROVE  Admits'
  BY DEF Inv, Calmer, Admits

LEMMA BoundFinite == IsFiniteSet(Socket) /\ Cardinality(Socket) = MaxId + 1 /\ IsFiniteSet(Bound)
<1>1. Socket = 0..MaxId
  BY ListeningAssumption DEF Socket, Server, Listener
<1>2. IsFiniteSet(Socket) /\ Cardinality(Socket) = MaxId + 1
  BY <1>1, FS_Interval, ListeningAssumption
<1> QED
  BY <1>2, FS_Subset DEF Bound

LEMMA SameBound ==
    ASSUME MuxCounts, Bound' = Bound, muxRef' = muxRef
    PROVE  MuxCounts'
  BY DEF MuxCounts, Bound

\* updateMux, and the end of a socket.
LEMMA OneMore ==
    ASSUME MuxCounts, NEW s, s \notin Bound, Bound' = Bound \cup {s}, muxRef' = muxRef + 1
    PROVE  MuxCounts'
<1>1. Cardinality(Bound') = Cardinality(Bound) + 1
  BY BoundFinite, FS_AddElement
<1> QED
  BY <1>1 DEF MuxCounts, Bound

LEMMA OneLess ==
    ASSUME MuxCounts, NEW s, s \in Bound, Bound' = Bound \ {s}, muxRef' = muxRef - 1
    PROVE  MuxCounts'
<1>1. Cardinality(Bound') = Cardinality(Bound) - 1
  BY BoundFinite, FS_RemoveElement
<1> QED
  BY <1>1 DEF MuxCounts, Bound
-----------------------------------------------------------------------------
(* The listener, and accept.                                                 *)

LEMMA ListenerInv ==
    ASSUME Inv, bind \/ listen \/ CloseListener
    PROVE  Inv'
<1> USE Numbers
<1>1. PICK new \in SocketRecord : /\ sock' = [sock EXCEPT ![Listener] = new]
                                  /\ ~new.live /\ ~new.leaving /\ new.where = sock[Listener].where
                                  /\ new.status \in {"OPENED", "LISTENING"}
                                  /\ new.broken = sock[Listener].broken \/ new.status = "LISTENING"
                                  /\ sock[Listener].status = "INIT" => muxRef' = muxRef + 1
                                  /\ sock[Listener].status # "INIT" => muxRef' = muxRef
                                  /\ new.status = "OPENED" => sock[Listener].status = "INIT"
  <2>0. sock[Listener] \in SocketRecord /\ ~sock[Listener].live /\ ~sock[Listener].leaving
    BY SocketIs DEF Inv, ListenerOK
  <2>1. CASE bind
    <3> DEFINE new == [sock[Listener] EXCEPT !.status = "OPENED"]
    <3>1. new \in SocketRecord /\ sock' = [sock EXCEPT ![Listener] = new]
      BY <2>0, <2>1 DEF bind, SocketRecord
    <3> QED
      BY <2>0, <2>1, <3>1 DEF bind, SocketRecord, updateMux
  <2>2. CASE listen
    <3> DEFINE new == [sock[Listener] EXCEPT !.status = "LISTENING"]
    <3>1. new \in SocketRecord /\ sock' = [sock EXCEPT ![Listener] = new]
      BY <2>0, <2>2 DEF listen, SocketRecord
    <3> QED
      BY <2>0, <2>2, <3>1 DEF listen, SocketRecord
  <2>3. CASE CloseListener
    <3> DEFINE new == [sock[Listener] EXCEPT !.broken = TRUE]
    <3>1. new \in SocketRecord /\ sock' = [sock EXCEPT ![Listener] = new]
      BY <2>0, <2>3 DEF CloseListener, SocketRecord
    <3> QED
      BY <2>0, <2>3, <3>1 DEF CloseListener, Listening, SocketRecord
  <2> QED
    BY <2>1, <2>2, <2>3
<1>2. UNCHANGED <<nextId, worker, queued, accepted, returned>>
  BY DEF bind, listen, CloseListener, handshake, accepting
<1>3. acceptor' \in AcceptorStates /\ \A s : Taken(s)' <=> Taken(s)
  BY AcceptorIs DEF Inv, Types, bind, listen, CloseListener, accepting, Taken
<1>4. Types'
  BY <1>1, <1>2, <1>3, Replaced DEF Inv, Types
<1>5. \A s \in Server : sock'[s] = sock[s]
  BY <1>1, Replaced DEF Inv
<1>6. ListenerOK'
  BY <1>1, Replaced DEF Inv, ListenerOK, SocketRecord
<1>7. Calmer
  BY <1>5 DEF Calmer
<1>8. Admits' /\ \A s, t \in Server : Newest(s, t)'
  BY <1>2, <1>7, CalmNewest, CalmAdmits
<1>9. \A s \in Server : ServerOK(s)'
  BY <1>2, <1>3, <1>5 DEF Inv, ServerOK, Made, Lives, Leaves, Waits, Numbered, Comes, Fresh, Known
<1>10. MuxCounts'
  <2>0. sock' \in [Socket -> SocketRecord] /\ sock'[Listener].where = sock[Listener].where
    BY <1>1, Replaced DEF Inv
  <2>1. CASE sock[Listener].status = "INIT"
    <3>1. Listener \notin Bound /\ Bound' = Bound \cup {Listener}
      BY <1>1, <1>5, <2>0, <2>1, Replaced DEF Inv, Bound, ListenerOK
    <3> QED
      BY <1>1, <2>1, <3>1, OneMore DEF Inv
  <2>2. CASE sock[Listener].status # "INIT"
    <3>1. Bound' = Bound
      BY <1>1, <1>5, <2>0, <2>2, Replaced DEF Inv, Bound, ListenerOK
    <3> QED
      BY <1>1, <2>2, <3>1, SameBound DEF Inv
  <2> QED
    BY <2>1, <2>2
<1> QED
  BY <1>4, <1>6, <1>8, <1>9, <1>10 DEF Inv

\* accept, which leaves the sockets alone.
LEMMA AcceptInv ==
    ASSUME Inv, Accepts
    PROVE  Inv'
<1>1. UNCHANGED <<sock, muxRef, nextId, worker>>
  BY DEF Accepts, AcceptTakes, AcceptReturns, handshake
<1>2. /\ acceptor' \in AcceptorStates /\ queued' \in SUBSET Server
      /\ accepted' \in SUBSET Server /\ returned' \in SUBSET Server
      /\ \A s \in Server : /\ s \in queued' => s \in queued
                           /\ Known(s)' => Known(s)
                           /\ Leaves(s) => Leaves(s)'
                           /\ Waits(s) => Waits(s)'
  <2>1. CASE AcceptTakes /\ (~Listening \/ queued = {})
    <3>1. acceptor'.pc # "took" /\ acceptor' \in AcceptorStates /\ UNCHANGED <<queued, accepted, returned>>
      BY <2>1 DEF AcceptTakes, AcceptorStates
    <3> QED
      BY <1>1, <3>1 DEF Inv, Types, Known, Taken, Leaves, Waits
  <2>2. CASE AcceptTakes /\ Listening /\ queued # {}
    <3> DEFINE m == Min(queued)
    <3>1. /\ acceptor' = [pc |-> "took", id |-> m] /\ accepted' = accepted \cup {m}
          /\ queued' = queued \ {m} /\ returned' = returned /\ queued # {}
      BY <2>2 DEF AcceptTakes
    <3>2. m \in queued /\ m \in Server
      BY <3>1, MinIs, Numbers DEF Inv, Types
    <3> HIDE DEF m
    <3>3. acceptor' \in AcceptorStates /\ acceptor'.pc = "took" /\ acceptor'.id = m
      BY <3>1, <3>2 DEF AcceptorStates
    <3>4. ASSUME NEW s \in Server
          PROVE  /\ Known(s)' => Known(s)
                 /\ Leaves(s) => Leaves(s)'
                 /\ Waits(s) => Waits(s)'
      BY <1>1, <3>1, <3>2, <3>3 DEF Known, Taken, Leaves, Waits
    <3> QED
      BY <3>1, <3>2, <3>3, <3>4 DEF Inv, Types
  <2>3. CASE AcceptReturns /\ ~UNCHANGED returned
    <3>1. /\ acceptor.pc = "took" /\ returned' = returned \cup {acceptor.id}
          /\ acceptor' = Idle /\ UNCHANGED <<queued, accepted>>
      BY <2>3 DEF AcceptReturns
    <3>2. acceptor' \in AcceptorStates /\ acceptor'.pc # "took" /\ acceptor.id \in Server
      BY <3>1, AcceptorIs DEF Inv, Types, AcceptorStates, Idle
    <3>3. ASSUME NEW s \in Server
          PROVE  /\ Known(s)' => Known(s)
                 /\ Leaves(s) => Leaves(s)'
                 /\ Waits(s) => Waits(s)'
      BY <1>1, <3>1, <3>2 DEF Known, Taken, Leaves, Waits
    <3> QED
      BY <3>1, <3>2, <3>3 DEF Inv, Types
  <2>4. CASE AcceptReturns /\ UNCHANGED returned
    <3>1. UNCHANGED <<queued, accepted, returned>> /\ acceptor' \in AcceptorStates /\ acceptor'.pc # "took"
      BY <2>4 DEF AcceptReturns, AcceptorStates, Idle
    <3> QED
      BY <1>1, <3>1 DEF Inv, Types, Known, Taken, Leaves, Waits
  <2> QED
    BY <2>1, <2>2, <2>3, <2>4 DEF Accepts
<1>3. Types' /\ ListenerOK'
  BY <1>1, <1>2 DEF Inv, Types, ListenerOK
<1>4. Admits' /\ \A s, t \in Server : Newest(s, t)'
  BY <1>1 DEF Inv, Admits, Newest
<1>5. MuxCounts'
  BY <1>1, SameBound DEF Inv, Bound
<1>6. \A s \in Server : ServerOK(s)'
  <2> TAKE s \in Server
  <2>1. Made(s)' /\ Lives(s)' /\ Comes(s)'
    BY <1>1, <1>2 DEF Inv, ServerOK, Made, Lives, Comes, Fresh
  <2>2. Leaves(s)' /\ Waits(s)' /\ Numbered(s)'
    BY <1>1, <1>2 DEF Inv, ServerOK, Numbered
  <2> QED
    BY <2>1, <2>2 DEF ServerOK
<1> QED
  BY <1>3, <1>4, <1>5, <1>6 DEF Inv
-----------------------------------------------------------------------------
(* The sockets one step changes, and close.                                  *)

\* Of a step that changes one socket of the server, and neither the worker nor accept.
Changes(s, new) == /\ sock' = [sock EXCEPT ![s] = new]
                   /\ new \in SocketRecord /\ new.peer = sock[s].peer /\ new.status \in {"CONNECTED", "CLOSED"}
                   /\ new.where # "none"
                   /\ ~new.live

LEMMA ChangeInv ==
    ASSUME Inv, NEW s \in Server, s >= nextId, NEW new, Changes(s, new), ~Fresh(s),
           UNCHANGED <<nextId, acceptor>>,
           queued' \in SUBSET queued, accepted' \in SUBSET accepted, returned' \in SUBSET returned,
           s \in queued' => new.where = "open",
           \A t \in Server : t # s /\ t \in returned => t \in returned',
           new.leaving => s \in returned',
           UNCHANGED worker \/ (worker'.pc = "dequeue" /\ worker' \in WorkerStates /\ Admits'),
           UNCHANGED worker \/ worker = Idle,
           \/ (new.where = "deleted") = (sock[s].where = "deleted") /\ muxRef' = muxRef
           \/ new.where = "deleted" /\ sock[s].where # "deleted" /\ muxRef' = muxRef - 1
    PROVE  Inv'
<1> USE Numbers
<1>1. /\ sock' \in [Socket -> SocketRecord] /\ sock'[s] = new
      /\ \A t \in Socket : t # s => sock'[t] = sock[t]
  BY Replaced DEF Changes, Inv
<1>2. Types'
  BY <1>1 DEF Inv, Types
<1>3. ListenerOK'
  BY <1>1 DEF Inv, ListenerOK
<1>4. Calmer
  BY <1>1, SocketIs DEF Inv, Calmer, Changes, SocketRecord
<1>5. Admits' /\ \A t, u \in Server : Newest(t, u)'
  BY <1>4, CalmNewest, CalmAdmits
<1>6. \A t \in Server : Fresh(t)' => Fresh(t)
  BY WorkerIs DEF Inv, Types, Fresh
<1>7. \A t \in Server : Fresh(t) => Fresh(t)'
  BY WorkerIs DEF Inv, Types, Fresh
<1>8. \A t \in Server : (Taken(t)' <=> Taken(t)) /\ (Known(t)' => Known(t))
  BY DEF Taken, Known
<1>9. ASSUME NEW t \in Server, t # s PROVE ServerOK(t)'
  <2>1. Made(t)' /\ Lives(t)' /\ Leaves(t)'
    BY <1>1, <1>7, <1>9 DEF Inv, ServerOK, Made, Lives, Leaves
  <2>2. Waits(t)' /\ Numbered(t)'
    BY <1>1, <1>8, <1>9 DEF Inv, ServerOK, Waits, Numbered
  <2>3. Comes(t)'
    <3>1. CASE Fresh(t)
      <4>1. worker' = worker
        BY <3>1, WorkerIs DEF Inv, Types, Fresh
      <4> QED
        BY <1>1, <1>8, <1>9, <3>1, <4>1 DEF Inv, ServerOK, Comes
    <3>2. CASE ~Fresh(t)
      BY <1>6, <3>2 DEF Comes
    <3> QED
      BY <3>1, <3>2
  <2> QED
    BY <2>1, <2>2, <2>3 DEF ServerOK
<1>10. ServerOK(s)'
  <2>1. Made(s)' /\ Lives(s)' /\ Leaves(s)'
    BY <1>1, ListeningAssumption DEF Inv, Types, ServerOK, Changes, Made, Lives, Leaves
  <2>2. Waits(s)' /\ Numbered(s)'
    BY <1>1, <1>8 DEF Inv, ServerOK, Waits, Numbered
  <2>3. Comes(s)'
    BY <1>6 DEF Comes
  <2> QED
    BY <2>1, <2>2, <2>3 DEF ServerOK
<1>11. MuxCounts'
  <2>0. sock[s].status \notin {"NONEXIST", "INIT"} /\ new.status \notin {"NONEXIST", "INIT"}
    BY DEF Inv, ServerOK, Made, Changes
  <2>1. CASE (new.where = "deleted") = (sock[s].where = "deleted") /\ muxRef' = muxRef
    <3>1. Bound' = Bound
      BY <1>1, <2>0, <2>1 DEF Bound
    <3> QED
      BY <2>1, <3>1, SameBound DEF Inv
  <2>2. CASE new.where = "deleted" /\ sock[s].where # "deleted" /\ muxRef' = muxRef - 1
    <3>1. s \in Bound /\ Bound' = Bound \ {s}
      BY <1>1, <2>0, <2>2 DEF Bound
    <3> QED
      BY <2>2, <3>1, OneLess DEF Inv
  <2> QED
    BY <2>1, <2>2
<1> QED
  BY <1>2, <1>3, <1>5, <1>9, <1>10, <1>11 DEF Inv

LEMMA CloseInv ==
    ASSUME Inv, NEW s \in Server, CloseCore(s) \/ CloseMove(s)
    PROVE  Inv'
<1> USE Numbers
<1>0. /\ ServerOK(s) /\ sock[s] \in SocketRecord
      /\ s \in returned => s >= nextId /\ sock[s].where # "none"
  <2>1. ServerOK(s) /\ sock[s] \in SocketRecord
    BY SocketIs DEF Inv
  <2>2. s \in returned => ~Fresh(s) /\ s >= nextId
    BY <2>1 DEF ServerOK, Comes, Numbered, Known
  <2> QED
    BY <2>1, <2>2 DEF ServerOK, Made
<1>1. CASE CloseCore(s) /\ ~Located(s)
  <2>1. returned' = returned \ {s} /\ UNCHANGED <<sock, muxRef, nextId, worker, queued, accepted, acceptor>>
        /\ ~sock[s].leaving
    BY <1>1 DEF CloseCore, handshake
  <2>2. Types' /\ ListenerOK' /\ Admits' /\ MuxCounts' /\ \A t, u \in Server : Newest(t, u)'
    BY <2>1 DEF Inv, Types, ListenerOK, Admits, MuxCounts, Newest
  <2>3. \A t \in Server : ServerOK(t)'
    BY <2>1 DEF Inv, ServerOK, Made, Lives, Leaves, Waits, Numbered, Comes, Known, Taken, Fresh
  <2> QED
    BY <2>2, <2>3 DEF Inv
<1>2. CASE CloseCore(s) /\ Located(s)
  <2> DEFINE new == [sock[s] EXCEPT !.live = FALSE, !.leaving = TRUE]
  <2>1. /\ sock' = [sock EXCEPT ![s] = new] /\ s \in returned
        /\ UNCHANGED <<muxRef, nextId, worker, queued, accepted, acceptor, returned>>
    BY <1>2 DEF CloseCore, handshake
  <2>2. /\ new \in SocketRecord /\ new.where = sock[s].where /\ new.peer = sock[s].peer
        /\ new.status = sock[s].status /\ ~new.live
    BY <1>0 DEF SocketRecord
  <2> HIDE DEF new
  <2>3. Changes(s, new) /\ ~Fresh(s)
    BY <1>0, <2>1, <2>2 DEF Changes, ServerOK, Made, Comes, Known
  <2> QED
    BY <1>0, <2>1, <2>2, <2>3, ChangeInv DEF ServerOK, Waits
<1>3. CASE CloseMove(s)
  <2> DEFINE new == IF Located(s) THEN [sock[s] EXCEPT !.status = "CLOSED", !.where = "closed",
                                                        !.leaving = FALSE]
                    ELSE [sock[s] EXCEPT !.leaving = FALSE]
  <2>1. /\ sock' = [sock EXCEPT ![s] = new] /\ s \in returned /\ sock[s].leaving
        /\ UNCHANGED <<muxRef, nextId, worker, queued, accepted, acceptor>>
        /\ returned' = returned \ {s}
    BY <1>0, <1>3 DEF CloseMove, handshake, ServerOK, Leaves
  <2>2. /\ new \in SocketRecord /\ new.peer = sock[s].peer /\ new.leaving = FALSE
        /\ new.status \in {"CLOSED", sock[s].status} /\ new.live = sock[s].live
        /\ new.where = sock[s].where \/ (new.where = "closed" /\ sock[s].where = "open")
    BY <1>0 DEF SocketRecord, Located
  <2> HIDE DEF new
  <2>3. Changes(s, new) /\ ~Fresh(s)
    BY <1>0, <2>1, <2>2 DEF Changes, ServerOK, Made, Lives, Comes, Known
  <2>4. s \notin queued
    BY <1>0, <2>1 DEF ServerOK, Waits
  <2> QED
    BY <1>0, <2>1, <2>2, <2>3, <2>4, ChangeInv
<1> QED
  BY <1>1, <1>2, <1>3
-----------------------------------------------------------------------------
(* The worker that receives.                                                 *)

LEMMA UnlistInv ==
    ASSUME Inv, NEW s \in Server, Break(s) \/ Unlist(s)
    PROVE  Inv'
<1> USE Numbers
<1>0. ServerOK(s) /\ sock[s] \in SocketRecord /\ worker = Idle /\ ~Fresh(s)
  BY SocketIs, WorkerIs DEF Inv, Types, Break, Unlist, Fresh
<1>1. s >= nextId /\ sock[s].where # "none"
  BY <1>0, ListeningAssumption DEF Inv, Types, ServerOK, Made, NoSocket, Break, Unlist
<1>2. PICK new \in SocketRecord :
          /\ sock' = [sock EXCEPT ![s] = new] /\ ~new.live
          /\ new.where = sock[s].where /\ new.peer = sock[s].peer
          /\ new.status = sock[s].status /\ new.leaving = sock[s].leaving
  <2>1. CASE Break(s)
    <3> DEFINE new == [sock[s] EXCEPT !.live = FALSE, !.broken = TRUE]
    <3>1. sock' = [sock EXCEPT ![s] = new]
      BY <2>1 DEF Break
    <3>2. new \in SocketRecord /\ ~new.live /\ new.where = sock[s].where /\ new.peer = sock[s].peer
          /\ new.status = sock[s].status /\ new.leaving = sock[s].leaving
      BY <1>0 DEF SocketRecord
    <3> QED
      BY <3>1, <3>2
  <2>2. CASE Unlist(s)
    <3> DEFINE new == [sock[s] EXCEPT !.onList = FALSE]
    <3>1. sock' = [sock EXCEPT ![s] = new]
      BY <2>2 DEF Unlist
    <3>2. new \in SocketRecord /\ ~new.live /\ new.where = sock[s].where /\ new.peer = sock[s].peer
          /\ new.status = sock[s].status /\ new.leaving = sock[s].leaving
      BY <1>0, <2>2 DEF SocketRecord, Unlist
    <3> QED
      BY <3>1, <3>2
  <2> QED
    BY <2>1, <2>2
<1>3. Changes(s, new)
  BY <1>0, <1>1, <1>2 DEF Changes, ServerOK, Made
<1>4. UNCHANGED <<muxRef, nextId, worker, queued, accepted, acceptor, returned>>
  BY DEF Break, Unlist, handshake, accepting
<1> QED
  BY <1>0, <1>1, <1>2, <1>3, <1>4, ChangeInv DEF ServerOK, Waits, Leaves

\* A request of a peer that has a socket which works is not let past.
LEMMA AnswerInv ==
    ASSUME Inv, NEW p \in Peer, Answer(p)
    PROVE  Inv'
<1> USE Numbers
<1>0. worker = Idle /\ nextId > 0 /\ \A s \in Server : ServerOK(s) /\ ~Fresh(s)
  BY WorkerIs DEF Inv, Types, Answer, Fresh
<1>1. ASSUME NEW s \in Server, sock[s].peer = p, sock[s].live PROVE s \in OfPeer(p)
  <2>1. s >= nextId
    BY <1>0, <1>1, ListeningAssumption DEF Inv, Types, ServerOK, Made, NoSocket
  <2> QED
    BY <1>0, <1>1, <2>1 DEF ServerOK, Made, Lives, OfPeer
<1>2. CASE OfPeer(p) = {}
  <2>1. /\ worker' = [pc |-> "admit", peer |-> p] /\ UNCHANGED sock
        /\ UNCHANGED <<muxRef, nextId, queued, accepted, acceptor, returned>>
    BY <1>2 DEF Answer, accepting
  <2>2. worker' \in WorkerStates /\ worker'.pc = "admit" /\ worker'.peer = p
    BY <2>1 DEF WorkerStates
  <2>3. Types' /\ ListenerOK' /\ MuxCounts' /\ \A t, u \in Server : Newest(t, u)'
    BY <2>1, <2>2 DEF Inv, Types, ListenerOK, MuxCounts, Newest
  <2>4. Admits'
    BY <1>0, <1>1, <1>2, <2>1, <2>2 DEF Admits
  <2>5. ASSUME NEW t \in Server PROVE ServerOK(t)'
    <3>1. ~Fresh(t)' /\ (Known(t)' <=> Known(t)) /\ (Taken(t)' <=> Taken(t))
      BY <2>1, <2>2 DEF Fresh, Known, Taken
    <3> QED
      BY <1>0, <2>1, <3>1 DEF ServerOK, Made, Lives, Leaves, Waits, Numbered, Comes
  <2> QED
    BY <2>3, <2>4, <2>5 DEF Inv
<1>3. CASE OfPeer(p) # {}
  <2> DEFINE old == FirstOfPeer(p)
             new == [sock[old] EXCEPT !.status = "CLOSED"]
  <2>1. old \in OfPeer(p) /\ \A s \in OfPeer(p) : old <= s
    BY <1>3, MinIs DEF FirstOfPeer, OfPeer
  <2>2. /\ sock[old].broken /\ sock' = [sock EXCEPT ![old].status = "CLOSED"]
        /\ worker' = [pc |-> "dequeue", peer |-> p, id |-> old]
        /\ UNCHANGED <<muxRef, nextId, queued, accepted, acceptor, returned>>
    BY <1>3 DEF Answer, accepting
  <2>3. sock' = [sock EXCEPT ![old] = new]
    BY <2>2
  <2> HIDE DEF old
  <2>4. old \in Server /\ sock[old].where = "open" /\ sock[old].peer = p /\ sock[old] \in SocketRecord
    BY <2>1, SocketIs DEF OfPeer, Inv
  <2>5. old >= nextId /\ ~sock[old].live
    BY <1>0, <2>2, <2>4, ListeningAssumption DEF Inv, Types, ServerOK, Made, Lives, NoSocket
  <2>6. \A s \in Server : sock[s].peer = p => ~sock[s].live
    <3> SUFFICES ASSUME NEW s \in Server, sock[s].peer = p, sock[s].live PROVE FALSE
      OBVIOUS
    <3>1. s <= old
      BY <2>4 DEF Inv, Newest
    <3>2. old <= s
      BY <1>1, <2>1
    <3>3. s \in Nat /\ old \in Nat
      BY <2>4
    <3>4. s = old
      BY <3>1, <3>2, <3>3
    <3> QED
      BY <2>5, <3>4
  <2>7. /\ new \in SocketRecord /\ new.where = "open" /\ new.peer = p /\ ~new.live
        /\ new.status = "CLOSED" /\ new.leaving = sock[old].leaving
    BY <2>4, <2>5 DEF SocketRecord
  <2> HIDE DEF new
  <2>8. Changes(old, new)
    BY <2>3, <2>4, <2>7 DEF Changes
  <2>9. worker' \in WorkerStates /\ worker'.pc = "dequeue" /\ worker'.peer = p
    BY <2>2, <2>4 DEF WorkerStates
  <2>10. Admits'
    <3>1. Calmer
      BY <2>3, <2>4, <2>7, SocketIs, Replaced DEF Inv, Calmer
    <3> QED
      BY <1>0, <2>2, <2>6, <2>9, <3>1 DEF Admits, Calmer
  <2>11. sock[old].leaving => old \in returned
    BY <1>0, <2>4 DEF ServerOK, Leaves
  <2> QED
    BY <1>0, <2>2, <2>4, <2>5, <2>7, <2>8, <2>9, <2>10, <2>11, ChangeInv
<1> QED
  BY <1>2, <1>3

LEMMA DequeueInv ==
    ASSUME Inv, Dequeue
    PROVE  Inv'
<1> USE Numbers
<1>1. /\ worker.pc = "dequeue" /\ worker' = [pc |-> "admit", peer |-> worker.peer]
      /\ queued' \in SUBSET queued /\ accepted' \in SUBSET accepted
      /\ UNCHANGED <<sock, muxRef, nextId, acceptor, returned>>
  BY DEF Dequeue
<1>2. worker.peer \in Peer /\ worker' \in WorkerStates /\ worker'.pc = "admit" /\ worker'.peer = worker.peer
  BY <1>1, WorkerIs DEF Inv, Types, WorkerStates
<1>3. Types' /\ ListenerOK' /\ MuxCounts' /\ \A t, u \in Server : Newest(t, u)'
  BY <1>1, <1>2 DEF Inv, Types, ListenerOK, MuxCounts, Newest
<1>4. Admits'
  BY <1>1, <1>2 DEF Inv, Admits
<1>5. ASSUME NEW t \in Server PROVE ServerOK(t)'
  <2>1. ~Fresh(t) /\ ~Fresh(t)' /\ (Known(t)' => Known(t)) /\ (Taken(t)' <=> Taken(t))
    BY <1>1, <1>2 DEF Fresh, Known, Taken
  <2> QED
    BY <1>1, <2>1 DEF Inv, ServerOK, Made, Lives, Leaves, Waits, Numbered, Comes
<1> QED
  BY <1>3, <1>4, <1>5 DEF Inv

\* A new connection: nobody has its number, and no other of its peer works.
LEMMA AdmitInv ==
    ASSUME Inv, Admit
    PROVE  Inv'
<1> USE Numbers
<1>0. worker.pc = "admit" /\ worker.peer \in Peer /\ nextId > 0 /\ UNCHANGED <<queued, accepted, acceptor, returned>>
  BY WorkerIs DEF Inv, Types, Admits, Admit, accepting
<1>1. CASE Cardinality(queued) >= BackLog
  <2>1. worker' = Idle /\ UNCHANGED <<sock, muxRef, nextId>>
    BY <1>1 DEF Admit
  <2>2. worker' \in WorkerStates /\ worker'.pc = "idle"
    BY <2>1 DEF WorkerStates, Idle
  <2>3. Types' /\ ListenerOK' /\ MuxCounts' /\ Admits' /\ \A t, u \in Server : Newest(t, u)'
    BY <1>0, <2>1, <2>2 DEF Inv, Types, ListenerOK, MuxCounts, Newest, Admits
  <2>4. ASSUME NEW t \in Server PROVE ServerOK(t)'
    <3>1. ~Fresh(t) /\ ~Fresh(t)' /\ (Known(t)' <=> Known(t)) /\ (Taken(t)' <=> Taken(t))
      BY <1>0, <2>1, <2>2 DEF Fresh, Known, Taken
    <3> QED
      BY <1>0, <2>1, <3>1 DEF Inv, ServerOK, Made, Lives, Leaves, Waits, Numbered, Comes
  <2> QED
    BY <2>3, <2>4 DEF Inv
<1>2. CASE ~(Cardinality(queued) >= BackLog)
  <2> DEFINE s == nextId - 1
             new == Connection(worker.peer)
  <2>1. nextId' = s /\ sock' = [sock EXCEPT ![s] = new] /\ muxRef' = muxRef + 1
        /\ worker' = [pc |-> "insert", id |-> s]
    BY <1>2 DEF Admit, updateMux
  <2>2. s \in Server /\ s < nextId /\ s \in 0..MaxId /\ \A t \in Server : t >= s => t >= nextId \/ t = s
    BY <1>0, ListeningAssumption DEF Inv, Types, Server
  <2> HIDE DEF s
  <2>3. /\ new \in SocketRecord /\ new.peer = worker.peer /\ new.status = "CONNECTED" /\ new.live
        /\ ~new.broken /\ ~new.leaving /\ new.where = "none"
    BY <1>0 DEF Connection, NoSocket, SocketRecord
  <2> HIDE DEF new
  <2>4. /\ sock' \in [Socket -> SocketRecord] /\ sock'[s] = new
        /\ \A t \in Socket : t # s => sock'[t] = sock[t]
    BY <2>1, <2>2, <2>3, Replaced DEF Inv
  <2>5. worker' \in WorkerStates /\ worker'.pc = "insert" /\ worker'.id = s
    BY <2>1, <2>2 DEF WorkerStates
  <2>6. sock[s] = NoSocket /\ ~Known(s)
    BY <2>2, ListeningAssumption DEF Inv, ServerOK, Made, Numbered, Types
  <2>7. Types' /\ ListenerOK' /\ Admits'
    BY <1>0, <2>1, <2>2, <2>4, <2>5 DEF Inv, Types, ListenerOK, Admits
  <2>8. MuxCounts'
    <3>1. s \notin Bound /\ Bound' = Bound \cup {s}
      <4>1. s \notin Bound
        BY <2>6 DEF Bound, NoSocket
      <4>2. s \in Socket /\ sock'[s].status = "CONNECTED" /\ sock'[s].where = "none"
        BY <2>2, <2>3, <2>4
      <4> QED
        BY <2>4, <4>1, <4>2 DEF Bound
    <3> QED
      BY <2>1, <3>1, OneMore DEF Inv
  <2>9. ASSUME NEW t \in Server PROVE ServerOK(t)'
    <3>1. ~Fresh(t) /\ (Fresh(t)' <=> t = s) /\ (Known(t)' <=> Known(t)) /\ (Taken(t)' <=> Taken(t))
      BY <1>0, <2>5 DEF Fresh, Known, Taken
    <3>2. CASE t # s
      <4>1. (t < s <=> t < nextId) /\ (t >= s <=> t >= nextId)
        BY <2>1, <2>2, <3>2, ListeningAssumption DEF Inv, Types, s
      <4>2. sock'[t] = sock[t]
        BY <2>4, <3>2
      <4> QED
        BY <1>0, <2>1, <3>1, <3>2, <4>1, <4>2
           DEF Inv, ServerOK, Made, Lives, Leaves, Waits, Numbered, Comes
    <3>3. CASE t = s
      BY <1>0, <2>1, <2>2, <2>3, <2>4, <2>5, <2>6, <3>1, <3>3
         DEF ServerOK, Made, Lives, Leaves, Waits, Numbered, Comes, Known, NoSocket
    <3> QED
      BY <3>2, <3>3
  <2>10. ASSUME NEW t \in Server, NEW u \in Server PROVE Newest(t, u)'
    <3>1. sock[t].live => t >= nextId
      BY ListeningAssumption DEF Inv, Types, ServerOK, Made, NoSocket
    <3>2. CASE t = s
      <4>1. sock[u].peer = worker.peer => u >= nextId
        BY <1>0, ListeningAssumption DEF Inv, Types, ServerOK, Made, NoSocket
      <4>2. s \in Nat /\ u \in Nat /\ nextId \in Nat
        BY <2>2, ListeningAssumption DEF Inv, Types
      <4>3. sock'[u].peer = worker.peer => s <= u
        BY <2>2, <2>4, <4>1, <4>2
      <4> QED
        BY <2>3, <2>4, <3>2, <4>3 DEF Newest
    <3>3. CASE t # s /\ u = s
      BY <1>0, <2>2, <2>3, <2>4, <3>3 DEF Inv, Admits, Newest
    <3>4. CASE t # s /\ u # s
      BY <2>4, <3>4 DEF Inv, Newest
    <3> QED
      BY <3>2, <3>3, <3>4
  <2> QED
    BY <2>7, <2>8, <2>9, <2>10 DEF Inv
<1> QED
  BY <1>1, <1>2

LEMMA InsertInv ==
    ASSUME Inv, InsertNew
    PROVE  Inv'
<1> USE Numbers
<1> DEFINE s == worker.id
           new == [sock[s] EXCEPT !.where = "open"]
<1>1. /\ worker.pc = "insert" /\ sock' = [sock EXCEPT ![s] = new] /\ worker' = [worker EXCEPT !.pc = "queue"]
      /\ UNCHANGED <<muxRef, nextId, queued, accepted, acceptor, returned>>
  BY DEF InsertNew, accepting
<1>2. s \in Server /\ worker' \in WorkerStates /\ worker'.pc = "queue" /\ worker'.id = s
  BY <1>1, WorkerIs DEF Inv, Types, WorkerStates, Idle
<1>3. ServerOK(s) /\ Fresh(s) /\ sock[s] \in SocketRecord
  BY <1>1, <1>2, SocketIs DEF Inv, Fresh
<1>4. s = nextId /\ sock[s].live /\ ~Known(s) /\ sock[s].where = "none"
  BY <1>1, <1>3 DEF ServerOK, Comes
<1> HIDE DEF s
<1>5. /\ new \in SocketRecord /\ new.where = "open" /\ new.peer = sock[s].peer /\ new.status = sock[s].status
      /\ new.live = sock[s].live /\ new.broken = sock[s].broken /\ new.leaving = sock[s].leaving
  BY <1>3 DEF SocketRecord
<1> HIDE DEF new
<1>6. /\ sock' \in [Socket -> SocketRecord] /\ sock'[s] = new
      /\ \A t \in Socket : t # s => sock'[t] = sock[t]
  BY <1>1, <1>2, <1>5, Replaced DEF Inv
<1>7. Types' /\ ListenerOK' /\ Admits'
  BY <1>1, <1>2, <1>6 DEF Inv, Types, ListenerOK, Admits
<1>8. MuxCounts'
  <2>1. Bound' = Bound
    BY <1>2, <1>4, <1>5, <1>6 DEF Bound
  <2> QED
    BY <1>1, <2>1, SameBound DEF Inv
<1>9. \A t, u \in Server : Newest(t, u)'
  <2>1. Calmer
    BY <1>2, <1>5, <1>6 DEF Calmer
  <2> QED
    BY <2>1, CalmNewest
<1>10. ASSUME NEW t \in Server PROVE ServerOK(t)'
  <2>1. /\ Fresh(t) <=> t = s
        /\ Fresh(t)' <=> t = s
        /\ Known(t)' <=> Known(t)
        /\ Taken(t)' <=> Taken(t)
    BY <1>1, <1>2 DEF Fresh, Known, Taken, s
  <2>2. CASE t # s
    <3>1. sock'[t] = sock[t]
      BY <1>6, <2>2
    <3> QED
      BY <1>1, <2>1, <2>2, <3>1 DEF Inv, ServerOK, Made, Lives, Leaves, Waits, Numbered, Comes
  <2>3. CASE t = s
    <3>1. t \in Nat /\ nextId' = t
      BY <1>1, <1>2, <1>4, <2>3
    <3>2. Made(t)' /\ Lives(t)'
      BY <1>3, <1>4, <1>5, <1>6, <2>3, <3>1 DEF ServerOK, Made, Lives
    <3>3. Leaves(t)' /\ Waits(t)' /\ Numbered(t)' /\ Comes(t)'
      BY <1>1, <1>2, <1>3, <1>4, <1>5, <1>6, <2>1, <2>3, <3>1
         DEF ServerOK, Leaves, Waits, Numbered, Comes, Known
    <3> QED
      BY <3>2, <3>3 DEF ServerOK
  <2> QED
    BY <2>2, <2>3
<1> QED
  BY <1>7, <1>8, <1>9, <1>10 DEF Inv

LEMMA QueueInv ==
    ASSUME Inv, QueueNew
    PROVE  Inv'
<1> USE Numbers
<1> DEFINE s == worker.id
<1>1. /\ worker.pc = "queue" /\ queued' = queued \cup {s} /\ acceptor' = Awakened /\ worker' = Idle
      /\ UNCHANGED <<sock, muxRef, nextId, accepted, returned>>
  BY DEF QueueNew
<1>2. s \in Server /\ worker' \in WorkerStates /\ worker'.pc = "idle"
  BY <1>1, WorkerIs DEF Inv, Types, WorkerStates, Idle
<1>3. /\ acceptor' \in AcceptorStates
      /\ \A t : Taken(t)' <=> Taken(t)
  BY <1>1, AcceptorIs DEF Inv, Types, Taken
<1>4. ServerOK(s) /\ Fresh(s)
  BY <1>1, <1>2 DEF Inv, Fresh
<1>5. s = nextId /\ sock[s].where = "open" /\ ~Known(s)
  BY <1>1, <1>4 DEF ServerOK, Comes
<1> HIDE DEF s
<1>6. Types' /\ ListenerOK' /\ MuxCounts' /\ Admits' /\ \A t, u \in Server : Newest(t, u)'
  BY <1>1, <1>2, <1>3 DEF Inv, Types, ListenerOK, MuxCounts, Newest, Admits
<1>7. ASSUME NEW t \in Server PROVE ServerOK(t)'
  <2>1. /\ ~Fresh(t)'
        /\ Fresh(t) <=> t = s
        /\ Known(t)' <=> Known(t) \/ t = s
        /\ Taken(t)' <=> Taken(t)
    BY <1>1, <1>2, <1>3 DEF Fresh, Known, s
  <2>2. CASE t # s
    BY <1>1, <2>1, <2>2 DEF Inv, ServerOK, Made, Lives, Leaves, Waits, Numbered, Comes
  <2>3. CASE t = s
    BY <1>1, <1>2, <1>4, <1>5, <2>1, <2>3, ListeningAssumption
       DEF Inv, Types, ServerOK, Made, Lives, Leaves, Waits, Numbered, Comes, Known
  <2> QED
    BY <2>2, <2>3
<1> QED
  BY <1>6, <1>7 DEF Inv
-----------------------------------------------------------------------------
(* The collecting thread.                                                    *)

LEMMA CollectInv ==
    ASSUME Inv, NEW s \in Server, Collects(s)
    PROVE  Inv'
<1> USE Numbers
<1>0. ServerOK(s) /\ sock[s] \in SocketRecord /\ s # Listener /\ s \notin {Listener}
  BY SocketIs DEF Inv
<1>1. s >= nextId /\ ~Fresh(s)
  <2>1. sock[s].where \in {"open", "closed"} /\ (sock[s].where = "open" => sock[s].broken)
    BY DEF Collects, CloseBroken, removeSocket
  <2> QED
    BY <1>0, <2>1, ListeningAssumption DEF Inv, Types, ServerOK, Made, Lives, Comes, NoSocket
<1>2. CASE CloseBroken(s)
  <2> DEFINE new == [sock[s] EXCEPT !.status = "CLOSED", !.where = "closed"]
  <2>1. /\ sock[s].where = "open" /\ sock[s].broken /\ sock' = [sock EXCEPT ![s] = new]
        /\ queued' = queued \ {s} /\ accepted' = accepted \ {s}
        /\ UNCHANGED <<muxRef, nextId, worker, acceptor, returned>>
    BY <1>2 DEF CloseBroken, handshake
  <2>2. /\ new \in SocketRecord /\ new.where = "closed" /\ new.status = "CLOSED"
        /\ new.peer = sock[s].peer /\ new.leaving = sock[s].leaving /\ new.live = sock[s].live
    BY <1>0 DEF SocketRecord
  <2> HIDE DEF new
  <2>3. Changes(s, new)
    BY <1>0, <2>1, <2>2 DEF Changes, ServerOK, Lives
  <2> QED
    BY <1>0, <1>1, <2>1, <2>2, <2>3, ChangeInv DEF ServerOK, Leaves
<1>3. CASE removeSocket(s)
  <2> DEFINE new == [sock[s] EXCEPT !.live = FALSE, !.where = "deleted"]
  <2>1. /\ sock[s].where = "closed" /\ muxRef' = muxRef - 1
        /\ queued' = queued /\ accepted' = accepted
        /\ UNCHANGED <<nextId, worker, acceptor, returned>>
    BY <1>0, <1>3 DEF removeSocket, handshake
  <2>2. sock' = [q \in Socket |-> IF q = s THEN new ELSE sock[q]]
    BY <1>0, <1>3 DEF removeSocket
  <2>3. /\ new \in SocketRecord /\ new.where = "deleted" /\ new.status = sock[s].status
        /\ new.peer = sock[s].peer /\ new.leaving = sock[s].leaving /\ ~new.live
    BY <1>0 DEF SocketRecord
  <2> HIDE DEF new
  <2>4. sock' = [sock EXCEPT ![s] = new]
    BY <2>2 DEF Inv, Types
  <2>5. Changes(s, new) /\ s \notin queued
    BY <1>0, <1>1, <2>1, <2>3, <2>4 DEF Changes, ServerOK, Made, Waits
  <2> QED
    BY <1>0, <1>1, <2>1, <2>3, <2>5, ChangeInv DEF ServerOK, Leaves
<1> QED
  BY <1>2, <1>3 DEF Collects

LEMMA CloseListenerInv ==
    ASSUME Inv, CloseBroken(Listener)
    PROVE  Inv'
<1> USE Numbers
<1> DEFINE new == [sock[Listener] EXCEPT !.status = "CLOSED", !.where = "closed"]
<1>1. /\ sock[Listener].where = "open" /\ sock[Listener].broken /\ sock' = [sock EXCEPT ![Listener] = new]
      /\ queued' = queued /\ accepted' = accepted
      /\ UNCHANGED <<muxRef, nextId, worker, acceptor, returned>>
  BY DEF CloseBroken, handshake, Inv, Types
<1>2. sock[Listener] \in SocketRecord /\ sock[Listener].status \notin {"NONEXIST", "INIT"}
  BY <1>1, SocketIs DEF Inv, ListenerOK
<1>3. /\ new \in SocketRecord /\ new.where = "closed" /\ new.status = "CLOSED"
      /\ new.leaving = sock[Listener].leaving /\ new.live = sock[Listener].live
  BY <1>2 DEF SocketRecord
<1> HIDE DEF new
<1>4. /\ sock' \in [Socket -> SocketRecord] /\ sock'[Listener] = new
      /\ \A t \in Server : sock'[t] = sock[t]
  BY <1>1, <1>3, Replaced DEF Inv
<1>5. Types' /\ ListenerOK' /\ Admits' /\ \A t, u \in Server : Newest(t, u)'
  BY <1>1, <1>3, <1>4 DEF Inv, Types, ListenerOK, Admits, Newest
<1>6. \A t \in Server : ServerOK(t)'
  BY <1>1, <1>4 DEF Inv, ServerOK, Made, Lives, Leaves, Waits, Numbered, Comes, Fresh, Known, Taken
<1>7. MuxCounts'
  <2>1. Bound' = Bound
    BY <1>1, <1>2, <1>3, <1>4 DEF Bound
  <2> QED
    BY <1>1, <2>1, SameBound DEF Inv
<1> QED
  BY <1>5, <1>6, <1>7 DEF Inv

\* The end of a listener takes what waits in its queue along.
LEMMA RemoveListenerInv ==
    ASSUME Inv, removeSocket(Listener)
    PROVE  Inv'
<1> USE Numbers
<1> DEFINE gone == [sock[Listener] EXCEPT !.live = FALSE, !.where = "deleted"]
           shut(q) == [sock[q] EXCEPT !.live = FALSE, !.broken = TRUE, !.status = "CLOSED",
                                      !.where = "closed"]
<1>1. /\ sock[Listener].where = "closed" /\ worker = Idle /\ muxRef' = muxRef - 1
      /\ queued' = {} /\ accepted' = {}
      /\ UNCHANGED <<nextId, worker, acceptor, returned>>
  BY DEF removeSocket, Unused, handshake
<1>2. sock' = [q \in Socket |-> IF q = Listener THEN gone ELSE IF q \in queued THEN shut(q) ELSE sock[q]]
  BY DEF removeSocket
<1>3. sock[Listener] \in SocketRecord /\ sock[Listener].status \notin {"NONEXIST", "INIT"}
  BY <1>1, SocketIs DEF Inv, ListenerOK
<1>4. /\ gone \in SocketRecord /\ gone.where = "deleted" /\ gone.status = sock[Listener].status
      /\ gone.leaving = sock[Listener].leaving /\ gone.live = FALSE
  BY <1>3 DEF SocketRecord
<1>5. \A q \in Socket : /\ shut(q) \in SocketRecord /\ shut(q).where = "closed" /\ shut(q).status = "CLOSED"
                        /\ shut(q).peer = sock[q].peer /\ shut(q).leaving = sock[q].leaving
                        /\ ~shut(q).live
  BY SocketIs DEF Inv, SocketRecord
<1>6. sock' \in [Socket -> SocketRecord] /\ sock'[Listener] = gone
  BY <1>2, <1>4, <1>5, SocketIs DEF Inv
<1>7. ASSUME NEW t \in Server
      PROVE  /\ t \notin queued => sock'[t] = sock[t]
             /\ t \in queued => /\ sock'[t].where = "closed" /\ sock'[t].status = "CLOSED"
                                /\ ~sock'[t].live
             /\ sock'[t].peer = sock[t].peer /\ sock'[t].leaving = sock[t].leaving
  BY <1>2, <1>5
<1>8. Types' /\ ListenerOK'
  BY <1>1, <1>3, <1>4, <1>6 DEF Inv, Types, ListenerOK
<1>9. Admits' /\ \A t, u \in Server : Newest(t, u)'
  <2>1. Calmer
    BY <1>7 DEF Calmer
  <2> QED
    BY <1>1, <2>1, CalmNewest, CalmAdmits
<1>10. ASSUME NEW t \in Server PROVE ServerOK(t)'
  <2>1. ~Fresh(t) /\ ~Fresh(t)' /\ (Known(t)' => Known(t)) /\ ServerOK(t)
    BY <1>1, WorkerIs DEF Inv, Types, Fresh, Known, Taken
  <2>2. CASE t \notin queued
    <3>1. sock'[t] = sock[t]
      BY <1>7, <2>2
    <3> QED
      BY <1>1, <2>1, <3>1 DEF ServerOK, Made, Lives, Leaves, Waits, Numbered, Comes
  <2>3. CASE t \in queued
    <3>1. t >= nextId /\ nextId' = nextId /\ t \in Nat /\ nextId \in Nat
      BY <1>1, <2>1, <2>3, ListeningAssumption DEF Inv, Types, ServerOK, Numbered, Known
    <3>2. Made(t)' /\ Lives(t)'
      BY <1>7, <2>1, <2>3, <3>1 DEF ServerOK, Made, Lives
    <3>3. Leaves(t)' /\ Waits(t)' /\ Numbered(t)' /\ Comes(t)'
      BY <1>1, <1>7, <2>1, <3>1 DEF ServerOK, Leaves, Waits, Numbered, Comes
    <3> QED
      BY <3>2, <3>3 DEF ServerOK
  <2> QED
    BY <2>2, <2>3
<1> HIDE DEF gone, shut
<1>11. MuxCounts'
  <2>1. Listener \in Bound
    BY <1>1, <1>3 DEF Bound
  <2>2. \A t \in queued : t \in Bound /\ t \in Bound'
    <3> TAKE t \in queued
    <3>1. t \in Server /\ sock[t].where = "open" /\ sock[t].status \in {"CONNECTED", "CLOSED"}
      BY DEF Inv, Types, ServerOK, Waits, Numbered, Known, Made
    <3>2. sock'[t].where = "closed" /\ sock'[t].status = "CLOSED"
      BY <1>7, <3>1
    <3> QED
      BY <3>1, <3>2 DEF Bound
  <2>3. \A t \in Server : t \notin queued => (t \in Bound' <=> t \in Bound)
    BY <1>7 DEF Bound
  <2>4. Listener \notin Bound'
    BY <1>4, <1>6 DEF Bound
  <2>5. Bound' = Bound \ {Listener}
    <3>1. \A t : t \in Bound' => t \in Bound \ {Listener}
      BY <2>2, <2>3, <2>4 DEF Bound
    <3>2. \A t : t \in Bound \ {Listener} => t \in Bound'
      BY <2>2, <2>3 DEF Bound
    <3> QED
      BY <3>1, <3>2
  <2> QED
    BY <1>1, <2>1, <2>5, OneLess DEF Inv
<1> QED
  BY <1>8, <1>9, <1>10, <1>11 DEF Inv
-----------------------------------------------------------------------------
LEMMA NextInv ==
    ASSUME Inv, [Next]_vars
    PROVE  Inv'
<1>1. CASE UNCHANGED vars
  <2>1. UNCHANGED <<sock, muxRef, nextId, worker, queued, accepted, acceptor, returned>>
    BY <1>1 DEF vars, handshake, accepting
  <2> QED
    BY <2>1 DEF Inv, Types, ListenerOK, Admits, MuxCounts, ServerOK, Made, Lives, Leaves, Waits,
                Numbered, Comes, Fresh, Known, Taken, Newest
<1>2. CASE Next
  <2>1. ASSUME NEW s \in Socket, Collects(s) PROVE Inv'
    <3>1. CASE s = Listener
      BY <2>1, <3>1, CloseListenerInv, RemoveListenerInv DEF Collects
    <3>2. CASE s # Listener
      BY <2>1, <3>2, CollectInv, Numbers
    <3> QED
      BY <3>1, <3>2
  <2>2. ASSUME NEW s \in Server, CloseCore(s) \/ CloseMove(s) \/ Break(s) \/ Unlist(s) PROVE Inv'
    BY <2>2, CloseInv, UnlistInv
  <2>3. ASSUME Receives PROVE Inv'
    BY <2>3, DequeueInv, AdmitInv, InsertInv, QueueInv DEF Receives
  <2> QED
    BY <1>2, <2>1, <2>2, <2>3, ListenerInv, AcceptInv, AnswerInv DEF Next
<1> QED
  BY <1>1, <1>2

\* The sockets of a process that listens, whatever their number, its backlog and the
\* peers that ask it.
THEOREM ListeningInvariant == Spec => []Inv
<1>1. Init => Inv
  BY InitInv
<1>2. Inv /\ [Next]_vars => Inv'
  BY NextInv
<1> QED
  BY <1>1, <1>2, PTL DEF Spec

\* newConnection looks the peer up before it makes a socket: however often a request is
\* repeated, and whatever breaks and is collected between its copies, a peer has one
\* working connection at most.
THEOREM OneConnection == Spec => []OneLive
<1>1. Inv => OneLive
  <2> SUFFICES ASSUME Inv, NEW s \in Server, NEW t \in Server, s # t, sock[s].live, sock[t].live,
                      sock[s].peer = sock[t].peer
               PROVE  FALSE
    BY DEF OneLive
  <2>1. s <= t /\ t <= s
    BY DEF Inv, Newest
  <2> QED
    BY <2>1, Numbers
<1> QED
  BY <1>1, ListeningInvariant, PTL

\* What the invariant says of the queue of the listener and of the multiplexer.
LEMMA SoundOf == Inv => TypeOK /\ QueuedAreOpen /\ MuxCounts
<1> SUFFICES ASSUME Inv PROVE TypeOK /\ QueuedAreOpen /\ MuxCounts
  OBVIOUS
<1>1. muxRef \in 0..(MaxId + 1)
  <2>1. Cardinality(Bound) \in Nat /\ Cardinality(Bound) <= Cardinality(Socket)
    BY BoundFinite, FS_Subset, FS_CardinalityType DEF Bound
  <2> QED
    BY <2>1, BoundFinite, ListeningAssumption DEF Inv, MuxCounts, Bound
<1>2. worker.pc \in {"idle", "dequeue", "admit", "insert", "queue"}
  BY WorkerIs DEF Inv, Types
<1>3. acceptor.pc \in {"idle", "awake", "waiting", "took", "stopped", "crashed"}
  BY AcceptorIs DEF Inv, Types
<1>4. TypeOK
  BY <1>1, <1>2, <1>3 DEF Inv, Types, TypeOK
<1>5. QueuedAreOpen
  BY DEF Inv, Types, ServerOK, Waits, QueuedAreOpen
<1> QED
  BY <1>4, <1>5 DEF Inv
-----------------------------------------------------------------------------
(* The threads that connect (UDTConnecting).                                *)

\* The threads that hold an instance: m_iInstanceCount counts them.
Active == {c \in Peer : thread[c] \notin {"out", "cleaning", "done"}}

CountIsRight == count = Cardinality(Active)

\* The last one out leaves no thread behind that holds an instance.
StoppedAlone == gc # "on" => Active = {}

\* A close in between its two parts is that of the thread that owns the socket.
LeavingActs == \A c \in Peer : socks[c].leaving => thread[c] \in {"up", "failed"}

\* What the collecting thread has closed at the end, and has deleted when it is gone.
Emptied == /\ gc = "draining" => \A c \in Peer : socks[c].where # "open"
           /\ C!OffMeansGone

ConnInv == C!TypeOK /\ CountIsRight /\ StoppedAlone /\ LeavingActs /\ Emptied
-----------------------------------------------------------------------------
LEMMA ActiveFinite ==
    ASSUME IsFiniteSet(Peer)
    PROVE  IsFiniteSet(Active)
  BY FS_Subset DEF Active

\* startup adds a thread to the count.
LEMMA OneMoreThread ==
    ASSUME IsFiniteSet(Peer), NEW c \in Peer, c \notin Active, Active' = Active \cup {c}
    PROVE  Cardinality(Active') = Cardinality(Active) + 1
  BY ActiveFinite, FS_AddElement

\* cleanup takes one out; nobody is left when the count is zero.
LEMMA OneLessThread ==
    ASSUME IsFiniteSet(Peer), NEW c \in Peer, c \in Active, Active' = Active \ {c}
    PROVE  /\ Cardinality(Active') = Cardinality(Active) - 1
           /\ Cardinality(Active') \in Nat
           /\ Cardinality(Active') = 0 => Active' = {}
<1>1. IsFiniteSet(Active) /\ IsFiniteSet(Active')
  BY ActiveFinite, FS_Subset
<1>2. Cardinality(Active') = Cardinality(Active) - 1
  BY <1>1, FS_RemoveElement
<1> QED
  BY <1>1, <1>2, FS_CardinalityType, FS_EmptySet

\* Steps that leave the threads active that are, and the collecting thread as it is.
LEMMA SameThreads ==
    ASSUME ConnInv, Active' = Active, UNCHANGED <<count, gc>>
    PROVE  CountIsRight' /\ StoppedAlone'
  BY DEF ConnInv, CountIsRight, StoppedAlone

LEMMA ConnInitInv ==
    ASSUME IsFiniteSet(Peer), C!Init
    PROVE  ConnInv
<1>1. C!TypeOK
  BY DEF C!Init, C!TypeOK
<1>2. Active = {}
  BY DEF C!Init, Active
<1>3. CountIsRight /\ StoppedAlone
  BY <1>2, FS_EmptySet DEF C!Init, CountIsRight, StoppedAlone
<1>4. LeavingActs /\ Emptied
  BY DEF C!Init, LeavingActs, Emptied, C!OffMeansGone
<1> QED
  BY <1>1, <1>3, <1>4 DEF ConnInv
-----------------------------------------------------------------------------
\* TypeOK of every step but cleanup, whose count may be any number.
Statuses == {"NONEXIST", "INIT", "OPENED", "CONNECTING", "CONNECTED", "CLOSED"}
Wheres == {"none", "open", "closed", "deleted"}
ConnRecord ==
    [status : Statuses, where : Wheres,
     live : BOOLEAN, broken : BOOLEAN, onList : BOOLEAN, leaving : BOOLEAN]

LEMMA ConnTypes ==
    ASSUME C!TypeOK, NEW c \in Peer
    PROVE  socks[c] \in ConnRecord /\ socks[c].status \in Statuses
  BY DEF C!TypeOK, ConnRecord, Statuses, Wheres

\* What the steps change in a socket leaves it of its type.
LEMMA Updates ==
    ASSUME NEW r \in ConnRecord, NEW s \in Statuses, NEW w \in Wheres, NEW l \in BOOLEAN
    PROVE  /\ [r EXCEPT !.status = s, !.where = w] \in ConnRecord
           /\ [r EXCEPT !.status = s, !.where = w, !.leaving = FALSE] \in ConnRecord
           /\ [r EXCEPT !.leaving = FALSE] \in ConnRecord
           /\ [r EXCEPT !.live = l, !.onList = l, !.status = s] \in ConnRecord
           /\ [r EXCEPT !.live = FALSE, !.broken = TRUE] \in ConnRecord
           /\ [r EXCEPT !.live = FALSE, !.broken = TRUE, !.status = s, !.where = w] \in ConnRecord
  BY DEF ConnRecord

\* A socket of its type in the place of another.
LEMMA ConnReplaced ==
    ASSUME C!TypeOK, NEW c \in Peer, NEW new \in ConnRecord,
           socks' = [socks EXCEPT ![c] = new]
    PROVE  socks' \in [Peer -> ConnRecord]
<1>1. socks \in [Peer -> ConnRecord]
  BY DEF C!TypeOK, ConnRecord, Statuses, Wheres
<1> QED
  BY <1>1

LEMMA CallerTypes ==
    ASSUME C!TypeOK, NEW c \in Peer,
           \/ C!startup(c) \/ C!newSocket(c) \/ C!connect(c) \/ C!ConnectTimesOut(c)
           \/ C!CloseCore(c) \/ C!CloseMove(c) \/ C!Abandon(c)
    PROVE  C!TypeOK'
<1>1. CASE C!startup(c)
  BY <1>1 DEF C!startup, C!Goes, C!TypeOK
<1>2. CASE C!newSocket(c)
  <2> DEFINE new == [socks[c] EXCEPT !.status = "INIT", !.where = "open"]
  <2>1. new \in ConnRecord
    BY ConnTypes, Updates DEF Statuses, Wheres
  <2>2. socks' = [socks EXCEPT ![c] = new]
    BY <1>2 DEF C!newSocket, C!TypeOK
  <2> HIDE DEF new
  <2>3. socks' \in [Peer -> ConnRecord]
    BY <2>1, <2>2, ConnReplaced
  <2> QED
    BY <1>2, <2>3 DEF C!newSocket, C!Goes, C!TypeOK, ConnRecord, Statuses, Wheres
<1>3. CASE C!connect(c)
  BY <1>3 DEF C!connect, C!Goes, C!TypeOK
<1>4. CASE C!ConnectTimesOut(c)
  BY <1>4 DEF C!ConnectTimesOut, C!Goes, C!TypeOK
<1>5. CASE C!CloseCore(c)
  BY <1>5 DEF C!CloseCore, C!Goes, C!TypeOK
<1>6. CASE C!CloseMove(c)
  <2> DEFINE new == IF C!Located(c) THEN [socks[c] EXCEPT !.status = "CLOSED", !.where = "closed",
                                                      !.leaving = FALSE]
                    ELSE [socks[c] EXCEPT !.leaving = FALSE]
  <2>1. new \in ConnRecord
    BY ConnTypes, Updates DEF Statuses, Wheres
  <2>2. socks' = [socks EXCEPT ![c] = new]
    BY <1>6 DEF C!CloseMove
  <2> HIDE DEF new
  <2>3. socks' \in [Peer -> ConnRecord]
    BY <2>1, <2>2, ConnReplaced
  <2> QED
    BY <1>6, <2>3 DEF C!CloseMove, C!Goes, C!TypeOK, ConnRecord, Statuses, Wheres
<1>7. CASE C!Abandon(c)
  BY <1>7 DEF C!Abandon, C!Goes, C!TypeOK
<1> QED
  BY <1>1, <1>2, <1>3, <1>4, <1>5, <1>6, <1>7

LEMMA AnswerTypes ==
    ASSUME C!TypeOK, NEW c \in Peer, NEW m \in {"cookie", "accept", "reject", "other"},
           C!ConnectGets(c, m)
    PROVE  C!TypeOK'
<1>1. connRes' \in [Peer -> {"none", "cookie", "accept", "reject"}]
  BY DEF C!ConnectGets, C!TypeOK
<1>2. CASE m = "cookie"
  BY <1>1, <1>2 DEF C!ConnectGets, C!TypeOK
<1>3. CASE m # "cookie"
  <2> DEFINE up(to) == [socks[c] EXCEPT !.live = m # "other", !.onList = m # "other",
                                        !.status = to]
  <2>1. PICK new \in ConnRecord : socks' = [socks EXCEPT ![c] = new]
    <3>1. CASE C!Failed(connRes'[c])
      <4>1. socks' = [socks EXCEPT ![c] = up("OPENED")]
        BY <1>3, <3>1 DEF C!ConnectGets, C!TypeOK
      <4>2. up("OPENED") \in ConnRecord
        BY ConnTypes, Updates DEF Statuses, Wheres
      <4> QED
        BY <4>1, <4>2
    <3>2. CASE ~C!Failed(connRes'[c]) /\ m = "other"
      <4>1. socks' = [socks EXCEPT ![c] = up(socks[c].status)]
        BY <1>3, <3>2 DEF C!ConnectGets, C!TypeOK
      <4>2. up(socks[c].status) \in ConnRecord
        BY ConnTypes, Updates DEF Wheres
      <4> QED
        BY <4>1, <4>2
    <3>3. CASE ~C!Failed(connRes'[c]) /\ m # "other"
      <4>1. socks' = [socks EXCEPT ![c] = up("CONNECTED")]
        BY <1>3, <3>3 DEF C!ConnectGets, C!TypeOK
      <4>2. up("CONNECTED") \in ConnRecord
        BY ConnTypes, Updates DEF Statuses, Wheres
      <4> QED
        BY <4>1, <4>2
    <3> QED
      BY <3>1, <3>2, <3>3
  <2>2. socks' \in [Peer -> ConnRecord]
    BY <2>1, ConnReplaced
  <2> QED
    BY <1>1, <1>3, <2>2 DEF C!ConnectGets, C!Goes, C!TypeOK, ConnRecord, Statuses, Wheres
<1> QED
  BY <1>2, <1>3

LEMMA WorkerTypes ==
    ASSUME C!TypeOK, NEW c \in Peer,
           C!Break(c) \/ C!Unlist(c) \/ C!CloseBroken(c) \/ C!removeSocket(c)
    PROVE  C!TypeOK'
<1>1. PICK new \in ConnRecord : socks' = [socks EXCEPT ![c] = new]
  <2>1. CASE C!Break(c)
    <3> DEFINE r == [socks[c] EXCEPT !.live = FALSE, !.broken = TRUE]
    <3>1. r \in ConnRecord
      BY ConnTypes, Updates DEF Statuses, Wheres
    <3>2. socks' = [socks EXCEPT ![c] = r]
      BY <2>1 DEF C!Break, C!TypeOK
    <3> QED
      BY <3>1, <3>2
  <2>2. CASE C!Unlist(c)
    BY <2>2, ConnTypes DEF C!Unlist, ConnRecord
  <2>3. CASE C!CloseBroken(c)
    <3> DEFINE r == [socks[c] EXCEPT !.status = "CLOSED", !.where = "closed"]
    <3>1. r \in ConnRecord
      BY ConnTypes, Updates DEF Statuses, Wheres
    <3>2. socks' = [socks EXCEPT ![c] = r]
      BY <2>3 DEF C!CloseBroken, C!TypeOK
    <3> QED
      BY <3>1, <3>2
  <2>4. CASE C!removeSocket(c)
    BY <2>4, ConnTypes DEF C!removeSocket, ConnRecord, Wheres
  <2> QED
    BY <2>1, <2>2, <2>3, <2>4
<1>2. socks' \in [Peer -> ConnRecord]
  BY <1>1, ConnReplaced
<1>3. UNCHANGED <<thread, connRes, count, gc>>
  BY DEF C!Break, C!Unlist, C!CloseBroken, C!removeSocket
<1> QED
  BY <1>2, <1>3 DEF C!TypeOK, ConnRecord, Statuses, Wheres
-----------------------------------------------------------------------------
\* A thread that holds an instance goes on and keeps it.
LEMMA Keeps ==
    ASSUME C!TypeOK, NEW c \in Active, NEW pc \in {"made", "connecting", "up", "failed", "closed", "gone"},
           C!Goes(c, pc)
    PROVE  Active' = Active
  BY DEF Active, C!Goes, C!TypeOK

\* What the caller does between startup and cleanup.
LEMMA CallerInv ==
    ASSUME ConnInv, NEW c \in Peer,
           \/ C!newSocket(c) \/ C!connect(c) \/ C!ConnectTimesOut(c)
           \/ C!CloseCore(c) \/ C!CloseMove(c) \/ C!Abandon(c)
    PROVE  ConnInv'
<1> USE DEF ConnInv
<1>1. C!TypeOK'
  BY CallerTypes
<1>2. c \in Active
  BY DEF C!newSocket, C!connect, C!ConnectTimesOut, C!CloseCore, C!CloseMove, C!Abandon, LeavingActs, Active
<1>3. gc = "on" /\ gc' = "on" /\ UNCHANGED <<count, gc>>
  BY <1>2 DEF C!newSocket, C!connect, C!ConnectTimesOut, C!CloseCore, C!CloseMove, C!Abandon, StoppedAlone
<1>4. Active' = Active
  <2>1. CASE UNCHANGED thread
    BY <2>1 DEF Active
  <2>2. CASE ~UNCHANGED thread
    <3>1. \E pc \in {"made", "connecting", "failed", "closed", "gone"} : C!Goes(c, pc)
      BY <2>2 DEF C!newSocket, C!connect, C!ConnectTimesOut, C!CloseCore, C!CloseMove, C!Abandon
    <3> QED
      BY <1>2, <3>1, Keeps
  <2> QED
    BY <2>1, <2>2
<1>5. CountIsRight' /\ StoppedAlone'
  BY <1>3, <1>4, SameThreads
<1>6. LeavingActs'
  <2>1. CASE C!newSocket(c)
    BY <2>1 DEF C!newSocket, C!Goes, LeavingActs, C!TypeOK
  <2>2. CASE C!connect(c)
    BY <2>2 DEF C!connect, C!Goes, LeavingActs, C!TypeOK
  <2>3. CASE C!ConnectTimesOut(c)
    BY <2>3 DEF C!ConnectTimesOut, C!Goes, LeavingActs, C!TypeOK
  <2>4. CASE C!CloseCore(c)
    BY <2>4 DEF C!CloseCore, C!Goes, LeavingActs, C!TypeOK
  <2>5. CASE C!CloseMove(c)
    <3>1. socks'[c].leaving = FALSE /\ \A d \in Peer \ {c} : socks'[d] = socks[d] /\ thread'[d] = thread[d]
      BY <2>5 DEF C!CloseMove, C!Goes, C!TypeOK
    <3> QED
      BY <3>1 DEF LeavingActs
  <2>6. CASE C!Abandon(c)
    BY <2>6 DEF C!Abandon, C!Goes, LeavingActs, C!TypeOK
  <2> QED
    BY <2>1, <2>2, <2>3, <2>4, <2>5, <2>6
<1>7. Emptied'
  BY <1>3 DEF Emptied, C!OffMeansGone
<1> QED
  BY <1>1, <1>5, <1>6, <1>7

LEMMA GetsInv ==
    ASSUME ConnInv, NEW c \in Peer, NEW m \in {"cookie", "accept", "reject", "other"},
           C!ConnectGets(c, m)
    PROVE  ConnInv'
<1> USE DEF ConnInv
<1>1. C!TypeOK'
  BY AnswerTypes
<1>2. c \in Active /\ ~socks[c].leaving
  BY DEF C!ConnectGets, LeavingActs, Active
<1>3. gc = "on" /\ gc' = "on" /\ UNCHANGED <<count, gc>>
  BY <1>2 DEF C!ConnectGets, StoppedAlone
<1>4. \A d \in Peer : socks'[d].leaving = socks[d].leaving
  <2>1. CASE m = "cookie"
    BY <2>1 DEF C!ConnectGets
  <2>2. CASE m # "cookie"
    BY <2>2 DEF C!ConnectGets, C!TypeOK
  <2> QED
    BY <2>1, <2>2
<1>5. UNCHANGED thread \/ \E pc \in {"failed", "up"} : C!Goes(c, pc)
  BY DEF C!ConnectGets
<1>6. Active' = Active
  <2>1. CASE UNCHANGED thread
    BY <2>1 DEF Active
  <2> QED
    BY <1>2, <1>5, <2>1, Keeps
<1>7. CountIsRight' /\ StoppedAlone'
  BY <1>3, <1>6, SameThreads
<1>8. LeavingActs'
  BY <1>2, <1>4, <1>5 DEF LeavingActs, C!Goes, C!TypeOK
<1>9. Emptied'
  BY <1>3 DEF Emptied, C!OffMeansGone
<1> QED
  BY <1>1, <1>7, <1>8, <1>9

LEMMA WorkerInv ==
    ASSUME ConnInv, NEW c \in Peer,
           C!Break(c) \/ C!Unlist(c) \/ C!CloseBroken(c) \/ C!removeSocket(c)
    PROVE  ConnInv'
<1> USE DEF ConnInv
<1>1. C!TypeOK'
  BY WorkerTypes
<1>2. UNCHANGED <<thread, count, gc>>
  BY DEF C!Break, C!Unlist, C!CloseBroken, C!removeSocket
<1>3. CountIsRight' /\ StoppedAlone'
  BY <1>2, SameThreads DEF Active
<1>4. \A d \in Peer : socks'[d].leaving = socks[d].leaving
  BY DEF C!Break, C!Unlist, C!CloseBroken, C!removeSocket, C!TypeOK
<1>5. LeavingActs'
  BY <1>2, <1>4 DEF LeavingActs
<1>6. Emptied'
  <2>1. CASE C!Break(c) \/ C!Unlist(c)
    <3>1. \A d \in Peer : socks'[d].where = socks[d].where
      BY <2>1 DEF C!Break, C!Unlist, C!TypeOK
    <3> QED
      BY <1>2, <3>1 DEF Emptied, C!OffMeansGone
  <2>2. CASE C!CloseBroken(c)
    BY <1>2, <2>2 DEF C!CloseBroken, C!Collecting, Emptied, C!OffMeansGone, C!TypeOK
  <2>3. CASE C!removeSocket(c)
    BY <1>2, <2>3 DEF C!removeSocket, Emptied, C!OffMeansGone, C!TypeOK
  <2> QED
    BY <2>1, <2>2, <2>3
<1> QED
  BY <1>1, <1>3, <1>5, <1>6

\* The steps that start and stop the collecting thread.
LEMMA StartupInv ==
    ASSUME IsFiniteSet(Peer), ConnInv, NEW c \in Peer, C!startup(c)
    PROVE  ConnInv'
<1> USE DEF ConnInv
<1>1. C!TypeOK'
  BY CallerTypes
<1>2. c \notin Active /\ Active' = Active \cup {c}
  BY DEF C!startup, C!Goes, Active, C!TypeOK
<1>3. CountIsRight'
  BY <1>2, OneMoreThread DEF C!startup, CountIsRight
<1>4. StoppedAlone' /\ Emptied'
  BY DEF C!startup, StoppedAlone, Emptied, C!OffMeansGone
<1>5. LeavingActs'
  BY DEF C!startup, C!Goes, LeavingActs, C!TypeOK
<1> QED
  BY <1>1, <1>3, <1>4, <1>5

LEMMA CleanupInv ==
    ASSUME IsFiniteSet(Peer), ConnInv, NEW c \in Peer, C!cleanup(c)
    PROVE  ConnInv'
<1> USE DEF ConnInv
<1>1. PICK pc \in {"done", "cleaning"} : C!Goes(c, pc)
  BY DEF C!cleanup
<1>2. c \in Active /\ Active' = Active \ {c}
  BY <1>1 DEF C!cleanup, C!Goes, Active, C!TypeOK
<1>3. count' = Cardinality(Active') /\ count' \in Nat /\ (count' = 0 => Active' = {})
  BY <1>2, OneLessThread DEF C!cleanup, CountIsRight
<1>4. gc' \in {"on", "final"} /\ (gc' # "on" => Active' = {})
  <2>1. CASE count' > 0
    BY <2>1 DEF C!cleanup
  <2>2. CASE ~(count' > 0)
    <3>1. count' \in Nat
      BY <1>3
    <3>2. count' = 0
      BY <2>2, <3>1
    <3> QED
      BY <1>3, <2>2, <3>2 DEF C!cleanup
  <2> QED
    BY <2>1, <2>2
<1>5. C!TypeOK'
  BY <1>1, <1>3, <1>4 DEF C!cleanup, C!Goes, C!TypeOK
<1>6. LeavingActs'
  BY <1>1 DEF C!cleanup, C!Goes, LeavingActs, C!TypeOK
<1> QED
  BY <1>3, <1>4, <1>5, <1>6 DEF CountIsRight, StoppedAlone, Emptied, C!OffMeansGone

LEMMA CloseAllInv ==
    ASSUME ConnInv, C!CloseAll
    PROVE  ConnInv'
<1> USE DEF ConnInv
<1> DEFINE shut(c) == [socks[c] EXCEPT !.live = FALSE, !.broken = TRUE,
                                       !.status = "CLOSED", !.where = "closed"]
<1>1. \A c \in Peer : /\ socks'[c] = IF socks[c].where = "open" THEN shut(c) ELSE socks[c]
                      /\ socks[c] \in ConnRecord
  BY ConnTypes DEF C!CloseAll
<1>2. \A c \in Peer : shut(c) \in ConnRecord
  BY <1>1, Updates DEF Statuses, Wheres
<1>3. ASSUME NEW c \in Peer
      PROVE  /\ socks'[c] \in ConnRecord
             /\ socks'[c].where # "open" /\ socks'[c].leaving = socks[c].leaving
  <2>1. socks'[c] \in ConnRecord
    BY <1>1, <1>2
  <2>2. CASE socks[c].where = "open"
    <3>1. socks'[c] = shut(c) /\ socks[c] \in ConnRecord
      BY <1>1, <2>2
    <3>2. shut(c).where = "closed" /\ shut(c).leaving = socks[c].leaving
      BY <3>1 DEF ConnRecord
    <3> QED
      BY <2>1, <3>1, <3>2
  <2>3. CASE socks[c].where # "open"
    BY <1>1, <2>1, <2>3
  <2> QED
    BY <2>2, <2>3
<1>4. socks' \in [Peer -> ConnRecord]
  BY <1>3 DEF C!CloseAll
<1>5. C!TypeOK'
  BY <1>4 DEF C!CloseAll, C!TypeOK, ConnRecord, Statuses, Wheres
<1>6. CountIsRight' /\ StoppedAlone'
  BY DEF C!CloseAll, CountIsRight, StoppedAlone, Active
<1>7. LeavingActs' /\ Emptied'
  BY <1>3 DEF C!CloseAll, LeavingActs, Emptied, C!OffMeansGone
<1> QED
  BY <1>5, <1>6, <1>7

LEMMA DrainedInv ==
    ASSUME ConnInv, C!Drained
    PROVE  ConnInv'
<1> USE DEF ConnInv
<1>1. C!TypeOK'
  BY DEF C!Drained, C!TypeOK
<1>2. Active' = Active /\ Active = {}
  BY DEF C!Drained, Active, StoppedAlone
<1>3. CountIsRight' /\ StoppedAlone'
  BY <1>2 DEF C!Drained, CountIsRight, StoppedAlone
<1>4. LeavingActs'
  BY DEF C!Drained, LeavingActs
<1>5. Emptied'
  BY DEF C!Drained, Emptied, C!OffMeansGone, C!TypeOK
<1> QED
  BY <1>1, <1>3, <1>4, <1>5

LEMMA ConnNextInv ==
    ASSUME IsFiniteSet(Peer), ConnInv, [C!Next]_(C!connVars)
    PROVE  ConnInv'
<1>1. CASE UNCHANGED C!connVars
  BY <1>1 DEF C!connVars, ConnInv, C!TypeOK, CountIsRight, StoppedAlone, LeavingActs, Emptied, C!OffMeansGone, Active
<1>2. CASE C!Next
  BY <1>2, CallerInv, GetsInv, WorkerInv, StartupInv, CleanupInv, CloseAllInv, DrainedInv
     DEF C!Next, C!Collects
<1> QED
  BY <1>1, <1>2

LEMMA ConnSound == ConnInv => C!TypeOK /\ C!FinalAlone /\ C!OffMeansGone
  BY DEF ConnInv, StoppedAlone, Active, C!FinalAlone, Emptied

\* Of any finite number of threads, one that starts UDT up while the last other cleans
\* up included: the count is that of the threads that hold an instance.
THEOREM InstancesCounted ==
    ASSUME IsFiniteSet(Peer)
    PROVE  C!Spec => []ConnInv
<1>1. C!Init => ConnInv
  BY ConnInitInv
<1>2. ConnInv /\ [C!Next]_(C!connVars) => ConnInv'
  BY ConnNextInv
<1> QED
  BY <1>1, <1>2, PTL DEF C!Spec

\* api.cpp cleanup and garbageCollect: no socket is closed while a thread still uses
\* the library, and none is left when the collecting thread has ended.
THEOREM StopsCleanly ==
    ASSUME IsFiniteSet(Peer)
    PROVE  C!Spec => [](C!TypeOK /\ C!FinalAlone /\ C!OffMeansGone)
<1> QED
  BY ConnSound, InstancesCounted, PTL
-----------------------------------------------------------------------------
(* The processes of the run, each of which listens or connects.              *)

\* The listener and the threads that connect, in one process each: what waits to be
\* accepted is open, the multiplexer lives as long as it is used, everything is closed only
\* when no caller is left, and a library that is off has left nothing behind.
THEOREM ProcessesAreSound ==
    ASSUME IsFiniteSet(Peer)
    PROVE  SocketsSpec => []SocketsAreSound
<1> DEFINE All == Inv /\ ConnInv
<1>1. SocketsInit => All
  BY InitInv, ConnInitInv DEF SocketsInit
<1>2. All /\ [SocketsNext]_<<process, vars, connecting, options>> => All'
  <2> SUFFICES ASSUME Inv, ConnInv, [SocketsNext]_<<process, vars, connecting, options>> PROVE All'
    OBVIOUS
  <2>1. [Next]_vars /\ [C!Next]_(C!connVars)
    BY DEF SocketsNext, connecting, C!connVars
  <2> QED
    BY <2>1, NextInv, ConnNextInv
<1>3. All => SocketsAreSound
  BY SoundOf, ConnSound DEF SocketsAreSound
<1> QED
  BY <1>1, <1>2, <1>3, PTL DEF SocketsSpec
-----------------------------------------------------------------------------
(* And of the sizes two sockets agree on, for the values of the run.         *)

LEMMA ValuesAreNumbers == O!Called
  BY DEF O!Called

\* Packets fit what receives them, windows the loss lists, and what getOpt reads can be
\* set again, whatever is set before and after open, connect and repeated handshakes.
THEOREM SizesOfTheRunAgree == SocketsSpec => []SizesAgree
<1>1. SocketsInit => O!Inv
  BY O!InitInv DEF SocketsInit
<1>2. O!Inv /\ [SocketsNext]_<<process, vars, connecting, options>> => O!Inv'
  <2> SUFFICES ASSUME O!Inv, [SocketsNext]_<<process, vars, connecting, options>> PROVE O!Inv'
    OBVIOUS
  <2>1. [O!Next]_(O!optVars)
    BY DEF SocketsNext, options, O!optVars
  <2> QED
    BY <2>1, ValuesAreNumbers, O!NextInv
<1>3. O!Inv => SizesAgree
  BY O!InvFits, O!InvWindows, O!InvReads DEF SizesAgree, O!SizesAgree
<1> QED
  BY <1>1, <1>2, <1>3, PTL DEF SocketsSpec
=============================================================================
