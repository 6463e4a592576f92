------------------------------- MODULE FFSNet -------------------------------
(***************************************************************************)
(* Transfers between a client of ffsnet.cpp and the daemon ffsnetd.cpp: calls *)
(* of several threads of one process download, upload or remove the same file *)
(* of the daemon, which serves each connection in a thread.  A connection is  *)
(* a reliable stream each way (UDTTransfer); it ends when a side closes, with *)
(* all that was sent delivered, or it breaks.                               *)
(***************************************************************************)
EXTENDS Integers, Sequences, FiniteSets

CONSTANTS Calls,      \* calls of ffs_recvfile, ffs_sendfile, ffs_rmfile, ffs_mkdir
          Size,       \* blocks of a file that is uploaded
          MaxBreaks   \* bound: connections that break

VARIABLES
    kind,             \* what each call asks for
    pc, ret,          \* where each call is, and what it returned
    sock,             \* its socket: none, init, open, broken, gone
    local,            \* the blocks of the file it downloads to
    promised,         \* the size the daemon announced to it
    sent, got,        \* blocks sent, and blocks received, of the file
    up, down,         \* the streams to the daemon and back
    spc, ssock,       \* the daemon's thread and socket for it
    inode,            \* the file that thread has open
    path, disk,       \* the daemon's file: where the name leads, and contents
    count, collecting,\* m_iInstanceCount and m_bGCStatus of the client
    breaks,
    first, stale      \* what was in the file as the thread opened it; whether it changed

clientVars == <<pc, ret, sock, local, promised, count, collecting>>
serverVars == <<spc, ssock, inode, path, disk, first, stale>>
vars == <<kind, clientVars, serverVars, sent, got, up, down, breaks>>

None == "none"
Old == "old"                       \* the file there was before
Inodes == Calls \cup {Old}
Kinds == {"get", "put", "rm", "mkdir"}
ASSUME CallsAssumption == Size \in Nat /\ None \notin Calls /\ Old \notin Calls

Source(c) == [i \in 1..Size |-> <<c, i>>]
Before(n) == [i \in 1..n |-> <<Old, i>>]   \* blocks of files there were before

\* A block written at an offset.
Written(s, k, b) == IF k <= Len(s) THEN [s EXCEPT ![k] = b] ELSE Append(s, b)

Init ==
    /\ kind \in [Calls -> Kinds]
    /\ pc = [c \in Calls |-> "start"] /\ ret = [c \in Calls |-> None]
    /\ sock = [c \in Calls |-> None] /\ ssock = [c \in Calls |-> None]
    /\ local = [c \in Calls |-> Before(Size + 2)] /\ promised = [c \in Calls |-> 0]
    /\ sent = [c \in Calls |-> 0] /\ got = [c \in Calls |-> 0]
    /\ up = [c \in Calls |-> <<>>] /\ down = [c \in Calls |-> <<>>]
    /\ spc = [c \in Calls |-> None] /\ inode = [c \in Calls |-> None]
    /\ path \in {None, Old} /\ disk = [i \in Inodes |-> IF i = Old THEN Before(Size + 1) ELSE <<>>]
    /\ count = 0 /\ collecting = FALSE /\ breaks = 0
    /\ first = [c \in Calls |-> <<>>] /\ stale = [c \in Calls |-> FALSE]
-----------------------------------------------------------------------------
(* The client. *)

Client(c, p) == pc' = [pc EXCEPT ![c] = p]

\* Most ways out leave the socket and the library as they are.
Return(c, r) == Client(c, "done") /\ ret' = [ret EXCEPT ![c] = r]

Dead(c) == sock[c] \in {"broken", "gone"}
Closed(s) == IF s = "open" THEN "broken" ELSE s

\* UDT::startup, UDT::socket.
Start(c) ==
    /\ pc[c] = "start" /\ Client(c, "connect")
    /\ count' = count + 1 /\ collecting' = TRUE
    /\ sock' = [sock EXCEPT ![c] = "init"]
    /\ UNCHANGED <<kind, ret, local, promised, serverVars, sent, got, up, down, breaks>>

\* UDT::connect; the daemon's socket waits to be accepted.
Connect(c) ==
    /\ pc[c] = "connect"
    /\ \/ Return(c, -1) /\ UNCHANGED <<sock, ssock>>
       \/ /\ Client(c, "request") /\ UNCHANGED ret
          /\ sock' = [sock EXCEPT ![c] = "open"] /\ ssock' = [ssock EXCEPT ![c] = "open"]
    /\ UNCHANGED <<kind, local, promised, count, collecting, spc, inode, path, disk, first, stale,
                   sent, got, up, down, breaks>>

\* The type, and the name with its length; of an upload also the size.
Request(c) ==
    /\ pc[c] = "request"
    /\ IF Dead(c) THEN Return(c, -1) /\ UNCHANGED up
       ELSE /\ up' = [up EXCEPT ![c] = <<kind[c], "name">>]
            /\ Client(c, kind[c]) /\ UNCHANGED ret
    /\ UNCHANGED <<kind, sock, local, promised, count, collecting, serverVars, sent, got, down, breaks>>

\* An upload that fails after the name returns success.
SendSize(c) ==
    /\ pc[c] = "put"
    /\ IF Dead(c) THEN Return(c, 0) /\ UNCHANGED up
       ELSE /\ up' = [up EXCEPT ![c] = Append(@, Size)] /\ Client(c, "sendfile") /\ UNCHANGED ret
    /\ UNCHANGED <<kind, sock, local, promised, count, collecting, serverVars, sent, got, down, breaks>>

SendFile(c) ==
    /\ pc[c] = "sendfile"
    /\ IF Dead(c) THEN Return(c, 0) /\ UNCHANGED <<up, sent>>
       ELSE IF sent[c] = Size THEN Client(c, "close") /\ UNCHANGED <<ret, up, sent>>
       ELSE /\ up' = [up EXCEPT ![c] = Append(@, Source(c)[sent[c] + 1])]
            /\ sent' = [sent EXCEPT ![c] = @ + 1] /\ UNCHANGED <<pc, ret>>
    /\ UNCHANGED <<kind, sock, local, promised, count, collecting, serverVars, got, down, breaks>>

\* Mutant: the file is opened without ios::trunc.
RecvSize_NoTrunc(c) ==
    /\ pc[c] = "get"
    /\ \/ /\ down[c] # <<>> /\ Head(down[c]) >= 0
          /\ promised' = [promised EXCEPT ![c] = Head(down[c])]
          /\ down' = [down EXCEPT ![c] = Tail(@)]
          /\ Client(c, "recvfile") /\ UNCHANGED <<ret, local>>
       \/ /\ \/ down[c] # <<>> /\ Head(down[c]) < 0
             \/ down[c] = <<>> /\ Dead(c)
          /\ Return(c, -1) /\ UNCHANGED <<promised, down, local>>
    /\ UNCHANGED <<kind, sock, count, collecting, serverVars, sent, got, up, breaks>>

\* The size, or a negative one if there is no such file; then the local file is emptied.
RecvSize(c) ==
    /\ pc[c] = "get"
    /\ \/ /\ down[c] # <<>> /\ Head(down[c]) >= 0
          /\ promised' = [promised EXCEPT ![c] = Head(down[c])]
          /\ down' = [down EXCEPT ![c] = Tail(@)] /\ local' = [local EXCEPT ![c] = <<>>]
          /\ Client(c, "recvfile") /\ UNCHANGED ret
       \/ /\ \/ down[c] # <<>> /\ Head(down[c]) < 0
             \/ down[c] = <<>> /\ Dead(c)
          /\ Return(c, -1) /\ UNCHANGED <<promised, down, local>>
    /\ UNCHANGED <<kind, sock, count, collecting, serverVars, sent, got, up, breaks>>

\* UDT::recvfile: what has come stays in the file if the connection breaks.
RecvFile(c) ==
    /\ pc[c] = "recvfile"
    /\ \/ /\ got[c] = promised[c] /\ Client(c, "close")
          /\ UNCHANGED <<ret, local, got, down>>
       \/ /\ got[c] < promised[c] /\ down[c] # <<>>
          /\ local' = [local EXCEPT ![c] = Written(@, got[c] + 1, Head(down[c]))]
          /\ got' = [got EXCEPT ![c] = @ + 1] /\ down' = [down EXCEPT ![c] = Tail(@)]
          /\ UNCHANGED <<pc, ret>>
       \/ /\ got[c] < promised[c] /\ down[c] = <<>> /\ Dead(c)
          /\ Return(c, -1) /\ UNCHANGED <<local, got, down>>
    /\ UNCHANGED <<kind, sock, promised, count, collecting, serverVars, sent, up, breaks>>

\* UDT::close waits until all is delivered; UDT::cleanup by the last call ends the
\* collection.  No value is returned: the caller finds any.
Close(c) ==
    /\ pc[c] = "close" /\ \E r \in {0, -1} : Return(c, r)
    /\ sock' = [sock EXCEPT ![c] = "gone"] /\ ssock' = [ssock EXCEPT ![c] = Closed(@)]
    /\ count' = count - 1 /\ collecting' = (count' > 0)
    /\ UNCHANGED <<kind, local, promised, spc, inode, path, disk, first, stale, sent, got, up, down, breaks>>

\* ffs_rmfile and ffs_mkdir: the status, or success if none comes.
Status(c) ==
    /\ pc[c] \in {"rm", "mkdir"}
    /\ \/ /\ down[c] # <<>> /\ Return(c, Head(down[c]))
          /\ down' = [down EXCEPT ![c] = Tail(@)]
       \/ down[c] = <<>> /\ Dead(c) /\ Return(c, 0) /\ UNCHANGED down
    /\ UNCHANGED <<kind, sock, local, promised, count, collecting, serverVars, sent, got, up, breaks>>

ClientStep(c) == \/ Start(c) \/ Connect(c) \/ Request(c) \/ SendSize(c) \/ SendFile(c)
                 \/ RecvSize(c) \/ RecvFile(c) \/ Close(c) \/ Status(c)
-----------------------------------------------------------------------------
(* The daemon: one thread for each connection. *)

Server(c, p) == spc' = [spc EXCEPT ![c] = p]
Unread == <<inode, path, disk, first, stale>>
Lost(c) == ssock[c] \in {"broken", "gone"}

\* UDT::close of the thread's socket.
Hangup(c) == /\ Server(c, "done") /\ ssock' = [ssock EXCEPT ![c] = "gone"]
             /\ sock' = [sock EXCEPT ![c] = Closed(@)]

\* accept and pthread_create.
Accept(c) ==
    /\ ssock[c] # None /\ spc[c] = None /\ Server(c, "type")
    /\ UNCHANGED <<kind, clientVars, ssock, Unread, sent, got, up, down, breaks>>

\* Without a type the thread ends and leaves its socket.
RecvType(c) ==
    /\ spc[c] = "type"
    /\ \/ up[c] # <<>> /\ Server(c, "name") /\ up' = [up EXCEPT ![c] = Tail(@)]
       \/ up[c] = <<>> /\ Lost(c) /\ Server(c, "done") /\ UNCHANGED up
    /\ UNCHANGED <<kind, clientVars, ssock, Unread, sent, got, down, breaks>>

\* The threads whose open file changes with that of the thread of c.
Touched(c, i) == [d \in Calls |-> stale[d] \/ (d # c /\ spc[d] # "done" /\ inode[d] = i)]

\* fstream with ios::trunc, for an upload; ifstream, for a download.
OpenFile(c) ==
    IF kind[c] = "put"
    THEN LET i == IF path = None THEN c ELSE path
         IN /\ path' = i /\ inode' = [inode EXCEPT ![c] = i] /\ disk' = [disk EXCEPT ![i] = <<>>]
            /\ stale' = Touched(c, i) /\ UNCHANGED first
    ELSE /\ inode' = [inode EXCEPT ![c] = path]
         /\ first' = [first EXCEPT ![c] = IF path = None THEN <<>> ELSE disk[path]]
         /\ stale' = [stale EXCEPT ![c] = \E d \in Calls : /\ kind[d] = "put" /\ inode[d] = path
                                                         /\ path # None /\ spc[d] # "done"]
         /\ UNCHANGED <<path, disk>>

RecvName(c) ==
    /\ spc[c] = "name"
    /\ \/ /\ up[c] # <<>> /\ Server(c, kind[c]) /\ up' = [up EXCEPT ![c] = Tail(@)]
          /\ IF kind[c] \in {"get", "put"} THEN OpenFile(c) ELSE UNCHANGED Unread
          /\ UNCHANGED <<ssock, sock>>
       \/ up[c] = <<>> /\ Lost(c) /\ Hangup(c) /\ UNCHANGED <<up, Unread>>
    /\ UNCHANGED <<kind, pc, ret, local, promised, count, collecting, sent, got, down, breaks>>

\* Download: the size, -1 without a file; sendfile sends nothing of such a file.
SendSizeOf(c) ==
    /\ spc[c] = "get"
    /\ LET size == IF inode[c] = None THEN -1 ELSE Len(disk[inode[c]])
       IN IF Lost(c) THEN Hangup(c) /\ UNCHANGED <<down, first>>
          ELSE /\ down' = [down EXCEPT ![c] = <<size>>]
               /\ first' = [first EXCEPT ![c] = IF size < 0 THEN <<>> ELSE disk[inode[c]]]
               /\ Server(c, IF size <= 0 THEN "hangup" ELSE "sending") /\ UNCHANGED <<ssock, sock>>
    /\ UNCHANGED <<kind, pc, ret, local, promised, count, collecting, inode, path, disk, stale,
                   sent, got, up, breaks>>

\* sendfile: it ends early with an error if the file has become shorter.
SendBlock(c) ==
    /\ spc[c] = "sending"
    /\ IF Lost(c) \/ (sent[c] < Len(first[c]) /\ sent[c] >= Len(disk[inode[c]]))
       THEN Hangup(c) /\ UNCHANGED <<down, sent>>
       ELSE /\ UNCHANGED <<ssock, sock>>
            /\ IF sent[c] = Len(first[c]) THEN Server(c, "hangup") /\ UNCHANGED <<down, sent>>
               ELSE /\ down' = [down EXCEPT ![c] = Append(@, disk[inode[c]][sent[c] + 1])]
                    /\ sent' = [sent EXCEPT ![c] = @ + 1] /\ UNCHANGED spc
    /\ UNCHANGED <<kind, pc, ret, local, promised, count, collecting, Unread, got, up, breaks>>

\* Upload: the size, then the blocks, written at their offsets.
RecvBlock(c) ==
    /\ spc[c] \in {"put", "receiving"}
    /\ \/ /\ spc[c] = "put" /\ up[c] # <<>> /\ Server(c, "receiving")
          /\ up' = [up EXCEPT ![c] = Tail(@)] /\ UNCHANGED <<disk, got, stale, ssock, sock>>
       \/ /\ spc[c] = "receiving" /\ got[c] < Size /\ up[c] # <<>>
          /\ disk' = [disk EXCEPT ![inode[c]] = Written(@, got[c] + 1, Head(up[c]))]
          /\ stale' = Touched(c, inode[c])
          /\ got' = [got EXCEPT ![c] = @ + 1] /\ up' = [up EXCEPT ![c] = Tail(@)]
          /\ UNCHANGED <<spc, ssock, sock>>
       \/ /\ spc[c] = "receiving" /\ got[c] = Size /\ Server(c, "hangup")
          /\ UNCHANGED <<up, disk, got, stale, ssock, sock>>
       \/ /\ up[c] = <<>> /\ Lost(c) /\ (spc[c] = "put" \/ got[c] < Size)
          /\ Hangup(c) /\ UNCHANGED <<up, disk, got, stale>>
    /\ UNCHANGED <<kind, pc, ret, local, promised, count, collecting, inode, path, first,
                   sent, down, breaks>>

\* Mutant: nothing is closed where there is nothing to remove.
Remove_Silent(c) ==
    /\ spc[c] = "rm"
    /\ \/ /\ path # None /\ path' = None /\ Server(c, "status") /\ UNCHANGED <<ssock, sock>>
       \/ path = None /\ Server(c, "done") /\ UNCHANGED <<path, ssock, sock>>
    /\ UNCHANGED <<kind, pc, ret, local, promised, count, collecting, inode, disk, first, stale,
                   sent, got, up, down, breaks>>

\* unlink; if it fails the connection is closed before the status could be sent.
Remove(c) ==
    /\ spc[c] = "rm"
    /\ \/ /\ path # None /\ path' = None /\ Server(c, "status") /\ UNCHANGED <<ssock, sock>>
       \/ path = None /\ Hangup(c) /\ UNCHANGED path
    /\ UNCHANGED <<kind, pc, ret, local, promised, count, collecting, inode, disk, first, stale,
                   sent, got, up, down, breaks>>

\* The status of a removal, or of a directory that exists or is made.
SendStatus(c) ==
    /\ spc[c] \in {"status", "mkdir"}
    /\ IF Lost(c) THEN Hangup(c) /\ UNCHANGED down
       ELSE /\ down' = [down EXCEPT ![c] = <<0>>] /\ Server(c, "hangup") /\ UNCHANGED <<ssock, sock>>
    /\ UNCHANGED <<kind, pc, ret, local, promised, count, collecting, Unread, sent, got, up, breaks>>

\* Mutant: the thread ends and leaves the socket.
CleanUp_Leave(c) ==
    /\ spc[c] = "hangup" /\ Server(c, "done")
    /\ UNCHANGED <<kind, clientVars, ssock, Unread, sent, got, up, down, breaks>>

CleanUp(c) ==
    /\ spc[c] = "hangup" /\ Hangup(c)
    /\ UNCHANGED <<kind, pc, ret, local, promised, count, collecting, Unread, sent, got, up, down, breaks>>

ServerStep(c) == \/ Accept(c) \/ RecvType(c) \/ RecvName(c) \/ SendSizeOf(c) \/ SendBlock(c)
                 \/ RecvBlock(c) \/ Remove(c) \/ SendStatus(c) \/ CleanUp(c)
-----------------------------------------------------------------------------
(* The library and the network. *)

\* checkBrokenSockets: a broken socket is closed once what came has been read.
Collect(c) ==
    /\ \/ /\ collecting /\ sock[c] = "broken" /\ (down[c] = <<>> \/ pc[c] = "done")
          /\ sock' = [sock EXCEPT ![c] = "gone"] /\ UNCHANGED ssock
       \/ /\ ssock[c] = "broken" /\ (up[c] = <<>> \/ spc[c] = "done")
          /\ ssock' = [ssock EXCEPT ![c] = "gone"] /\ UNCHANGED sock
    /\ UNCHANGED <<kind, pc, ret, local, promised, count, collecting, spc, Unread, sent, got, up, down, breaks>>

\* The connection is lost, with any part of what was on the way.
Break(c) ==
    /\ breaks < MaxBreaks /\ breaks' = breaks + 1
    /\ sock[c] = "open" /\ ssock[c] = "open"
    /\ sock' = [sock EXCEPT ![c] = "broken"] /\ ssock' = [ssock EXCEPT ![c] = "broken"]
    /\ \E m \in 0..Len(up[c]), n \in 0..Len(down[c]) :
          /\ up' = [up EXCEPT ![c] = SubSeq(@, 1, m)]
          /\ down' = [down EXCEPT ![c] = SubSeq(@, 1, n)]
    /\ UNCHANGED <<kind, pc, ret, local, promised, count, collecting, spc, Unread, sent, got>>

Next == \E c \in Calls : ClientStep(c) \/ ServerStep(c) \/ Collect(c) \/ Break(c)

\* Threads run on, the daemon accepts, and the collecting threads come round.
Fairness == \A c \in Calls : WF_vars(ClientStep(c)) /\ WF_vars(ServerStep(c)) /\ WF_vars(Collect(c))

Spec == Init /\ [][Next]_vars /\ Fairness
-----------------------------------------------------------------------------
\* The daemon reads the size and then the blocks while others write (ffsnetd.cpp
\* sendfile): a download that comes to its end is the file as it was opened, unless an
\* upload of the same file ran meanwhile; with one it still has the size announced.
CopyIsExact ==
    \A c \in Calls : kind[c] = "get" /\ pc[c] = "close" =>
        /\ Len(local[c]) = promised[c]
        /\ ~stale[c] => local[c] = first[c]

\* An upload the daemon has received whole is in the file, unless another one of the same
\* file ran meanwhile (ffsnetd.cpp recvfile at offset, ios::trunc).
UploadIsWhole ==
    \A c \in Calls : kind[c] = "put" /\ spc[c] = "hangup" /\ ~stale[c] => disk[inode[c]] = Source(c)

\* While a call is on its way the library collects sockets (startup and cleanup around
\* each call of every thread).
LibraryIsUp == \A c \in Calls : pc[c] \notin {"start", "done"} => collecting /\ count > 0

\* Downloads and uploads that come to their end are whole, and the library runs under
\* every one of them (sendfile, recvfile, startup and cleanup of each call).
TransfersAreWhole == CopyIsExact /\ UploadIsWhole /\ LibraryIsUp

\* Every call comes back, whatever the daemon finds and whichever connection breaks:
\* what a thread of the daemon leaves unsent must end in a closed socket.
CallsReturn == \A c \in Calls : pc[c] = "connect" ~> pc[c] = "done"

\* ffs_rmfile, ffs_mkdir and every failure leave the socket to the library: both
\* ends of a connection are closed in the end.
SocketsGo == \A c \in Calls : sock[c] = "open" ~> (sock[c] = "gone" /\ ssock[c] = "gone")
=============================================================================
