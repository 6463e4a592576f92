---- MODULE MCUDTSockets ----
\* The sockets of one process: of one that listens, to which two peers connect,
\* or of one in which two threads connect; and the sizes two sockets agree on.
EXTENDS UDTListening

CONSTANTS p1, p2

VARIABLES process, socks, thread, connRes, count, gc,
          opt, status, unit, conn, responses, sets

connecting == <<socks, thread, connRes, count, gc>>
options == <<opt, status, unit, conn, responses, sets>>

C == INSTANCE UDTConnecting WITH Client <- Peer

\* A small and a large value of everything; no product of two passes an int.
O == INSTANCE UDTOptions WITH MSSs <- {1052, 9000}, FCs <- {1, 40000}, Bytes <- {1, 60000000},
         UDPs <- {1000, 100000}, MaxSets <- 3, Lowered <- FALSE

SocketsInit == process \in {"listens", "connects", "options"} /\ Init /\ C!Init /\ O!Init

SocketsNext == \/ process = "listens" /\ Next /\ UNCHANGED <<process, connecting, options>>
               \/ process = "connects" /\ C!Next /\ UNCHANGED <<process, vars, options>>
               \/ process = "options" /\ O!Next /\ UNCHANGED <<process, vars, connecting>>

\* The actions that are fair are not possible in the initial states.
SocketsSpec == /\ SocketsInit /\ [][SocketsNext]_<<process, vars, connecting, options>>
               /\ Fairness /\ C!Fairness

\* As in UDTListening and UDTConnecting: what waits to be accepted is open, the
\* multiplexer lives as long as it is used, everything is closed only when no caller
\* is left, and a library that is off has left nothing behind.
SocketsAreSound == /\ TypeOK /\ QueuedAreOpen /\ MuxCounts
                   /\ C!TypeOK /\ C!FinalAlone /\ C!OffMeansGone

\* As in UDTConnecting: the last cleanup returns.
CleanupReturns == C!CleanupReturns

\* As in UDTOptions: what was set, negotiated and granted agrees on both ends.
SizesAgree == O!SizesAgree

\* As in UDTListening and UDTConnecting: what was closed, or broke, is deleted.
AllCollected == Collected /\ C!Collected
====
