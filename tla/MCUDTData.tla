---- MODULE MCUDTData ----
\* The lists, buffers, windows, queues and polls that UDT connections are built
\* from, each on its own and small: part says which one runs; the others stand
\* still.
EXTENDS Integers

CONSTANTS s1, s2, s3,  \* sockets
          NoSock

VARIABLES
    part,
    sList, sUna, sCur, sRet,                                     \* UDTSndLossList
    rList, rUna, rCur, rRet,                                     \* UDTRcvLossList
    block, firstBlock, currBlock, lastBlock, count, adding, msgNo, blockRet, \* UDTSndBuffer
    unit, startPos, lastAckPos, maxPos, notch, base, dropped, given, unitRet, \* UDTRcvBuffer
    ackSeqNo, ackData, ackHead, ackTail, ackLast, ackRet, arrivals, ptr,     \* UDTWindow
    entries, used, currEntry, avail, unitCount, wload, rload, got, searching, \* UDTUnitQueue
    heap, loc, due, up, lock, sendPc, ahead, sched, closing,                 \* UDTSchedule
    first, last, next, prev, old, onList, hash, fresh, rid, stored,
    rcvSt, callerPc, rcvPc, rcvSock,                                         \* UDTRcvQueue
    seed, polls, in, out, reads, writes, ids, data, room,
    pollSt, workerPc, readerPc, senderPc, appPc, waiter                      \* UDTEPoll

sndLossVars == <<sList, sUna, sCur, sRet>>
rcvLossVars == <<rList, rUna, rCur, rRet>>
sndBufVars == <<block, firstBlock, currBlock, lastBlock, count, adding, msgNo, blockRet>>
rcvBufVars == <<unit, startPos, lastAckPos, maxPos, notch, base, dropped, given, unitRet>>
windowVars == <<ackSeqNo, ackData, ackHead, ackTail, ackLast, ackRet, arrivals, ptr>>
unitVars == <<entries, used, currEntry, avail, unitCount, wload, rload, got, searching>>
listVars == <<sndLossVars, rcvLossVars, sndBufVars, rcvBufVars, windowVars>>
sndVars == <<heap, loc, due, up, lock, sendPc, ahead, sched, closing>>
rcvVars == <<first, last, next, prev, old, onList, hash, fresh, rid, stored,
             rcvSt, callerPc, rcvPc, rcvSock>>
pollVars == <<seed, polls, in, out, reads, writes, ids, data, room,
              pollSt, workerPc, readerPc, senderPc, appPc, waiter>>
queueVars == <<unitVars, sndVars, rcvVars, pollVars>>
allVars == <<part, listVars, queueVars>>

SL == INSTANCE UDTSndLossList WITH MaxSeqNo <- 7, SeqNoTH <- 4, Size <- 6, Window <- 3,
          list <- sList, una <- sUna, cur <- sCur, ret <- sRet

RL == INSTANCE UDTRcvLossList WITH MaxSeqNo <- 11, SeqNoTH <- 6, Size <- 5, DropAcross <- FALSE,
          list <- rList, una <- rUna, cur <- rCur, ret <- rRet

SB == INSTANCE UDTSndBuffer WITH UnitSize <- 2, MaxSize <- 4, MaxLen <- 2, MaxMsgNo <- 6,
          first <- firstBlock, curr <- currBlock, last <- lastBlock, ret <- blockRet

\* What the theorems on the send buffer assume.
ASSUME SndBufferAssumption == SB!Bounds

\* Messages of one, two and three packets, some of which ask for no order.
MsgOf == [s \in 0..9 |-> CASE s \in {0, 1} -> 0 [] s \in {3, 4} -> 3 [] s \in 6..8 -> 6
                           [] OTHER -> s]

RB == INSTANCE UDTRcvBuffer WITH Size <- 4, Bytes <- 2, Packets <- 10, MaxRead <- 3,
          Unordered <- {2, 3, 6}, ret <- unitRet

W == INSTANCE UDTWindow WITH Size <- 3, MaxSeq <- 4, Payload <- {1, 2}, AWSize <- 4,
          Intervals <- {0, 1, 30}, Second <- 1000,
          seqNo <- ackSeqNo, ack <- ackData, head <- ackHead, tail <- ackTail,
          last <- ackLast, ret <- ackRet

\* What those on the windows assume.
ASSUME WindowAssumption == W!Sizes

UQ == INSTANCE UDTUnitQueue WITH EntrySize <- 3, MaxEntries <- 2, MaxDrift <- 2, Num <- 6, Den <- 10,
          curr <- currEntry, count <- unitCount

S == INSTANCE UDTSchedule WITH Socks <- {s1, s2, s3}, MaxDelay <- 2, wpc <- sendPc

\* What that on the sending thread assumes.
ASSUME ScheduleAssumption == S!Given

R == INSTANCE UDTRcvQueue WITH Socks <- {s1, s2, s3}, Async <- {s1, s2}, MaxStored <- 1,
         st <- rcvSt, cpc <- callerPc, wpc <- rcvPc, wsock <- rcvSock

\* What that on the receiving thread assumes.
ASSUME RcvQueueAssumption == R!Given

E == INSTANCE UDTEPoll WITH Socks <- {s1}, MaxEid <- 1, st <- pollSt, wpc <- workerPc,
         rpc <- readerPc, spc <- senderPc, apc <- appPc

Parts == {"send losses", "receive losses", "send buffer", "stream", "messages",
          "acknowledgements", "arrivals", "units", "sending", "receiving", "polling"}

DataInit == /\ part \in Parts
            /\ SL!Init /\ RL!Init /\ SB!Init /\ RB!Init /\ W!Init
            /\ UQ!Init /\ S!Init /\ R!Init /\ E!Init

ListNext ==
    \/ /\ part = "send losses" /\ SL!Next
       /\ UNCHANGED <<rcvLossVars, sndBufVars, rcvBufVars, windowVars>>
    \/ /\ part = "receive losses" /\ RL!Next
       /\ UNCHANGED <<sndLossVars, sndBufVars, rcvBufVars, windowVars>>
    \/ /\ part = "send buffer" /\ SB!Next
       /\ UNCHANGED <<sndLossVars, rcvLossVars, rcvBufVars, windowVars>>
    \/ /\ \/ part = "stream" /\ RB!StreamNext
          \/ part = "messages" /\ RB!MessageNext
       /\ UNCHANGED <<sndLossVars, rcvLossVars, sndBufVars, windowVars>>
    \/ /\ \/ part = "acknowledgements" /\ W!AckStep
          \/ part = "arrivals" /\ W!ArrivalStep
       /\ UNCHANGED <<sndLossVars, rcvLossVars, sndBufVars, rcvBufVars>>

QueueNext ==
    \/ part = "units" /\ UQ!Next /\ UNCHANGED <<sndVars, rcvVars, pollVars>>
    \/ part = "sending" /\ S!Next /\ UNCHANGED <<unitVars, rcvVars, pollVars>>
    \/ part = "receiving" /\ R!Next /\ UNCHANGED <<unitVars, sndVars, pollVars>>
    \/ part = "polling" /\ E!Next /\ UNCHANGED <<unitVars, sndVars, rcvVars>>

DataNext == /\ UNCHANGED part
            /\ \/ ListNext /\ UNCHANGED queueVars
               \/ QueueNext /\ UNCHANGED listVars

\* The fairness is that of each module: the lists, buffers and windows state none.
DataSpec ==
    /\ DataInit /\ [][DataNext]_allVars
    /\ WF_unitVars(part = "units" /\ UQ!getNextAvailUnit)
    /\ WF_unitVars(part = "units" /\ (UQ!addData \/ UQ!Leave))
    /\ WF_unitVars(part = "units" /\ rload # UQ!None /\ UQ!readBuffer)
    /\ WF_sndVars(part = "sending" /\ S!Worker)
    /\ WF_sndVars(part = "sending" /\ S!Tick)
    /\ WF_sndVars(part = "sending" /\ S!Signal)
    /\ WF_rcvVars(part = "receiving" /\ R!Worker)
    /\ SF_rcvVars(part = "receiving" /\ R!Age)
    /\ WF_pollVars(part = "polling" /\ E!WaitStep)
----
\* Each property is asked while its part runs; the parts that stand still have it.

\* As in the modules: the counters of each structure, its links and what the sockets
\* know of their places in it agree, the oldest entries are first, and nothing that was
\* freed or is not watched is found in it.
StructuresAreSound ==
    /\ part = "send losses" => SL!ListIsSound
    /\ part = "receive losses" => RL!ListIsSound
    /\ part = "send buffer" => SB!CountsPackets /\ SB!RingIsWhole
    /\ part = "arrivals" => W!SpeedIsSound
    /\ part = "sending" => S!PlacesAgree
    /\ part = "receiving" => R!ListIsWhole /\ R!OldestFirst /\ R!FreedIsForgotten /\ R!OneStray
    /\ part = "polling" => E!ReportedIsWatched

\* As in UDTSndLossList and UDTRcvLossList: each list behaves as a set of sequence numbers.
LossesAreSets == [][/\ part = "send losses" => SL!KeepsSet
                    /\ part = "receive losses" => RL!KeepsSet]_<<sndLossVars, rcvLossVars>>

\* As in UDTSndBuffer: a queue of packets.
SendsInOrder == [][part = "send buffer" => SB!KeepsQueue]_sndBufVars

\* As in UDTRcvBuffer: the bytes of a stream are read in order, none twice; messages are
\* read whole, once, and in order if they ask for it.
DataIsRead == [][/\ part = "stream" => RB!KeepsBytes
                 /\ part = "messages" => RB!KeepsMessages]_rcvBufVars

\* As in UDTWindow: the last acknowledgements are remembered, in order.
AcksAreRemembered == [][part = "acknowledgements" => W!KeepsLog]_windowVars

\* As in UDTUnitQueue and UDTSchedule: a wrong count never stops the reception, and the
\* worker that sends wakes up and ends.
WorkersServe == (part = "units" => UQ!FreeIsFound) /\ S!WorkerAwake /\ S!WorkerExits

\* As in UDTRcvQueue and UDTEPoll: closed sockets leave the list, and a released wait ends.
WaitsEnd == R!ClosedLeaves /\ E!ReleasedWaitEnds
====
