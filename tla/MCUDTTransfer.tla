---- MODULE MCUDTTransfer ----
\* A connection on which packets of a stream are sent, with small sequence numbers that
\* wrap between the first two, or one that carries messages of two packets and of one,
\* the first of which has a time to live and the second asks for no order: part says
\* which.
EXTENDS UDTMessages

VARIABLE part

allVars == <<part, vars, msgVars>>

\* The packets of three messages.
MCMsgOf == <<1, 2, 3, 3>>

\* Bound: packets of a stream.
Sends == 2

Stream(A) == part = "stream" /\ A /\ added' <= Sends /\ UNCHANGED <<part, msgVars>>

\* Bound: once a message is given up only the request arrives.  What can follow is
\* what the run MCUDTMessages looks at.
Messages == part = "messages" /\ dropped = {} /\ UNCHANGED part
Request(m) == part = "messages" /\ ProcessDrop(m, net \ {m}) /\ UNCHANGED part

PartsInit == part \in {"stream", "messages"} /\ MsgInit

PartsNext == \/ Stream(Next)
             \/ Messages /\ MsgNext
             \/ \E m \in net : Request(m)

\* The fairness is that of UDTTransfer, for the stream.
PartsSpec ==
    /\ PartsInit /\ [][PartsNext]_allVars
    /\ WF_allVars(Stream(send)) /\ WF_allVars(Stream(recv)) /\ WF_allVars(Stream(Expire))
    /\ WF_allVars(Stream(TakeLost)) /\ SF_allVars(Stream(SendLost \/ SendNew))
    /\ SF_allVars(Stream(SendAck))
    /\ WF_allVars(\E m \in net : Stream(Lose(m)))
    /\ SF_allVars(Stream(Arrives("ack")))
    /\ \A d \in 1..Sends : SF_allVars(Stream(DataArrives(d)))
----
\* As in UDTTransfer: both ends of a stream agree, and when close returns in time all
\* that was sent can be read.
EndsAgree == part = "stream" => WindowsAgree /\ CloseDelivers

\* As in UDTTransfer and UDTMessages, until a message is given up: both ends agree of
\* messages too, which are read whole, once, and in order if they ask for it.
ReadsAreWhole == part = "messages" => /\ dropped = {} => WindowsAgree
                                      /\ MessagesAreWhole

\* As in UDTTransfer: what is read of a stream is what was sent, once and in order.
Written == INSTANCE Stream WITH sent <- IF part = "stream" THEN added ELSE 0
ReadsInOrder == Written!Spec

\* As in UDTTransfer: what is sent on a stream is read, unless the connection breaks or an
\* end gives up.
AllArrives == part = "stream" => EverythingArrives
----
\* The connection of messages without the bound.
MessagesSpec == /\ part = "messages" /\ MsgInit
                /\ [][MsgNext /\ UNCHANGED part]_allVars
====
