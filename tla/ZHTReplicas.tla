------------------------------ MODULE ZHTReplicas ------------------------------
(* A ZHT server that forwards inserts to the replicas beside it, as           *)
(* server_general.cpp does when NUM_REPLICAS is above zero: it keeps one      *)
(* connection to each, reads no answers, and sends no removal on.  A replica  *)
(* is a server process on another port, with a table of its own.              *)
EXTENDS Integers, Sequences

CONSTANTS
    Key,
    NHost,        \* nHost, the length of the member list
    NumReplicas,  \* NUM_REPLICAS; main sets up two
    MaxInserts,   \* bound on the inserts
    MaxCrashes    \* bound on the crashes of replicas

VARIABLES
    myIndex,  \* what Host2Index finds for "localhost"
    table,    \* the server's table: the number of the insert, 0 for a missing key
    count,    \* inserts so far
    alive,    \* the server runs
    dest,     \* dest[i]: what the socket in Replicas[i - 1] is
    link,     \* link[i]: packages on their way over it
    copy,     \* copy[h]: the table of the replica on a host
    up, fell  \* replicas that run, replicas that crashed; how often

replVars == <<myIndex, table, count, alive, dest, link, copy, up, fell>>

Host == 0 .. NHost - 1
Replica == 1 .. NumReplicas
Empty == [k \in Key |-> 0]

\* The loop of Host2Index over the names of the list, which may not have it.
Host2Index == {-1} \union Host

\* Mutant: every replica is the next host.
Place_Next(i) == (myIndex + 1) % NHost

Place(i) == (myIndex + i) % NHost

Init ==
    /\ myIndex \in Host2Index
    /\ table = Empty /\ count = 0 /\ alive = TRUE
    /\ dest = [i \in Replica |-> IF i <= 2 THEN "none" ELSE "stdin"]
    /\ link = [i \in Replica |-> <<>>]
    /\ copy = [h \in Host |-> Empty] /\ up = Host /\ fell = <<>>
-------------------------------------------------------------------------------
\* makeConnForReplica: connects if there is no socket; a failure leaves none.
makeConnForReplica(i) == IF dest[i] = "none" /\ Place(i) \in up THEN "open" ELSE dest[i]

(* What a send leaves the socket in.  The first one after the replica fell    *)
(* is lost; a later one may find the connection reset, which ends a process   *)
(* that does not ignore SIGPIPE.                                              *)
SendTo(sock) == CASE sock = "lost"  -> {"reset"}
                  [] sock = "reset" -> {"reset", "broken pipe"}
                  [] OTHER          -> {sock}

\* Mutant of Targets: the loop ends one early.
Targets_NotFirst == 2 .. NumReplicas

\* The replicas the loop of dataService visits, the last first.
Targets == 1 .. NumReplicas

\* general_replica for one replica after the other, until one ends the process.
Forward(m) ==
    LET sock == [i \in Replica |-> makeConnForReplica(i)]
    IN  \E after \in [Replica -> {"none", "stdin", "open", "reset", "broken pipe", "lost"}] :
          LET ends == {i \in Targets : after[i] = "broken pipe"}
              visited == {i \in Targets : \A j \in ends : i >= j}
          IN  /\ \A i \in Replica : IF i \in visited THEN after[i] \in SendTo(sock[i])
                                                     ELSE after[i] = dest[i]
              /\ dest' = after
              /\ link' = [i \in Replica |-> IF i \in visited /\ after[i] = "open"
                                            THEN Append(link[i], m) ELSE link[i]]
              /\ alive' = (ends = {})

\* dataService of an insert a client sent (replicano 5).
insert(k) ==
    /\ alive /\ count < MaxInserts
    /\ count' = count + 1
    /\ table' = [table EXCEPT ![k] = count + 1]
    /\ Forward([key |-> k, val |-> count + 1])
    /\ UNCHANGED <<myIndex, copy, up, fell>>

\* dataService of a removal, which clients send with replicano 3.
remove(k) ==
    /\ alive /\ table[k] # 0
    /\ table' = [table EXCEPT ![k] = 0]
    /\ UNCHANGED <<myIndex, count, alive, dest, link, copy, up, fell>>

(* The event loop of a replica takes what has arrived for one package: of     *)
(* several the last one's fields win.  Nothing is sent on (replicano 3), and  *)
(* the answer is never read.                                                  *)
Receive(i) ==
    /\ dest[i] = "open"
    /\ \E n \in 1 .. Len(link[i]) :
          LET m == link[i][n]
          IN  /\ copy' = [copy EXCEPT ![Place(i)][m.key] = m.val]
              /\ link' = [link EXCEPT ![i] = SubSeq(@, n + 1, Len(@))]
    /\ UNCHANGED <<myIndex, table, count, alive, dest, up, fell>>

\* A replica has no file: its table is gone, and so is what was on its way.
CrashReplica(h) ==
    /\ h \in up /\ Len(fell) < MaxCrashes
    /\ up' = up \ {h} /\ fell' = Append(fell, h)
    /\ copy' = [copy EXCEPT ![h] = Empty]
    /\ dest' = [i \in Replica |-> IF Place(i) = h /\ dest[i] = "open" THEN "lost" ELSE dest[i]]
    /\ link' = [i \in Replica |-> IF Place(i) = h THEN <<>> ELSE link[i]]
    /\ UNCHANGED <<myIndex, table, count, alive>>

\* The server still has the old socket and does not connect again.
RestartReplica(h) ==
    /\ h \notin up
    /\ up' = up \union {h}
    /\ UNCHANGED <<myIndex, table, count, alive, dest, link, copy, fell>>

Next ==
    \/ \E k \in Key : insert(k) \/ remove(k)
    \/ \E i \in Replica : Receive(i)
    \/ \E h \in Host : CrashReplica(h) \/ RestartReplica(h)

Spec == Init /\ [][Next]_replVars /\ \A i \in Replica : WF_replVars(Receive(i))
-------------------------------------------------------------------------------
(* A replica never goes back to an older value of a key while it runs,        *)
(* whichever packages are read together, lost with a connection or not sent:  *)
(* one stream for each replica keeps their order.                             *)
CatchesUp == \A h \in Host, k \in Key :
                copy'[h][k] >= copy[h][k] \/ (h \in up /\ h \notin up')

(* The newest insert reaches every replica that did not fall, unless the      *)
(* server ended: sends that fail for one replica do not keep it from others.  *)
HasNewest(i) == count = 0 \/ \E k \in Key : copy[Place(i)][k] = count
Excused(i) == ~alive \/ (\E n \in DOMAIN fell : fell[n] = Place(i)) \/ i > 2
NewestArrives == \A i \in Replica : <>[](HasNewest(i) \/ Excused(i))
================================================================================
