------------------------------- MODULE MCNoVoHT -------------------------------
(* The table of a server, and the replicas of its inserts: part says which    *)
(* one runs.                                                                  *)
EXTENDS NoVoHT

CONSTANTS k1, k2, k3

VARIABLES part, myIndex, table, count, alive, dest, link, copy, up, fell

replVars == <<myIndex, table, count, alive, dest, link, copy, up, fell>>

\* k1 and k3 share a chain while the table has two slots, k2 has its own; with
\* four slots every key has its own.
MCHash == [k \in Key |-> CASE k = k1 -> 0 [] k = k2 -> 1 [] OTHER -> 2]

\* Two hosts, so that each replica is a process of its own.
R == INSTANCE ZHTReplicas WITH Key <- {k1, k2}, NHost <- 2, NumReplicas <- 2, MaxInserts <- 3,
         MaxCrashes <- 2

\* The part that does not run has one initial state.
ServerInit == /\ part \in {"table", "replicas"} /\ Init /\ R!Init
              /\ part = "replicas" => ~dbfile
              /\ part = "table" => myIndex = 0

ServerNext == \/ part = "table" /\ Next /\ UNCHANGED <<part, replVars>>
              \/ part = "replicas" /\ R!Next /\ UNCHANGED <<part, vars>>

\* Receiving is not possible while the table runs.
ServerSpec == /\ ServerInit /\ [][ServerNext]_<<part, vars, replVars>>
              /\ \A i \in 1 .. 2 : WF_replVars(R!Receive(i))

\* As in ZHTReplicas: no replica goes back to an older value.
ReplicasCatchUp == [][R!CatchesUp]_replVars

\* As in ZHTReplicas: the newest insert reaches the replicas that did not fall.
NewestArrives == R!NewestArrives
===============================================================================
