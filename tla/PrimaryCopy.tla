------------------------------ MODULE PrimaryCopy ------------------------------
(***************************************************************************)
(* What FusionFS promises about the contents of files, with nothing of how *)
(* it is done: every file has a primary copy on one node, which is the one *)
(* that is written; other nodes take copies of it; a file that is          *)
(* registered keeps its primary copy.                                      *)
(***************************************************************************)
EXTENDS Naturals

CONSTANTS Node, File,
          Primary       \* Primary[f]: the node of the primary copy of f

VARIABLES store,        \* store[n][f]: the contents n has of f, 0 for none
          clock,        \* the number of the latest contents
          registered    \* the files that can be found

pcvars == <<store, clock, registered>>

Init == /\ store = [n \in Node |-> [f \in File |-> 0]]
        /\ clock = 0
        /\ registered = {}

Write(f) == /\ clock' = clock + 1
            /\ store' = [store EXCEPT ![Primary[f]][f] = clock + 1]
            /\ UNCHANGED registered

Copy(n, f) == /\ store[Primary[f]][f] # 0
              /\ store' = [store EXCEPT ![n][f] = store[Primary[f]][f]]
              /\ UNCHANGED <<clock, registered>>

Remove(n, S) ==
    /\ \A f \in S : Primary[f] = n => f \notin registered
    /\ store' = [store EXCEPT ![n] = [f \in File |-> IF f \in S THEN 0 ELSE @[f]]]
    /\ UNCHANGED <<clock, registered>>

Register(f) == /\ store[Primary[f]][f] # 0
               /\ registered' = registered \union {f}
               /\ UNCHANGED <<store, clock>>

Unregister(f) == /\ registered' = registered \ {f}
                 /\ UNCHANGED <<store, clock>>

Next == \/ \E f \in File : Write(f) \/ Register(f) \/ Unregister(f)
        \/ \E n \in Node, f \in File : Copy(n, f)
        \/ \E n \in Node, S \in SUBSET File : Remove(n, S)

Spec == Init /\ [][Next]_pcvars
=============================================================================
