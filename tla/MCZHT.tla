--------------------------------- MODULE MCZHT ---------------------------------
(* The instance of ZHT for TLC.                                                 *)
EXTENDS ZHT

CONSTANTS c1, c2, t1, t2, h1, h2, k1, k2, v1

\* Each process has one thread.
OneEach   == [t \in Thread |-> IF t = t1 THEN c1 ELSE c2]
MCHostOf  == [k \in Key |-> IF k = k1 \/ Cardinality(Host) = 1 THEN h1 ELSE h2]

Inserts   == [op : {"insert"}, key : Key, val : Val]
LookUps   == [op : {"lookup"}, key : Key, val : {NoVal}]
Removes   == [op : {"remove"}, key : Key, val : {NoVal}]
MCCalls   == {r \in Inserts \union LookUps \union Removes : r.key = k1 \/ r.op = "lookup"}
================================================================================
