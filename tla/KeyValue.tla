------------------------------- MODULE KeyValue -------------------------------
(***************************************************************************)
(* What a hash map promises: every operation acts on one map at once, and   *)
(* nothing else changes it.                                                *)
(***************************************************************************)
CONSTANTS Key, Val, NoVal

VARIABLES map,   \* map[k]: the value of k, or NoVal
          ret    \* what the last operation returned

Init == map = [k \in Key |-> NoVal] /\ ret = NoVal

Put(k, v) == map' = [map EXCEPT ![k] = v] /\ ret' = "done"
Get(k)    == ret' = map[k] /\ UNCHANGED map
Remove(k) == /\ map' = [map EXCEPT ![k] = NoVal]
             /\ ret' = IF map[k] = NoVal THEN "missing" ELSE "done"

Next == \E k \in Key : Get(k) \/ Remove(k) \/ \E v \in Val : Put(k, v)

Spec == Init /\ [][Next]_<<map, ret>>
=============================================================================
