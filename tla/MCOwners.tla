------------------------------- MODULE MCOwners -------------------------------
(* The instance of FusionFSOwners for TLC: p1 owns a and makes its directory, *)
(* p2 owns c and reads a.  p3 looks a up, lists the directories and removes   *)
(* the one that is empty.                                                     *)
EXTENDS FusionFSOwners

CONSTANTS n1, n2, n3, p1, p2, p3, a, c, d

\* One process on each node.
Apart == [p \in Proc |-> CASE p = p1 -> n1 [] p = p2 -> n2 [] OTHER -> n3]

MCFolder == [f \in File |-> IF f = a THEN d ELSE Root]
MCPrefix == [x \in Dir |-> {x}]

Of(p, ops, paths) == {p} \X ops \X paths

OwnersCalls ==
    Of(p1, {"create", "write", "read", "truncate", "unlink"}, {a}) \union Of(p1, {"mkdir"}, {d})
    \union Of(p2, {"create", "unlink"}, {c}) \union Of(p2, {"read"}, {a})
    \union Of(p3, {"stat"}, {a}) \union Of(p3, {"readdir"}, {Root, d})
    \union Of(p3, {"rmdir"}, {d})

MCOwner == [f \in File |-> IF f = c THEN p2 ELSE p1]
=============================================================================
