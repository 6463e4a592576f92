------------------------------- MODULE MCFusion -------------------------------
(* Two instances of FusionFS for TLC; part says which one runs.  In the one,  *)
(* p1 makes and removes everything and p2 reads and lists while its node may  *)
(* crash.  In the other three nodes share a file that nobody opens for        *)
(* writing while somebody else has it open.                                   *)
EXTENDS FusionFS

CONSTANTS n1, n2, n3, p1, p2, p3, a, c, d

VARIABLE part

MCHome == (p1 :> n1) @@ (p2 :> n2) @@ (p3 :> n3)
MCFolder == (a :> d) @@ (c :> Root)
MCPrefix == d :> {d}

Of(p, ops, paths) == {p} \X ops \X paths

OneWriterCalls ==
    Of(p1, {"create", "unlink"}, {a, c}) \union Of(p1, {"mkdir", "rmdir"}, {d})
    \union Of(p1, {"readdir"}, {Root})
    \union Of(p2, {"read"}, {a}) \union Of(p2, {"readdir"}, {Root, d})

\* Everybody creates, writes and reads the same file, as test_basic.sh does.
SharingCalls == Of(p1, {"create", "write", "read"}, {c}) \union Of(p2, {"write", "read", "stat"}, {c})
                \union Of(p3, {"create", "write", "read"}, {c})

\* The first of the two keeps to the discipline the theorems on listings assume.
ASSUME WriterAssumption == OneWriter(p1)

Shared == INSTANCE FusionFS WITH
    Calls <- SharingCalls, Crashing <- {}, ShareWrites <- FALSE, MaxInFlight <- 1, MaxClock <- 3

\* They keep to the discipline of the theorems on close-to-open.
ASSUME SharingAssumption == Shared!Sharing

FusionSpec ==
    /\ \/ part = "one writer" /\ Init
       \/ part = "sharing" /\ Shared!Init
    /\ [][/\ UNCHANGED part
          /\ \/ part = "one writer" /\ Next
             \/ part = "sharing" /\ Shared!Next]_<<part, vars>>
    /\ \A p \in Proc : WF_vars(part = "one writer" /\ Step(p))
-----------------------------------------------------------------------------
\* As in FusionFS: every handler that is called returns.
HandlersReturn == \A p \in Proc : part = "one writer" /\ Busy(p) ~> ~Busy(p)

\* As in FusionFS: an open that no writer disturbs gets the latest contents.
CloseToOpen == [][part = "sharing" => Shared!OpensLatest]_vars
=============================================================================
