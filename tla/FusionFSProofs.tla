---------------------------- MODULE FusionFSProofs ----------------------------
(***************************************************************************)
(* Theorems about FusionFS, for every set of nodes, processes, files and   *)
(* directories and every set of calls the programs make: types, listings   *)
(* with one writer, close-to-open with many; and, in the last part, what   *)
(* FusionFSOwners adds when every file has one owner.                      *)
(***************************************************************************)
EXTENDS FusionFSOwners, FiniteSetTheorems, SequenceTheorems, TLAPS

(* The system calls whose handler can be at a step.                        *)
OpsAt(l) ==
    CASE l \in {"getattr", "fetch", "lstat"} -> FileOp
      [] l = "open"                          -> {"read", "write", "create"}
      [] l = "trunc"                         -> {"truncate"}
      [] l = "creat"                         -> {"create"}
      [] l \in {"app_get", "app_put"}        -> {"create", "mkdir"}
      [] l = "register"                      -> {"create", "release"}
      [] l \in {"del_get", "del_put"}        -> {"unlink", "rmdir"}
      [] l \in {"oldaddr", "rmaddr", "rmdata"} -> {"unlink"}
      [] l \in {"close", "drop"}             -> {"release"}
      [] l \in {"mkdir", "newlist"}          -> {"mkdir"}
      [] l \in {"rmcheck", "rmtree", "rmkey"} -> {"rmdir"}
      [] l \in {"opendir", "rd_get", "rd_scan"} -> {"readdir"}
      [] OTHER                               -> {}

(* What the handler of a busy process is about.                            *)
Serving(p) ==
    /\ call[p] \in Call
    /\ call[p].op \in OpsAt(pc[p])
    /\ call[p].op \in FileOp \union {"release"} => call[p].path \in File
    /\ call[p].op \in {"mkdir", "rmdir"} => call[p].path \in Dir
    /\ call[p].op = "readdir" => call[p].path \in Folders
    /\ pc[p] = "close" => fd[p] \in Handle /\ fd[p].file = call[p].path

TypeInv == TypeOK /\ \A p \in Proc : pc[p] # "idle" => Serving(p)

LEMMA AppendedType ==
    ASSUME NEW l \in Listing, NEW x \in Path
    PROVE  Appended(l, x) \in Listing
<1>1. l.names \in Seq(Path)
  BY DEF Listing
<1>2. Append(l.names, x) \in Seq(Path)
  BY <1>1, AppendProperties
<1>. QED  BY <1>2 DEF Appended, Listing

LEMMA WithoutType ==
    ASSUME NEW l \in Listing, NEW i \in DOMAIN l.names
    PROVE  Without(l, i) \in Listing
<1>. DEFINE s == l.names
<1>1. s \in Seq(Path) /\ i \in 1 .. Len(s)
  BY DEF Listing
<1>2. SubSeq(s, 1, i - 1) \in Seq(Path)
  BY <1>1, SubSeqProperties
<1>3. SubSeq(s, i + 1, Len(s)) \in Seq(Path)
  BY <1>1, SubSeqProperties
<1>4. RemoveAt(s, i) \in Seq(Path)
  BY <1>2, <1>3, ConcatProperties DEF RemoveAt
<1>. QED  BY <1>4 DEF Without, Listing

LEMMA UnlinkedType ==
    ASSUME TypeOK, NEW n, NEW gone
    PROVE  Unlinked(n, gone) \in [Proc -> Handle \union {NoHandle}]
<1>. SUFFICES ASSUME NEW q \in Proc
              PROVE  Unlinked(n, gone)[q] \in Handle \union {NoHandle}
  BY DEF Unlinked
<1>1. fd[q] \in Handle \union {NoHandle}
  BY DEF TypeOK
<1>. QED  BY <1>1 DEF Unlinked, Handle

LEMMA RemoveFilesType ==
    ASSUME TypeOK, NEW n \in Node, NEW gone, RemoveFiles(n, gone)
    PROVE  /\ store' \in [Node -> [File -> Nat]]
           /\ fd' \in [Proc -> Handle \union {NoHandle}]
<1>1. fd' \in [Proc -> Handle \union {NoHandle}]
  BY UnlinkedType DEF RemoveFiles
<1>2. store[n] \in [File -> Nat]
  BY DEF TypeOK
<1>3. [f \in File |-> IF f \in gone THEN 0 ELSE store[n][f]] \in [File -> Nat]
  BY <1>2
<1>. QED  BY <1>1, <1>3 DEF RemoveFiles, TypeOK

-----------------------------------------------------------------------------
(* What a process that is not the one that steps sees of it.                *)
LEMMA OthersServing ==
    ASSUME NEW p \in Proc, NEW q \in Proc, q # p, TypeInv,
           pc[q] # "idle", pc'[q] = pc[q], call'[q] = call[q],
           pc[q] = "close" => fd'[q] \in Handle /\ fd'[q].file = fd[q].file
    PROVE  Serving(q)'
<1>1. Serving(q)
  BY DEF TypeInv
<1>. QED  BY <1>1 DEF Serving

(* An unlink leaves the file of every handle as it is.                      *)
LEMMA UnlinkedFile ==
    ASSUME TypeOK, NEW n, NEW gone, NEW q \in Proc, fd[q] \in Handle
    PROVE  Unlinked(n, gone)[q] \in Handle /\ Unlinked(n, gone)[q].file = fd[q].file
<1>. QED  BY DEF Unlinked, Handle

(* The three kinds of steps of a handler: it goes on to another step, it    *)
(* returns, or another actor moves and the handlers stay where they are.    *)
HandlesKept(Q) ==
    \A q \in Q : fd[q] \in Handle => fd'[q] \in Handle /\ fd'[q].file = fd[q].file

LEMMA GotoServing ==
    ASSUME TypeInv, NEW p \in Proc, NEW l \in Label, Busy(p), Goto(p, l),
           call[p].op \in OpsAt(l), l \notin {"idle", "close"},
           HandlesKept(Proc \ {p})
    PROVE  /\ pc' \in [Proc -> Label]
           /\ call' \in [Proc -> Call \union {NoCall}]
           /\ \A q \in Proc : pc'[q] # "idle" => Serving(q)'
<1>1. pc' \in [Proc -> Label] /\ call' \in [Proc -> Call \union {NoCall}]
  BY DEF TypeInv, TypeOK, Goto
<1>2. Serving(p)'
  <2>1. Serving(p)
    BY DEF TypeInv, Busy
  <2>2. pc'[p] = l /\ call' = call
    BY DEF Goto, TypeInv, TypeOK
  <2>. QED  BY <2>1, <2>2 DEF Serving
<1>3. ASSUME NEW q \in Proc, q # p, pc'[q] # "idle" PROVE Serving(q)'
  <2>1. pc'[q] = pc[q] /\ call'[q] = call[q]
    BY <1>3 DEF Goto, TypeInv, TypeOK
  <2>2. pc[q] = "close" => fd'[q] \in Handle /\ fd'[q].file = fd[q].file
    BY <1>3, <2>1 DEF TypeInv, Serving, HandlesKept
  <2>. QED  BY <1>3, <2>1, <2>2, OthersServing
<1>. QED  BY <1>1, <1>2, <1>3

LEMMA ReturnServing ==
    ASSUME TypeInv, NEW p \in Proc, Return(p), HandlesKept(Proc \ {p})
    PROVE  /\ pc' \in [Proc -> Label]
           /\ call' \in [Proc -> Call \union {NoCall}]
           /\ got' \in [Proc -> Node \union {NoNode}]
           /\ old' \in [Proc -> Listing]
           /\ \A q \in Proc : pc'[q] # "idle" => Serving(q)'
<1>1. NoList \in Listing /\ "idle" \in Label
  BY DEF NoList, Listing, Label
<1>2. /\ pc' \in [Proc -> Label]
      /\ call' \in [Proc -> Call \union {NoCall}]
      /\ got' \in [Proc -> Node \union {NoNode}]
      /\ old' \in [Proc -> Listing]
  BY <1>1 DEF TypeInv, TypeOK, Return
<1>3. ASSUME NEW q \in Proc, pc'[q] # "idle" PROVE Serving(q)'
  <2>1. q # p /\ pc'[q] = pc[q] /\ call'[q] = call[q]
    BY <1>3 DEF Return, TypeInv, TypeOK
  <2>2. pc[q] = "close" => fd'[q] \in Handle /\ fd'[q].file = fd[q].file
    BY <1>3, <2>1 DEF TypeInv, Serving, HandlesKept
  <2>. QED  BY <1>3, <2>1, <2>2, OthersServing
<1>. QED  BY <1>2, <1>3

LEMMA SameServing ==
    ASSUME TypeInv, pc' = pc, call' = call, HandlesKept(Proc)
    PROVE  \A q \in Proc : pc'[q] # "idle" => Serving(q)'
<1>1. ASSUME NEW q \in Proc, pc'[q] # "idle" PROVE Serving(q)'
  <2>1. Serving(q)
    BY <1>1 DEF TypeInv
  <2>. QED  BY <2>1 DEF Serving, HandlesKept
<1>. QED  BY <1>1

LEMMA RemoveFilesKeeps ==
    ASSUME TypeOK, NEW n, NEW gone, RemoveFiles(n, gone)
    PROVE  HandlesKept(Proc)
<1>. QED  BY UnlinkedFile DEF RemoveFiles, HandlesKept

LEMMA TargetType ==
    ASSUME TypeInv, NEW p \in Proc, Busy(p)
    PROVE  /\ call[p].op \in OpsAt(pc[p]) /\ Target(p) \in Path
           /\ call[p].op \in FileOp \union {"release"} => Target(p) \in File /\ Folder[Target(p)] \in Folders
           /\ call[p].op \in {"mkdir", "rmdir"} => Target(p) \in Dir
           /\ call[p].op = "readdir" => Target(p) \in Folders
           /\ Parent(Target(p)) \in Folders
<1>1. Serving(p)
  BY DEF TypeInv, Busy
<1>2. Target(p) = call[p].path /\ Target(p) \in Path
  BY <1>1 DEF Serving, Target, Call
<1>3. ASSUME NEW x PROVE Parent(x) \in Folders
  BY FolderAssumption DEF Parent, Folders
<1>. QED  BY <1>1, <1>2, <1>3, FolderAssumption DEF Serving

LEMMA InitTypeInv == Init => TypeInv
<1>. SUFFICES ASSUME Init PROVE TypeInv
  OBVIOUS
<1>1. NoList \in Listing /\ EmptyList \in Listing
  BY DEF NoList, EmptyList, Listing
<1>2. TypeOK
  BY <1>1 DEF Init, TypeOK, Label
<1>. QED  BY <1>2 DEF TypeInv, Init
LEMMA PutType ==
    ASSUME TypeOK, NEW n \in Node, NEW f \in File, NEW k \in Nat,
           store' = [store EXCEPT ![n][f] = k]
    PROVE  store' \in [Node -> [File -> Nat]]
<1>1. store[n] \in [File -> Nat]
  BY DEF TypeOK
<1>. QED  BY <1>1 DEF TypeOK

(* The two halves of the invariant: the handlers, and what they work on.    *)
Control ==
    /\ pc \in [Proc -> Label] /\ call \in [Proc -> Call \union {NoCall}]
    /\ got \in [Proc -> Node \union {NoNode}] /\ old \in [Proc -> Listing]
    /\ \A p \in Proc : pc[p] # "idle" => Serving(p)

Data ==
    /\ addr \in [File -> Node \union {NoNode}] /\ list \in [Folders -> Listing]
    /\ store \in [Node -> [File -> Nat]] /\ ldir \in [Node -> SUBSET Dir]
    /\ clock \in Nat /\ up \in [Node -> {"new", "up", "down"}]
    /\ fd \in [Proc -> Handle \union {NoHandle}]

LEMMA Halves == (TypeInv <=> Control /\ Data) /\ (TypeInv' <=> Control' /\ Data')
<1>. QED  BY DEF TypeInv, TypeOK, Control, Data

\* A handler that goes on to a step its system call can be at.
Goes(p, l) ==
    /\ Goto(p, l) /\ l \in Label \ {"idle", "close"} /\ call[p].op \in OpsAt(l)
    /\ got' \in [Proc -> Node \union {NoNode}] /\ old' \in [Proc -> Listing]

LEMMA GoesControl ==
    ASSUME TypeInv, NEW p \in Proc, NEW l, Busy(p), HandlesKept(Proc \ {p}), Goes(p, l)
    PROVE  Control'
<1>. QED  BY GotoServing DEF Control, Goes

LEMMA ReturnControl ==
    ASSUME TypeInv, NEW p \in Proc, Return(p), HandlesKept(Proc \ {p})
    PROVE  Control'
<1>. QED  BY ReturnServing DEF Control

LEMMA ListingTypes == NoList \in Listing /\ EmptyList \in Listing
<1>. QED  BY DEF NoList, EmptyList, Listing

(* A step of a handler keeps both halves.                                   *)
LEMMA HandlerType == ASSUME TypeInv, NEW p \in Proc, Step(p) PROVE TypeInv'
<1>1. CASE Getattr(p)
  <2>1. /\ Busy(p) /\ Home[p] \in Node /\ call[p].op \in OpsAt("getattr")
        /\ Target(p) \in Path /\ Parent(Target(p)) \in Folders
        /\ Target(p) \in File /\ Folder[Target(p)] \in Folders
    BY <1>1, TargetType, HomeAssumption DEF Getattr, At, Busy, OpsAt, FileOp
  <2>2. HandlesKept(Proc \ {p})
    BY <1>1 DEF Getattr, HandlesKept, disk, zht
  <2>3. Goes(p, "fetch")
    BY <1>1, <2>1 DEF Getattr, Goes, OpsAt, Label, FileOp, mine, TypeInv, TypeOK
  <2>4. Control'
    BY <2>1, <2>2, <2>3, GoesControl
  <2>5. Data'
    BY <1>1, <2>1 DEF Getattr, Data, TypeInv, TypeOK, zht, disk, mine
  <2>. QED  BY <2>4, <2>5, Halves
<1>2. CASE Fetch(p)
  <2>1. /\ Busy(p) /\ Home[p] \in Node /\ call[p].op \in OpsAt("fetch")
        /\ Target(p) \in Path /\ Parent(Target(p)) \in Folders
        /\ Target(p) \in File /\ Folder[Target(p)] \in Folders
    BY <1>2, TargetType, HomeAssumption DEF Fetch, At, Busy, OpsAt, FileOp
  <2>2. HandlesKept(Proc \ {p})
    BY <1>2 DEF Fetch, HandlesKept, disk, zht
  <2>3. Goes(p, "lstat")
    BY <1>2, <2>1 DEF Fetch, Goes, OpsAt, Label, FileOp, mine, TypeInv, TypeOK
  <2>4. Control'
    BY <2>1, <2>2, <2>3, GoesControl
  <2>5. store' \in [Node -> [File -> Nat]]
    <3>1. CASE Fetches(p)
      <4>1. got[p] \in Node /\ store[got[p]][Target(p)] \in Nat
        BY <2>1, <3>1 DEF Fetches, TypeInv, TypeOK
      <4>. QED  BY <1>2, <2>1, <3>1, <4>1, PutType DEF Fetch, Put, TypeInv
    <3>2. CASE ~Fetches(p)
      BY <1>2, <3>2 DEF Fetch, TypeInv, TypeOK
    <3>. QED  BY <3>1, <3>2
  <2>6. ldir' \in [Node -> SUBSET Dir]
    BY <1>2, <2>1 DEF Fetch, TypeInv, TypeOK, Folders
  <2>7. Data'
    BY <1>2, <2>5, <2>6 DEF Fetch, Data, TypeInv, TypeOK, zht
  <2>. QED  BY <2>4, <2>7, Halves
<1>3. CASE Lstat(p)
  <2>1. /\ Busy(p) /\ Home[p] \in Node /\ call[p].op \in OpsAt("lstat")
        /\ Target(p) \in Path /\ Parent(Target(p)) \in Folders
        /\ Target(p) \in File /\ Folder[Target(p)] \in Folders
    BY <1>3, TargetType, HomeAssumption DEF Lstat, At, Busy, OpsAt, FileOp
  <2>2. HandlesKept(Proc \ {p})
    BY <1>3 DEF Lstat, HandlesKept, disk, zht
  <2>3. Return(p) \/ Goes(p, "open") \/ Goes(p, "trunc") \/ Goes(p, "del_get") \/ Goes(p, "creat")
    BY <1>3, <2>1 DEF Lstat, Goes, OpsAt, Label, FileOp, mine, TypeInv, TypeOK
  <2>4. Control'
    BY <2>1, <2>2, <2>3, GoesControl, ReturnControl
  <2>5. Data'
    BY <1>3, <2>1 DEF Lstat, Data, TypeInv, TypeOK, zht, disk, mine
  <2>. QED  BY <2>4, <2>5, Halves
<1>4. CASE Open(p)
  <2>1. /\ Busy(p) /\ Home[p] \in Node /\ call[p].op \in OpsAt("open")
        /\ Target(p) \in Path /\ Parent(Target(p)) \in Folders
        /\ Target(p) \in File /\ Folder[Target(p)] \in Folders
    BY <1>4, TargetType, HomeAssumption DEF Open, At, Busy, OpsAt, FileOp
  <2>2. HandlesKept(Proc \ {p})
    BY <1>4 DEF Open, HandlesKept, TypeInv, TypeOK
  <2>4. Control'
    BY <1>4, <2>2, ReturnControl DEF Open
  <2>5. Data'
    BY <1>4, <2>1 DEF Open, Data, TypeInv, TypeOK, zht, disk, mine, Handle
  <2>. QED  BY <2>4, <2>5, Halves
<1>5. CASE Truncate(p)
  <2>1. /\ Busy(p) /\ Home[p] \in Node /\ call[p].op \in OpsAt("trunc")
        /\ Target(p) \in Path /\ Parent(Target(p)) \in Folders
        /\ Target(p) \in File /\ Folder[Target(p)] \in Folders
    BY <1>5, TargetType, HomeAssumption DEF Truncate, At, Busy, OpsAt, FileOp
  <2>2. HandlesKept(Proc \ {p})
    BY <1>5 DEF Truncate, HandlesKept, disk, zht
  <2>4. Control'
    BY <1>5, <2>2, ReturnControl DEF Truncate
  <2>5. clock + 1 \in Nat
    BY DEF TypeInv, TypeOK
  <2>6. store' \in [Node -> [File -> Nat]] /\ clock' \in Nat
    BY <1>5, <2>1, <2>5, PutType DEF Truncate, Put, TypeInv, TypeOK
  <2>7. Data'
    BY <1>5, <2>6 DEF Truncate, Data, TypeInv, TypeOK, zht
  <2>. QED  BY <2>4, <2>7, Halves
<1>6. CASE Creat(p)
  <2>1. /\ Busy(p) /\ Home[p] \in Node /\ call[p].op \in OpsAt("creat")
        /\ Target(p) \in Path /\ Parent(Target(p)) \in Folders
        /\ Target(p) \in File /\ Folder[Target(p)] \in Folders
    BY <1>6, TargetType, HomeAssumption DEF Creat, At, Busy, OpsAt, FileOp
  <2>2. HandlesKept(Proc \ {p})
    BY <1>6 DEF Creat, HandlesKept, TypeInv, TypeOK
  <2>3. Goes(p, "app_get")
    BY <1>6, <2>1 DEF Creat, Goes, OpsAt, Label, FileOp, mine, TypeInv, TypeOK
  <2>4. Control'
    BY <2>1, <2>2, <2>3, GoesControl
  <2>5. clock + 1 \in Nat
    BY DEF TypeInv, TypeOK
  <2>6. store' \in [Node -> [File -> Nat]] /\ clock' \in Nat
    BY <1>6, <2>1, <2>5, PutType DEF Creat, Put, TypeInv, TypeOK
  <2>7. fd' \in [Proc -> Handle \union {NoHandle}]
    <3>1. [file |-> Target(p), write |-> TRUE, linked |-> TRUE] \in Handle
      BY <2>1 DEF Handle
    <3>. QED  BY <1>6, <3>1 DEF Creat, TypeInv, TypeOK
  <2>8. Data'
    BY <1>6, <2>6, <2>7 DEF Creat, Data, TypeInv, TypeOK, zht
  <2>. QED  BY <2>4, <2>8, Halves
<1>7. CASE AppendGet(p)
  <2>1. /\ Busy(p) /\ Home[p] \in Node /\ call[p].op \in OpsAt("app_get")
        /\ Target(p) \in Path /\ Parent(Target(p)) \in Folders
    BY <1>7, TargetType, HomeAssumption DEF AppendGet, At, Busy
  <2>2. HandlesKept(Proc \ {p})
    BY <1>7 DEF AppendGet, HandlesKept, disk, zht
  <2>3. Goes(p, "app_put")
    BY <1>7, <2>1 DEF AppendGet, Goes, OpsAt, Label, FileOp, mine, TypeInv, TypeOK
  <2>4. Control'
    BY <2>1, <2>2, <2>3, GoesControl
  <2>5. Data'
    BY <1>7, <2>1 DEF AppendGet, Data, TypeInv, TypeOK, zht, disk, mine
  <2>. QED  BY <2>4, <2>5, Halves
<1>8. CASE AppendPut(p)
  <2>1. /\ Busy(p) /\ Home[p] \in Node /\ call[p].op \in OpsAt("app_put")
        /\ Target(p) \in Path /\ Parent(Target(p)) \in Folders
    BY <1>8, TargetType, HomeAssumption DEF AppendPut, At, Busy
  <2>2. HandlesKept(Proc \ {p})
    BY <1>8 DEF AppendPut, HandlesKept, disk, zht
  <2>3. Return(p) \/ Goes(p, "register")
    BY <1>8, <2>1 DEF AppendPut, Goes, OpsAt, Label, FileOp, mine, TypeInv, TypeOK
  <2>4. Control'
    BY <2>1, <2>2, <2>3, GoesControl, ReturnControl
  <2>5. Data'
    BY <1>8, <2>1, AppendedType DEF AppendPut, Data, TypeInv, TypeOK, zht, disk, mine
  <2>. QED  BY <2>4, <2>5, Halves
<1>9. CASE Register(p)
  <2>1. /\ Busy(p) /\ Home[p] \in Node /\ call[p].op \in OpsAt("register")
        /\ Target(p) \in Path /\ Parent(Target(p)) \in Folders
        /\ Target(p) \in File /\ Folder[Target(p)] \in Folders
    BY <1>9, TargetType, HomeAssumption DEF Register, At, Busy, OpsAt, FileOp
  <2>2. HandlesKept(Proc \ {p})
    BY <1>9 DEF Register, HandlesKept, disk, zht
  <2>4. Control'
    BY <1>9, <2>2, ReturnControl DEF Register
  <2>5. Data'
    BY <1>9, <2>1 DEF Register, Data, TypeInv, TypeOK, zht, disk, mine
  <2>. QED  BY <2>4, <2>5, Halves
<1>10. CASE DeleteGet(p)
  <2>1. /\ Busy(p) /\ Home[p] \in Node /\ call[p].op \in OpsAt("del_get")
        /\ Target(p) \in Path /\ Parent(Target(p)) \in Folders
    BY <1>10, TargetType, HomeAssumption DEF DeleteGet, At, Busy
  <2>2. HandlesKept(Proc \ {p})
    BY <1>10 DEF DeleteGet, HandlesKept, disk, zht
  <2>3. Goes(p, "oldaddr") \/ Goes(p, "rmkey") \/ Goes(p, "del_put")
    BY <1>10, <2>1 DEF DeleteGet, Goes, OpsAt, Label, FileOp, mine, TypeInv, TypeOK, AfterDelete
  <2>4. Control'
    BY <2>1, <2>2, <2>3, GoesControl
  <2>5. Data'
    BY <1>10, <2>1 DEF DeleteGet, Data, TypeInv, TypeOK, zht, disk, mine, AfterDelete
  <2>. QED  BY <2>4, <2>5, Halves
<1>11. CASE DeletePut(p)
  <2>1. /\ Busy(p) /\ Home[p] \in Node /\ call[p].op \in OpsAt("del_put")
        /\ Target(p) \in Path /\ Parent(Target(p)) \in Folders
    BY <1>11, TargetType, HomeAssumption DEF DeletePut, At, Busy
  <2>2. HandlesKept(Proc \ {p})
    BY <1>11 DEF DeletePut, HandlesKept, disk, zht
  <2>3. Goes(p, "oldaddr") \/ Goes(p, "rmkey")
    BY <1>11, <2>1 DEF DeletePut, Goes, OpsAt, Label, FileOp, mine, TypeInv, TypeOK, AfterDelete, Findable
  <2>4. Control'
    BY <2>1, <2>2, <2>3, GoesControl
  <2>5. Data'
    BY <1>11, <2>1, WithoutType DEF DeletePut, Data, TypeInv, TypeOK, zht, disk, mine, AfterDelete, Findable
  <2>. QED  BY <2>4, <2>5, Halves
<1>12. CASE LookupOwner(p)
  <2>1. /\ Busy(p) /\ Home[p] \in Node /\ call[p].op \in OpsAt("oldaddr")
        /\ Target(p) \in Path /\ Parent(Target(p)) \in Folders
        /\ Target(p) \in File /\ Folder[Target(p)] \in Folders
    BY <1>12, TargetType, HomeAssumption DEF LookupOwner, At, Busy, OpsAt, FileOp
  <2>2. HandlesKept(Proc \ {p})
    BY <1>12 DEF LookupOwner, HandlesKept, disk, zht
  <2>3. Goes(p, "rmaddr")
    BY <1>12, <2>1 DEF LookupOwner, Goes, OpsAt, Label, FileOp, mine, TypeInv, TypeOK
  <2>4. Control'
    BY <2>1, <2>2, <2>3, GoesControl
  <2>5. Data'
    BY <1>12, <2>1 DEF LookupOwner, Data, TypeInv, TypeOK, zht, disk, mine
  <2>. QED  BY <2>4, <2>5, Halves
<1>13. CASE RemoveEntry(p)
  <2>1. /\ Busy(p) /\ Home[p] \in Node /\ call[p].op \in OpsAt("rmaddr")
        /\ Target(p) \in Path /\ Parent(Target(p)) \in Folders
        /\ Target(p) \in File /\ Folder[Target(p)] \in Folders
    BY <1>13, TargetType, HomeAssumption DEF RemoveEntry, At, Busy, OpsAt, FileOp
  <2>2. HandlesKept(Proc \ {p})
    BY <1>13 DEF RemoveEntry, HandlesKept, disk, zht
  <2>3. Goes(p, "rmdata")
    BY <1>13, <2>1 DEF RemoveEntry, Goes, OpsAt, Label, FileOp, mine, TypeInv, TypeOK
  <2>4. Control'
    BY <2>1, <2>2, <2>3, GoesControl
  <2>5. Data'
    BY <1>13, <2>1 DEF RemoveEntry, Data, TypeInv, TypeOK, zht, disk, mine
  <2>. QED  BY <2>4, <2>5, Halves
<1>14. CASE RemoveData(p)
  <2>1. /\ Busy(p) /\ Home[p] \in Node /\ call[p].op \in OpsAt("rmdata")
        /\ Target(p) \in Path /\ Parent(Target(p)) \in Folders
        /\ Target(p) \in File /\ Folder[Target(p)] \in Folders
    BY <1>14, TargetType, HomeAssumption DEF RemoveData, At, Busy, OpsAt, FileOp
  <2>2. HandlesKept(Proc \ {p})
    BY <1>14, RemoveFilesKeeps DEF RemoveData, RemoveTree, HandlesKept, TypeInv
  <2>4. Control'
    BY <1>14, <2>2, ReturnControl DEF RemoveData
  <2>5. Data'
    BY <1>14, <2>1, RemoveFilesType DEF RemoveData, Data, TypeInv, TypeOK, zht, disk, mine
  <2>. QED  BY <2>4, <2>5, Halves
<1>15. CASE Close(p)
  <2>1. /\ Busy(p) /\ Home[p] \in Node /\ call[p].op \in OpsAt("close")
        /\ Target(p) \in Path /\ Parent(Target(p)) \in Folders
        /\ Target(p) \in File /\ Folder[Target(p)] \in Folders
    BY <1>15, TargetType, HomeAssumption DEF Close, At, Busy, OpsAt, FileOp
  <2>2. HandlesKept(Proc \ {p})
    BY <1>15 DEF Close, HandlesKept, TypeInv, TypeOK
  <2>3. Return(p) \/ Goes(p, "register") \/ Goes(p, "drop")
    BY <1>15, <2>1 DEF Close, Goes, OpsAt, Label, FileOp, mine, TypeInv, TypeOK
  <2>4. Control'
    BY <2>1, <2>2, <2>3, GoesControl, ReturnControl
  <2>5. Data'
    BY <1>15, <2>1 DEF Close, Data, TypeInv, TypeOK, zht, disk, mine
  <2>. QED  BY <2>4, <2>5, Halves
<1>16. CASE DropCopy(p)
  <2>1. /\ Busy(p) /\ Home[p] \in Node /\ call[p].op \in OpsAt("drop")
        /\ Target(p) \in Path /\ Parent(Target(p)) \in Folders
        /\ Target(p) \in File /\ Folder[Target(p)] \in Folders
    BY <1>16, TargetType, HomeAssumption DEF DropCopy, At, Busy, OpsAt, FileOp
  <2>2. HandlesKept(Proc \ {p})
    BY <1>16, RemoveFilesKeeps DEF DropCopy, RemoveTree, HandlesKept, TypeInv
  <2>4. Control'
    BY <1>16, <2>2, ReturnControl DEF DropCopy
  <2>5. Data'
    BY <1>16, <2>1, RemoveFilesType DEF DropCopy, Data, TypeInv, TypeOK, zht, disk, mine
  <2>. QED  BY <2>4, <2>5, Halves
<1>17. CASE MkdirLocal(p)
  <2>1. /\ Busy(p) /\ Home[p] \in Node /\ call[p].op \in OpsAt("mkdir")
        /\ Target(p) \in Path /\ Parent(Target(p)) \in Folders
        /\ Target(p) \in Dir /\ Target(p) \in Folders
    BY <1>17, TargetType, HomeAssumption DEF MkdirLocal, At, Busy, OpsAt, Folders
  <2>2. HandlesKept(Proc \ {p})
    BY <1>17 DEF MkdirLocal, HandlesKept, disk, zht
  <2>3. Goes(p, "newlist")
    BY <1>17, <2>1 DEF MkdirLocal, Goes, OpsAt, Label, FileOp, mine, TypeInv, TypeOK
  <2>4. Control'
    BY <2>1, <2>2, <2>3, GoesControl
  <2>5. Data'
    BY <1>17, <2>1 DEF MkdirLocal, Data, TypeInv, TypeOK, zht, disk, mine
  <2>. QED  BY <2>4, <2>5, Halves
<1>18. CASE NewListing(p)
  <2>1. /\ Busy(p) /\ Home[p] \in Node /\ call[p].op \in OpsAt("newlist")
        /\ Target(p) \in Path /\ Parent(Target(p)) \in Folders
        /\ Target(p) \in Dir /\ Target(p) \in Folders
    BY <1>18, TargetType, HomeAssumption DEF NewListing, At, Busy, OpsAt, Folders
  <2>2. HandlesKept(Proc \ {p})
    BY <1>18 DEF NewListing, HandlesKept, disk, zht
  <2>3. Goes(p, "app_get")
    BY <1>18, <2>1 DEF NewListing, Goes, OpsAt, Label, FileOp, mine, TypeInv, TypeOK
  <2>4. Control'
    BY <2>1, <2>2, <2>3, GoesControl
  <2>5. Data'
    BY <1>18, <2>1, ListingTypes DEF NewListing, Data, TypeInv, TypeOK, zht, disk, mine
  <2>. QED  BY <2>4, <2>5, Halves
<1>19. CASE CheckEmpty(p)
  <2>1. /\ Busy(p) /\ Home[p] \in Node /\ call[p].op \in OpsAt("rmcheck")
        /\ Target(p) \in Path /\ Parent(Target(p)) \in Folders
        /\ Target(p) \in Dir /\ Target(p) \in Folders
    BY <1>19, TargetType, HomeAssumption DEF CheckEmpty, At, Busy, OpsAt, Folders
  <2>2. HandlesKept(Proc \ {p})
    BY <1>19 DEF CheckEmpty, HandlesKept, disk, zht
  <2>3. Return(p) \/ Goes(p, "rmtree")
    BY <1>19, <2>1 DEF CheckEmpty, Goes, OpsAt, Label, FileOp, mine, TypeInv, TypeOK
  <2>4. Control'
    BY <2>1, <2>2, <2>3, GoesControl, ReturnControl
  <2>5. Data'
    BY <1>19, <2>1 DEF CheckEmpty, Data, TypeInv, TypeOK, zht, disk, mine
  <2>. QED  BY <2>4, <2>5, Halves
<1>20. CASE RmdirLocal(p)
  <2>1. /\ Busy(p) /\ Home[p] \in Node /\ call[p].op \in OpsAt("rmtree")
        /\ Target(p) \in Path /\ Parent(Target(p)) \in Folders
        /\ Target(p) \in Dir /\ Target(p) \in Folders
    BY <1>20, TargetType, HomeAssumption DEF RmdirLocal, At, Busy, OpsAt, Folders
  <2>2. HandlesKept(Proc \ {p})
    BY <1>20, RemoveFilesKeeps DEF RmdirLocal, RemoveTree, HandlesKept, TypeInv
  <2>3. Goes(p, "del_get")
    BY <1>20, <2>1 DEF RmdirLocal, Goes, OpsAt, Label, FileOp, mine, TypeInv, TypeOK
  <2>4. Control'
    BY <2>1, <2>2, <2>3, GoesControl
  <2>5. Data'
    BY <1>20, <2>1, RemoveFilesType DEF RmdirLocal, Data, TypeInv, TypeOK, zht, disk, mine, RemoveTree
  <2>. QED  BY <2>4, <2>5, Halves
<1>21. CASE RemoveListing(p)
  <2>1. /\ Busy(p) /\ Home[p] \in Node /\ call[p].op \in OpsAt("rmkey")
        /\ Target(p) \in Path /\ Parent(Target(p)) \in Folders
        /\ Target(p) \in Dir /\ Target(p) \in Folders
    BY <1>21, TargetType, HomeAssumption DEF RemoveListing, At, Busy, OpsAt, Folders
  <2>2. HandlesKept(Proc \ {p})
    BY <1>21 DEF RemoveListing, HandlesKept, disk, zht
  <2>4. Control'
    BY <1>21, <2>2, ReturnControl DEF RemoveListing
  <2>5. Data'
    BY <1>21, <2>1, ListingTypes DEF RemoveListing, Data, TypeInv, TypeOK, zht, disk, mine
  <2>. QED  BY <2>4, <2>5, Halves
<1>22. CASE Opendir(p)
  <2>1. /\ Busy(p) /\ Home[p] \in Node /\ call[p].op \in OpsAt("opendir")
        /\ Target(p) \in Path /\ Parent(Target(p)) \in Folders
        /\ Target(p) \in Folders
    BY <1>22, TargetType, HomeAssumption DEF Opendir, At, Busy, OpsAt
  <2>2. HandlesKept(Proc \ {p})
    BY <1>22 DEF Opendir, HandlesKept, disk, zht
  <2>3. Goes(p, "rd_get")
    BY <1>22, <2>1 DEF Opendir, Goes, OpsAt, Label, FileOp, mine, TypeInv, TypeOK
  <2>4. Control'
    BY <2>1, <2>2, <2>3, GoesControl
  <2>5. Data'
    BY <1>22, <2>1 DEF Opendir, Data, TypeInv, TypeOK, zht, disk, mine, Folders
  <2>. QED  BY <2>4, <2>5, Halves
<1>23. CASE ReaddirGet(p)
  <2>1. /\ Busy(p) /\ Home[p] \in Node /\ call[p].op \in OpsAt("rd_get")
        /\ Target(p) \in Path /\ Parent(Target(p)) \in Folders
        /\ Target(p) \in Folders
    BY <1>23, TargetType, HomeAssumption DEF ReaddirGet, At, Busy, OpsAt
  <2>2. HandlesKept(Proc \ {p})
    BY <1>23 DEF ReaddirGet, HandlesKept, disk, zht
  <2>3. Goes(p, "rd_scan")
    BY <1>23, <2>1 DEF ReaddirGet, Goes, OpsAt, Label, FileOp, mine, TypeInv, TypeOK
  <2>4. Control'
    BY <2>1, <2>2, <2>3, GoesControl
  <2>5. Data'
    BY <1>23, <2>1 DEF ReaddirGet, Data, TypeInv, TypeOK, zht, disk, mine
  <2>. QED  BY <2>4, <2>5, Halves
<1>24. CASE ReaddirScan(p)
  <2>1. /\ Busy(p) /\ Home[p] \in Node /\ call[p].op \in OpsAt("rd_scan")
        /\ Target(p) \in Path /\ Parent(Target(p)) \in Folders
        /\ Target(p) \in Folders
    BY <1>24, TargetType, HomeAssumption DEF ReaddirScan, At, Busy, OpsAt
  <2>2. HandlesKept(Proc \ {p})
    BY <1>24, RemoveFilesKeeps DEF ReaddirScan, RemoveTree, HandlesKept, TypeInv
  <2>4. Control'
    BY <1>24, <2>2, ReturnControl DEF ReaddirScan
  <2>5. Data'
    BY <1>24, <2>1, RemoveFilesType DEF ReaddirScan, Data, TypeInv, TypeOK, zht, disk, mine, RemoveTree
  <2>. QED  BY <2>4, <2>5, Halves
<1>. QED  BY <1>1, <1>2, <1>3, <1>4, <1>5, <1>6, <1>7, <1>8, <1>9, <1>10, <1>11, <1>12, <1>13, <1>14, <1>15, <1>16, <1>17, <1>18, <1>19, <1>20, <1>21, <1>22, <1>23, <1>24 DEF Step

(* Begin and BeginRelease put a handler at its first step.                  *)
LEMMA BeginType == ASSUME TypeInv, NEW p \in Proc, Begin(p) PROVE TypeInv'
<1>1. PICK c \in Calls : /\ c[1] = p
                         /\ call' = [call EXCEPT ![p] = [op |-> c[2], path |-> c[3]]]
                         /\ pc' = [pc EXCEPT ![p] = Entry(c[2])]
  BY DEF Begin
<1>2. /\ c[2] \in Op /\ c[3] \in Path
      /\ c[2] \in FileOp => c[3] \in File
      /\ c[2] \in {"mkdir", "rmdir"} => c[3] \in Dir
      /\ c[2] = "readdir" => c[3] \in Folders
  BY CallsAssumption
<1>3. [op |-> c[2], path |-> c[3]] \in Call
  BY <1>2 DEF Call
<1>4. Entry(c[2]) \in Label \ {"close"} /\ c[2] \in OpsAt(Entry(c[2]))
  BY <1>2 DEF Entry, Label, OpsAt, Op, FileOp
<1>5. Data' /\ got' = got /\ old' = old /\ fd' = fd
  BY DEF Begin, Data, TypeInv, TypeOK, zht, disk, mine
<1>6. Serving(p)'
  BY <1>1, <1>2, <1>3, <1>4 DEF Serving, Op, FileOp, TypeInv, TypeOK
<1>7. ASSUME NEW q \in Proc, q # p, pc'[q] # "idle" PROVE Serving(q)'
  <2>1. pc'[q] = pc[q] /\ call'[q] = call[q]
    BY <1>1, <1>7 DEF TypeInv, TypeOK
  <2>2. Serving(q)
    BY <1>7, <2>1 DEF TypeInv
  <2>. QED  BY <1>5, <2>1, <2>2 DEF Serving
<1>8. Control'
  BY <1>1, <1>3, <1>4, <1>5, <1>6, <1>7 DEF Control, TypeInv, TypeOK
<1>. QED  BY <1>5, <1>8, Halves

LEMMA BeginReleaseType == ASSUME TypeInv, NEW p \in Proc, BeginRelease(p) PROVE TypeInv'
<1>1. fd[p] \in Handle /\ fd[p].file \in File
  BY DEF BeginRelease, TypeInv, TypeOK, Handle
<1>2. [op |-> "release", path |-> fd[p].file] \in Call /\ "close" \in Label
  BY <1>1 DEF Call, Path, Label
<1>3. Data' /\ got' = got /\ old' = old /\ fd' = fd
  BY DEF BeginRelease, Data, TypeInv, TypeOK, zht, disk, mine
<1>4. Serving(p)'
  BY <1>1, <1>2, <1>3 DEF BeginRelease, Serving, OpsAt, FileOp, TypeInv, TypeOK
<1>5. ASSUME NEW q \in Proc, q # p, pc'[q] # "idle" PROVE Serving(q)'
  <2>1. pc'[q] = pc[q] /\ call'[q] = call[q]
    BY <1>5 DEF BeginRelease, TypeInv, TypeOK
  <2>2. Serving(q)
    BY <1>5, <2>1 DEF TypeInv
  <2>. QED  BY <1>3, <2>1, <2>2 DEF Serving
<1>6. Control'
  BY <1>2, <1>3, <1>4, <1>5 DEF BeginRelease, Control, TypeInv, TypeOK
<1>. QED  BY <1>3, <1>6, Halves

(* A client starts, is killed, or a program writes.                         *)
LEMMA MountType == ASSUME TypeInv, NEW n \in Node, Mount(n) PROVE TypeInv'
<1>1. Data'
  BY ListingTypes DEF Mount, Data, TypeInv, TypeOK, disk, mine
<1>2. Control'
  BY SameServing DEF Mount, Control, HandlesKept, TypeInv, TypeOK, mine
<1>. QED  BY <1>1, <1>2, Halves

LEMMA WriteType == ASSUME TypeInv, NEW p \in Proc, Write(p) PROVE TypeInv'
<1>1. Home[p] \in Node /\ fd[p].file \in File /\ clock + 1 \in Nat
  BY HomeAssumption DEF Write, TypeInv, TypeOK, Handle
<1>2. store' \in [Node -> [File -> Nat]] /\ clock' \in Nat
  BY <1>1, PutType DEF Write, Put, TypeInv, TypeOK
<1>3. Data'
  BY <1>2 DEF Write, Data, TypeInv, TypeOK, zht
<1>4. Control'
  BY SameServing DEF Write, Control, HandlesKept, TypeInv, TypeOK, mine
<1>. QED  BY <1>3, <1>4, Halves

LEMMA CrashType == ASSUME TypeInv, NEW n \in Node, Crash(n) PROVE TypeInv'
<1>. DEFINE gone == {p \in Proc : Home[p] = n}
<1>1. Data'
  BY DEF Crash, Data, TypeInv, TypeOK, zht, disk
<1>2. /\ pc' \in [Proc -> Label] /\ call' \in [Proc -> Call \union {NoCall}]
      /\ got' \in [Proc -> Node \union {NoNode}] /\ old' \in [Proc -> Listing]
  BY ListingTypes DEF Crash, Label, TypeInv, TypeOK
<1>3. ASSUME NEW q \in Proc, pc'[q] # "idle" PROVE Serving(q)'
  <2>1. q \notin gone
    BY <1>3 DEF Crash
  <2>2. pc'[q] = pc[q] /\ call'[q] = call[q] /\ fd'[q] = fd[q]
    BY <2>1 DEF Crash
  <2>3. Serving(q)
    BY <1>3, <2>2 DEF TypeInv
  <2>. QED  BY <2>2, <2>3 DEF Serving
<1>4. Control'
  BY <1>2, <1>3 DEF Control
<1>. QED  BY <1>1, <1>4, Halves

LEMMA NextTypeInv == TypeInv /\ [Next]_vars => TypeInv'
<1>. SUFFICES ASSUME TypeInv, [Next]_vars PROVE TypeInv'
  OBVIOUS
<1>1. ASSUME NEW n \in Node, Mount(n) \/ Crash(n) PROVE TypeInv'
  BY <1>1, MountType, CrashType
<1>2. ASSUME NEW p \in Proc, Begin(p) \/ Write(p) \/ BeginRelease(p) \/ Step(p)
      PROVE  TypeInv'
  BY <1>2, BeginType, WriteType, BeginReleaseType, HandlerType
<1>3. CASE UNCHANGED vars
  <2>1. Data'
    BY <1>3 DEF Data, TypeInv, TypeOK, vars, zht, disk
  <2>2. Control'
    BY <1>3, SameServing DEF Control, HandlesKept, TypeInv, TypeOK, vars, mine
  <2>. QED  BY <2>1, <2>2, Halves
<1>. QED  BY <1>1, <1>2, <1>3 DEF Next

(* The registry, the listings, the copies and the descriptors keep their    *)
(* types whatever the interleaving, crashes and restarts: in particular a   *)
(* fetch from a node without the file stores nothing (ffs_recvfile checks   *)
(* the size it receives), and no handler reads a listing or an address that *)
(* is not one.                                                              *)
THEOREM TypeCorrect == Spec => []TypeOK
<1>1. TypeInv => TypeOK
  BY DEF TypeInv
<1>. QED  BY <1>1, InitTypeInv, NextTypeInv, PTL DEF Spec
-----------------------------------------------------------------------------
(* One writer.  The calls of the writer w follow one another, so between two  *)
(* of them the listings, the addresses, and the files and directories on its  *)
(* node agree; within a call, the path it is about is an exception until the  *)
(* steps that remain have been taken.  Nobody else touches any of these.      *)

Listed(f) == f \in Named(list[Folder[f]])

\* A file is registered, listed and on the node of the writer, or none of the three.
Settled(w, f) ==
    /\ addr[f] # NoNode <=> Listed(f)
    /\ Listed(f) <=> store[Home[w]][f] # 0

\* A directory is listed, on the node and has a listing, or none of the three.
Placed(w, x) ==
    /\ x \in ldir[Home[w]] <=> x \in Named(list[Root])
    /\ x \in ldir[Home[w]] <=> list[x].lead
    /\ ~list[x].lead => list[x] = NoList

FileMidway == {"app_get", "app_put", "register", "oldaddr", "rmaddr", "rmdata"}
DirMidway  == {"newlist", "app_get", "app_put", "del_get", "del_put", "rmkey"}

\* No name is listed twice, or zht_delete would leave one.
NoTwins(l) == \A i, j \in DOMAIN l.names : l.names[i] = l.names[j] => i = j

Paths(w) ==
    /\ \A f \in File : addr[f] \in {NoNode, Home[w]}
    /\ \A f \in File : Settled(w, f) \/ (pc[w] \in FileMidway /\ Target(w) = f)
    /\ \A x \in Dir : Placed(w, x) \/ (pc[w] \in DirMidway /\ Target(w) = x)
    /\ \A x \in Folders : NoTwins(list[x])

\* Nothing happens before every client is there.
Starts(w) ==
    /\ \A n \in Node : up[n] = "new" =>
          list[Root].names = <<>> /\ \A p \in Proc : pc[p] = "idle"
    /\ (\A n \in Node : up[n] # "new") => list[Root].lead

\* The others read, and do so elsewhere.
Reads(w, p) ==
    /\ Busy(p) => Home[p] # Home[w] /\ call[p].op \in {"stat", "read", "truncate", "readdir", "release"}
    /\ pc[p] # "register"
    /\ fd[p] # NoHandle => Home[p] # Home[w] /\ ~fd[p].write

\* How far the writer is with a file: made, or removed.
MakesFile(w) ==
    LET f == Target(w) IN
    /\ pc[w] = "creat" => ~Listed(f)
    /\ pc[w] \in {"app_get", "app_put"} => addr[f] = NoNode /\ ~Listed(f) /\ store[Home[w]][f] # 0
    /\ pc[w] = "register" => addr[f] = NoNode /\ Listed(f) /\ store[Home[w]][f] # 0

RemovesFile(w) ==
    LET f == Target(w) IN
    /\ pc[w] \in {"del_get", "del_put"} => Listed(f)
    /\ pc[w] \in {"oldaddr", "rmaddr"} => addr[f] # NoNode /\ ~Listed(f) /\ store[Home[w]][f] # 0
    /\ pc[w] = "rmaddr" => got[w] = Home[w]
    /\ pc[w] = "rmdata" => addr[f] = NoNode /\ ~Listed(f) /\ got[w] = Home[w]
    /\ fd[w] # NoHandle /\ fd[w].write => fd[w].file # f

\* And with a directory.
MakesDir(w) ==
    LET x == Target(w) IN
    /\ pc[w] = "mkdir" => x \notin ldir[Home[w]]
    /\ pc[w] # "mkdir" => x \in ldir[Home[w]] /\ x \notin Named(list[Root])
    /\ pc[w] = "newlist" => list[x] = NoList
    /\ pc[w] \in {"app_get", "app_put"} => list[x] = EmptyList

RemovesDir(w) ==
    LET x == Target(w) IN
    /\ pc[w] \in {"rmcheck", "rmtree"} <=> x \in ldir[Home[w]]
    /\ pc[w] # "rmcheck" => list[x] = EmptyList
    /\ pc[w] # "rmkey" <=> x \in Named(list[Root])

Handler(w) ==
    /\ list[Root].lead
    /\ pc[w] \in {"app_put", "del_put"} => old[w] = list[Parent(Target(w))]
    /\ pc[w] = "rd_scan" => old[w] = list[Root]
    /\ pc[w] = "fetch" => got[w] \in {NoNode, Home[w]}
    /\ pc[w] = "register" => call[w].op = "create"
    /\ pc[w] = "drop" => addr[Target(w)] = NoNode
    /\ call[w].op \in FileOp => HasFolder(Home[w], Folder[Target(w)])
    /\ call[w].op = "create" => MakesFile(w)
    /\ call[w].op = "unlink" => RemovesFile(w)
    /\ call[w].op = "mkdir" => MakesDir(w)
    /\ call[w].op = "rmdir" => RemovesDir(w)
    /\ call[w].op = "readdir" => Target(w) = Root

\* What the writer has open for writing is registered, or is being made.
Handles(w) ==
    fd[w] # NoHandle /\ fd[w].write =>
        \/ addr[fd[w].file] # NoNode
        \/ pc[w] \in {"app_get", "app_put", "register"} /\ call[w].op = "create" /\ fd[w].file = Target(w)

WriterInv(w) ==
    /\ TypeInv /\ Paths(w) /\ Starts(w) /\ Handles(w)
    /\ Busy(w) => Handler(w)
    /\ \A p \in Proc \ {w} : Reads(w, p)

(* Listings as sets of names.                                               *)
LEMMA RemoveAtIs ==
    ASSUME NEW S, NEW s \in Seq(S), NEW i \in DOMAIN s
    PROVE  /\ Len(RemoveAt(s, i)) = Len(s) - 1 /\ RemoveAt(s, i) \in Seq(S)
           /\ \A j \in 1 .. Len(s) - 1 : RemoveAt(s, i)[j] = IF j < i THEN s[j] ELSE s[j + 1]
<1>. DEFINE a == SubSeq(s, 1, i - 1)
            b == SubSeq(s, i + 1, Len(s))
<1>1. Len(s) \in Nat /\ i \in 1 .. Len(s) /\ \A j \in 1 .. Len(s) : s[j] \in S
  BY LenProperties, ElementOfSeq
<1>2. a \in Seq(S) /\ Len(a) = i - 1 /\ \A j \in 1 .. i - 1 : a[j] = s[j]
  BY <1>1, SubSeqProperties
<1>3. b \in Seq(S) /\ Len(b) = Len(s) - i /\ \A j \in 1 .. Len(s) - i : b[j] = s[i + j]
  <2>1. \A j \in i + 1 .. Len(s) : s[j] \in S
    BY <1>1
  <2>2. /\ b \in Seq(S)
        /\ Len(b) = IF i + 1 <= Len(s) THEN Len(s) - (i + 1) + 1 ELSE 0
        /\ \A j \in 1 .. Len(s) - (i + 1) + 1 : b[j] = s[i + 1 + j - 1]
    BY <1>1, <2>1, SubSeqProperties
  <2>. HIDE DEF b
  <2>. QED  BY <1>1, <2>2
<1>. HIDE DEF a, b
<1>4. /\ a \o b \in Seq(S) /\ Len(a \o b) = Len(a) + Len(b)
      /\ \A j \in 1 .. Len(a) + Len(b) : (a \o b)[j] = IF j <= Len(a) THEN a[j] ELSE b[j - Len(a)]
  BY <1>2, <1>3, ConcatProperties
<1>5. Len(a) + Len(b) = Len(s) - 1
  BY <1>1, <1>2, <1>3
<1>6. ASSUME NEW j \in 1 .. Len(s) - 1
      PROVE  (a \o b)[j] = IF j < i THEN s[j] ELSE s[j + 1]
  <2>1. (a \o b)[j] = IF j <= Len(a) THEN a[j] ELSE b[j - Len(a)]
    BY <1>4, <1>5
  <2>2. CASE j < i
    BY <1>1, <1>2, <2>1, <2>2
  <2>3. CASE ~(j < i)
    <3>1. j - (i - 1) \in 1 .. Len(s) - i /\ i + (j - (i - 1)) = j + 1
      BY <1>1, <2>3
    <3>2. b[j - (i - 1)] = s[i + (j - (i - 1))]
      BY <1>3, <3>1
    <3>3. ~(j <= Len(a)) /\ j - Len(a) = j - (i - 1)
      BY <1>1, <1>2, <2>3
    <3>4. (a \o b)[j] = b[j - (i - 1)]
      BY <2>1, <3>3
    <3>. QED  BY <2>3, <3>1, <3>2, <3>4
  <2>. QED  BY <2>2, <2>3
<1>. QED  BY <1>4, <1>5, <1>6 DEF RemoveAt, a, b

\* A name that is added.
LEMMA NamesAppended ==
    ASSUME NEW l \in Listing, NEW x \in Path
    PROVE  /\ Appended(l, x).lead = l.lead
           /\ Named(Appended(l, x)) = Named(l) \union {x}
           /\ NoTwins(l) /\ x \notin Named(l) => NoTwins(Appended(l, x))
<1>. DEFINE s == l.names
            t == Append(l.names, x)
<1>1. s \in Seq(Path) /\ Appended(l, x).names = t /\ Appended(l, x).lead = l.lead
  BY DEF Listing, Appended
<1>2. /\ t \in Seq(Path) /\ Len(s) \in Nat /\ Len(t) = Len(s) + 1 /\ t[Len(s) + 1] = x
      /\ \A j \in 1 .. Len(s) : t[j] = s[j]
  BY <1>1, AppendProperties, LenProperties
<1>3. DOMAIN s = 1 .. Len(s) /\ DOMAIN t = 1 .. Len(s) + 1
  BY <1>1, <1>2, LenProperties
<1>. HIDE DEF s, t
<1>4. \A j \in 1 .. Len(s) + 1 : j \in 1 .. Len(s) \/ j = Len(s) + 1
  BY <1>2
<1>5. 1 .. Len(s) \subseteq 1 .. Len(s) + 1 /\ Len(s) + 1 \in 1 .. Len(s) + 1
  BY <1>2
<1>6. \A y : (\E j \in DOMAIN t : t[j] = y) <=> (\E j \in DOMAIN s : s[j] = y) \/ y = x
  BY <1>2, <1>3, <1>4, <1>5
<1>7. Named(Appended(l, x)) = Named(l) \union {x}
  <2>1. \A y : y \in Named(l) <=> \E j \in DOMAIN s : s[j] = y
    BY DEF Named, ToSet, s
  <2>2. \A y : y \in Named(Appended(l, x)) <=> \E j \in DOMAIN t : t[j] = y
    BY <1>1 DEF Named, ToSet
  <2>. QED  BY <1>6, <2>1, <2>2
<1>8. ASSUME NoTwins(l), x \notin Named(l) PROVE NoTwins(Appended(l, x))
  <2>1. \A i, j \in DOMAIN s : s[i] = s[j] => i = j
    BY <1>8 DEF NoTwins, s
  <2>2. \A j \in DOMAIN s : s[j] # x
    BY <1>8 DEF Named, ToSet, s
  <2>3. \A i, j \in DOMAIN t : t[i] = t[j] => i = j
    BY <1>2, <1>3, <1>4, <2>1, <2>2
  <2>. QED  BY <1>1, <2>3 DEF NoTwins
<1>. QED  BY <1>1, <1>7, <1>8

\* A name that is taken out.
LEMMA NamesWithout ==
    ASSUME NEW l \in Listing, NEW x, NEW i \in Findable(l, x), NoTwins(l)
    PROVE  /\ Without(l, i).lead = l.lead
           /\ Named(Without(l, i)) = Named(l) \ {x}
           /\ NoTwins(Without(l, i))
<1>. DEFINE s == l.names
            t == RemoveAt(l.names, i)
<1>1. s \in Seq(Path) /\ Without(l, i).names = t /\ Without(l, i).lead = l.lead
  BY DEF Listing, Without
<1>2. i \in DOMAIN s /\ s[i] = x
  BY DEF Findable
<1>3. /\ t \in Seq(Path) /\ Len(t) = Len(s) - 1
      /\ \A j \in 1 .. Len(s) - 1 : t[j] = IF j < i THEN s[j] ELSE s[j + 1]
  BY <1>1, <1>2, RemoveAtIs
<1>4. DOMAIN s = 1 .. Len(s) /\ DOMAIN t = 1 .. Len(s) - 1 /\ Len(s) \in Nat
  BY <1>1, <1>3, LenProperties
<1>5. \A j, k \in DOMAIN s : s[j] = s[k] => j = k
  BY DEF NoTwins, s
<1>. HIDE DEF s, t
<1>6. ASSUME NEW y PROVE (\E j \in DOMAIN t : t[j] = y) <=> (\E j \in DOMAIN s : s[j] = y) /\ y # x
  <2>1. ASSUME NEW j \in DOMAIN t, t[j] = y PROVE (\E k \in DOMAIN s : s[k] = y) /\ y # x
    <3>1. j \in DOMAIN s /\ j + 1 \in DOMAIN s /\ i \in 1 .. Len(s)
      BY <1>2, <1>4
    <3>2. y = IF j < i THEN s[j] ELSE s[j + 1]
      BY <1>3, <1>4, <2>1
    <3>3. CASE j < i
      <4>1. y = s[j] /\ j # i
        BY <1>4, <3>1, <3>2, <3>3
      <4>. QED  BY <1>2, <1>5, <3>1, <4>1
    <3>4. CASE ~(j < i)
      <4>1. y = s[j + 1] /\ j + 1 # i
        BY <1>4, <3>1, <3>2, <3>4
      <4>. QED  BY <1>2, <1>5, <3>1, <4>1
    <3>. QED  BY <3>3, <3>4
  <2>2. ASSUME NEW k \in DOMAIN s, s[k] = y, y # x PROVE \E j \in DOMAIN t : t[j] = y
    <3>1. k # i /\ k \in 1 .. Len(s) /\ i \in 1 .. Len(s)
      BY <1>2, <1>4, <2>2
    <3>2. CASE k < i
      <4>1. k \in 1 .. Len(s) - 1
        BY <1>4, <3>1, <3>2
      <4>. QED  BY <1>3, <1>4, <2>2, <3>2, <4>1
    <3>3. CASE k > i
      <4>1. k - 1 \in 1 .. Len(s) - 1 /\ ~(k - 1 < i) /\ (k - 1) + 1 = k
        BY <1>4, <3>1, <3>3
      <4>2. t[k - 1] = s[k]
        BY <1>3, <4>1
      <4>. QED  BY <1>4, <2>2, <4>1, <4>2
    <3>. QED  BY <3>1, <3>2, <3>3
  <2>. QED  BY <2>1, <2>2
<1>7. Named(Without(l, i)) = Named(l) \ {x}
  <2>1. \A y : y \in Named(l) <=> \E j \in DOMAIN s : s[j] = y
    BY DEF Named, ToSet, s
  <2>2. \A y : y \in Named(Without(l, i)) <=> \E j \in DOMAIN t : t[j] = y
    BY <1>1 DEF Named, ToSet
  <2>. QED  BY <1>6, <2>1, <2>2
<1>8. ASSUME NEW j \in DOMAIN t, NEW k \in DOMAIN t, t[j] = t[k] PROVE j = k
  <2>1. j \in 1 .. Len(s) - 1 /\ k \in 1 .. Len(s) - 1 /\ i \in 1 .. Len(s)
    BY <1>2, <1>4
  <2>2. PICK m \in 1 .. Len(s) : t[j] = s[m] /\ m = IF j < i THEN j ELSE j + 1
    BY <1>3, <1>4, <2>1
  <2>3. PICK n \in 1 .. Len(s) : t[k] = s[n] /\ n = IF k < i THEN k ELSE k + 1
    BY <1>3, <1>4, <2>1
  <2>4. m = n
    BY <1>4, <1>5, <1>8, <2>2, <2>3
  <2>. QED  BY <2>1, <2>2, <2>3, <2>4
<1>. QED  BY <1>1, <1>7, <1>8 DEF NoTwins

\* The two listings without names.
LEMMA NamesOfNone ==
    /\ Named(NoList) = {} /\ Named(EmptyList) = {} /\ NoTwins(NoList) /\ NoTwins(EmptyList)
    /\ ~NoList.lead /\ EmptyList.lead
    /\ \A l \in Listing : l.names = <<>> => Named(l) = {}
<1>1. \A l : l.names = <<>> => Named(l) = {} /\ NoTwins(l)
  BY DEF Named, ToSet, NoTwins
<1>. QED  BY <1>1 DEF NoList, EmptyList
-----------------------------------------------------------------------------
(* What a step of one process leaves of the others.                         *)
HandleKept(q) ==
    /\ fd'[q] = NoHandle <=> fd[q] = NoHandle
    /\ fd[q] # NoHandle => fd'[q].file = fd[q].file /\ fd'[q].write = fd[q].write

LEMMA UnlinkedKeeps ==
    ASSUME TypeInv, NEW n, NEW gone, RemoveFiles(n, gone), NEW q \in Proc
    PROVE  HandleKept(q)
<1>1. NoHandle \notin Handle /\ fd[q] \in Handle \union {NoHandle}
  BY NoneAssumption DEF TypeInv, TypeOK, Handle
<1>2. fd'[q] = IF fd[q] # NoHandle /\ Home[q] = n /\ fd[q].file \in gone
              THEN [fd[q] EXCEPT !.linked = FALSE] ELSE fd[q]
  BY DEF RemoveFiles, Unlinked
<1>3. CASE fd[q] \in Handle
  <2>1. /\ [fd[q] EXCEPT !.linked = FALSE] \in Handle
        /\ [fd[q] EXCEPT !.linked = FALSE].file = fd[q].file
        /\ [fd[q] EXCEPT !.linked = FALSE].write = fd[q].write
    BY <1>3 DEF Handle
  <2>. QED  BY <1>1, <1>2, <1>3, <2>1 DEF HandleKept
<1>. QED  BY <1>1, <1>2, <1>3 DEF HandleKept

Stays(q) == pc'[q] = pc[q] /\ call'[q] = call[q] /\ got'[q] = got[q] /\ old'[q] = old[q]

LEMMA OthersStay ==
    ASSUME TypeInv, NEW p \in Proc, Begin(p) \/ Write(p) \/ BeginRelease(p) \/ Step(p),
           NEW q \in Proc, q # p
    PROVE  up' = up /\ Stays(q) /\ HandleKept(q)
<1>. USE DEF Goto, Return, Stays, HandleKept, zht, disk, mine, TypeInv, TypeOK
<1>1. CASE Begin(p)
  BY <1>1 DEF Begin
<1>2. CASE Write(p)
  BY <1>2 DEF Write
<1>3. CASE BeginRelease(p)
  BY <1>3 DEF BeginRelease
<1>4. CASE Getattr(p)
  BY <1>4 DEF Getattr
<1>5. CASE Fetch(p)
  BY <1>5 DEF Fetch
<1>6. CASE Lstat(p)
  BY <1>6 DEF Lstat
<1>7. CASE Truncate(p)
  BY <1>7 DEF Truncate
<1>8. CASE AppendGet(p)
  BY <1>8 DEF AppendGet
<1>9. CASE AppendPut(p)
  BY <1>9 DEF AppendPut
<1>10. CASE Register(p)
  BY <1>10 DEF Register
<1>11. CASE DeleteGet(p)
  BY <1>11 DEF DeleteGet
<1>12. CASE DeletePut(p)
  BY <1>12 DEF DeletePut
<1>13. CASE LookupOwner(p)
  BY <1>13 DEF LookupOwner
<1>14. CASE RemoveEntry(p)
  BY <1>14 DEF RemoveEntry
<1>15. CASE MkdirLocal(p)
  BY <1>15 DEF MkdirLocal
<1>16. CASE NewListing(p)
  BY <1>16 DEF NewListing
<1>17. CASE CheckEmpty(p)
  BY <1>17 DEF CheckEmpty
<1>18. CASE RemoveListing(p)
  BY <1>18 DEF RemoveListing
<1>19. CASE Opendir(p)
  BY <1>19 DEF Opendir
<1>20. CASE ReaddirGet(p)
  BY <1>20 DEF ReaddirGet
<1>21. CASE Creat(p)
  BY <1>21 DEF Creat
<1>22. CASE Open(p)
  BY <1>22 DEF Open
<1>23. CASE Close(p)
  BY <1>23 DEF Close
<1>24. CASE RemoveData(p)
  <2>1. HandleKept(q)
    BY <1>24, UnlinkedKeeps DEF RemoveData
  <2>2. up' = up /\ Stays(q)
    BY <1>24 DEF RemoveData
  <2>. QED  BY <2>1, <2>2
<1>25. CASE DropCopy(p)
  <2>1. HandleKept(q)
    BY <1>25, UnlinkedKeeps DEF DropCopy
  <2>2. up' = up /\ Stays(q)
    BY <1>25 DEF DropCopy
  <2>. QED  BY <2>1, <2>2
<1>26. CASE RmdirLocal(p)
  <2>1. HandleKept(q)
    BY <1>26, UnlinkedKeeps DEF RmdirLocal, RemoveTree
  <2>2. up' = up /\ Stays(q)
    BY <1>26 DEF RmdirLocal
  <2>. QED  BY <2>1, <2>2
<1>27. CASE ReaddirScan(p)
  <2>1. HandleKept(q)
    BY <1>27, UnlinkedKeeps DEF ReaddirScan, RemoveTree
  <2>2. up' = up /\ Stays(q)
    BY <1>27 DEF ReaddirScan
  <2>. QED  BY <2>1, <2>2
<1>. QED  BY <1>1, <1>2, <1>3, <1>4, <1>5, <1>6, <1>7, <1>8, <1>9, <1>10, <1>11, <1>12, <1>13, <1>14, <1>15, <1>16, <1>17, <1>18, <1>19, <1>20, <1>21, <1>22, <1>23, <1>24, <1>25, <1>26, <1>27 DEF Step

\* A step that leaves the writer, its node and ZHT alone.
Undisturbed(w) ==
    /\ addr' = addr /\ list' = list
    /\ store'[Home[w]] = store[Home[w]] /\ ldir'[Home[w]] = ldir[Home[w]]
    /\ Stays(w) /\ HandleKept(w)

LEMMA UndisturbedKeeps ==
    ASSUME NEW w \in Proc, WriterInv(w), Undisturbed(w)
    PROVE  Paths(w)' /\ Handles(w)' /\ (Busy(w)' => Handler(w)')
<1>1. /\ addr' = addr /\ list' = list /\ store'[Home[w]] = store[Home[w]]
      /\ ldir'[Home[w]] = ldir[Home[w]] /\ pc'[w] = pc[w] /\ call'[w] = call[w]
      /\ got'[w] = got[w] /\ old'[w] = old[w]
      /\ fd'[w] = NoHandle <=> fd[w] = NoHandle
      /\ fd[w] # NoHandle => fd'[w].file = fd[w].file /\ fd'[w].write = fd[w].write
  BY DEF Undisturbed, Stays, HandleKept
<1>2. Paths(w)'
  BY <1>1 DEF WriterInv, Paths, Settled, Placed, Listed, Target
<1>3. Handles(w)'
  BY <1>1 DEF WriterInv, Handles, Target
<1>4. ASSUME Busy(w)' PROVE Handler(w)'
  <2>1. Handler(w)
    BY <1>1, <1>4 DEF WriterInv, Busy
  <2>2. (call[w].op = "create" => MakesFile(w)') /\ (call[w].op = "unlink" => RemovesFile(w)')
    BY <1>1, <2>1 DEF Handler, MakesFile, RemovesFile, Listed, Target
  <2>3. (call[w].op = "mkdir" => MakesDir(w)') /\ (call[w].op = "rmdir" => RemovesDir(w)')
    BY <1>1, <2>1 DEF Handler, MakesDir, RemovesDir, Target
  <2>4. HasFolder(Home[w], Folder[Target(w)])' <=> HasFolder(Home[w], Folder[Target(w)])
    BY <1>1 DEF HasFolder, Target
  <2>. QED  BY <1>1, <2>1, <2>2, <2>3, <2>4 DEF Handler, Target, Parent
<1>. QED  BY <1>2, <1>3, <1>4

\* Nobody is served before every client is there.
LEMMA AllMounted ==
    ASSUME NEW w \in Proc, Starts(w), OneWriter(w), NEW p \in Proc, Busy(p) \/ MayServe(p)
    PROVE  (\A n \in Node : up[n] # "new") /\ list[Root].lead
<1>1. \A n \in Node : up[n] # "new"
  BY DEF Starts, Busy, MayServe, OneWriter
<1>. QED  BY <1>1 DEF Starts

\* The steps of the other processes are quiet.
LEMMA ReaderStep ==
    ASSUME NEW w \in Proc, WriterInv(w), OneWriter(w), NEW p \in Proc, p # w,
           Begin(p) \/ Write(p) \/ BeginRelease(p) \/ Step(p)
    PROVE  Undisturbed(w) /\ Reads(w, p)'
<1>1. TypeInv /\ Reads(w, p) /\ Home[w] \in Node /\ Home[p] \in Node
  BY HomeAssumption DEF WriterInv
<1>2. Stays(w) /\ HandleKept(w)
  BY <1>1, OthersStay
<1>3. CASE Begin(p)
  <2>1. PICK c \in Calls : /\ c[1] = p /\ call' = [call EXCEPT ![p] = [op |-> c[2], path |-> c[3]]]
                           /\ pc' = [pc EXCEPT ![p] = Entry(c[2])]
    BY <1>3 DEF Begin
  <2>2. c[2] \in {"stat", "read", "truncate", "readdir"} /\ Home[p] # Home[w]
    BY <2>1 DEF OneWriter
  <2>3. call'[p].op = c[2] /\ pc'[p] # "register"
    BY <1>1, <2>1, <2>2 DEF TypeInv, TypeOK, Entry, FileOp
  <2>4. UNCHANGED <<addr, list, store, ldir, fd>>
    BY <1>3 DEF Begin, zht, disk
  <2>. QED  BY <1>1, <1>2, <2>2, <2>3, <2>4 DEF Undisturbed, Reads
<1>4. CASE Write(p)
  BY <1>1, <1>4 DEF Write, Reads
<1>5. CASE BeginRelease(p)
  <2>1. call'[p].op = "release" /\ pc'[p] = "close" /\ fd[p] # NoHandle
    BY <1>1, <1>5 DEF BeginRelease, TypeInv, TypeOK
  <2>2. UNCHANGED <<addr, list, store, ldir, fd>>
    BY <1>5 DEF BeginRelease, zht, disk
  <2>. QED  BY <1>1, <1>2, <2>1, <2>2 DEF Undisturbed, Reads
<1>6. ASSUME Step(p) PROVE Undisturbed(w) /\ Reads(w, p)'
  <2>1. Busy(p)
    BY <1>6 DEF Step, Busy, At, Getattr, Fetch, Lstat, Open, Truncate, Creat, AppendGet, AppendPut,
              Register, DeleteGet, DeletePut, LookupOwner, RemoveEntry, RemoveData, Close, DropCopy,
              MkdirLocal, NewListing, CheckEmpty, RmdirLocal, RemoveListing, Opendir, ReaddirGet,
              ReaddirScan
  <2>2. /\ Home[p] # Home[w] /\ pc[p] # "register"
        /\ call[p].op \in {"stat", "read", "truncate", "readdir", "release"}
        /\ fd[p] # NoHandle => ~fd[p].write
    BY <1>1, <2>1 DEF Reads
  <2>3. call[p].op \in OpsAt(pc[p])
    BY <1>1, <2>1, TargetType
  <2>4. pc[p] \in {"getattr", "fetch", "lstat", "open", "trunc", "close", "drop", "opendir", "rd_get", "rd_scan"}
    <3>1. pc[p] \in Label
      BY <1>1 DEF TypeInv, TypeOK
    <3>. QED  BY <2>1, <2>2, <2>3, <3>1 DEF OpsAt, Label, FileOp, Busy
  <2>5. \/ Getattr(p) \/ Fetch(p) \/ Lstat(p) \/ Open(p) \/ Truncate(p) \/ Close(p) \/ DropCopy(p)
        \/ Opendir(p) \/ ReaddirGet(p) \/ ReaddirScan(p)
    BY <1>6, <2>4 DEF Step, At, Creat, AppendGet, AppendPut, Register, DeleteGet, DeletePut,
              LookupOwner, RemoveEntry, RemoveData, MkdirLocal, NewListing, CheckEmpty, RmdirLocal,
              RemoveListing
  <2>6. addr' = addr /\ list' = list
    BY <2>5 DEF Getattr, Fetch, Lstat, Open, Truncate, Close, DropCopy, Opendir, ReaddirGet,
              ReaddirScan, zht
  <2>7. store'[Home[w]] = store[Home[w]] /\ ldir'[Home[w]] = ldir[Home[w]]
    <3>. USE <1>1, <2>2 DEF TypeInv, TypeOK, disk, Put
    <3>1. CASE Getattr(p) \/ Lstat(p) \/ Open(p) \/ Close(p) \/ ReaddirGet(p)
      BY <3>1 DEF Getattr, Lstat, Open, Close, ReaddirGet
    <3>2. CASE Fetch(p)
      BY <3>2 DEF Fetch
    <3>3. CASE Truncate(p)
      BY <3>3 DEF Truncate
    <3>4. CASE DropCopy(p)
      BY <3>4 DEF DropCopy, RemoveFiles
    <3>5. CASE Opendir(p)
      BY <3>5 DEF Opendir
    <3>6. CASE ReaddirScan(p)
      BY <3>6 DEF ReaddirScan, RemoveTree, RemoveFiles
    <3>. QED  BY <2>5, <3>1, <3>2, <3>3, <3>4, <3>5, <3>6
  <2>8. Reads(w, p)'
    <3>. USE <1>1, <2>2 DEF TypeInv, TypeOK, Reads, Busy, Goto, Return, At
    <3>1. CASE Getattr(p) \/ Fetch(p) \/ Truncate(p) \/ Opendir(p) \/ ReaddirGet(p)
      BY <3>1 DEF Getattr, Fetch, Truncate, Opendir, ReaddirGet, disk
    <3>2. CASE Lstat(p)
      BY <3>2 DEF Lstat
    <3>3. CASE Open(p)
      <4>1. call[p].op = "read"
        BY <2>2, <2>3, <3>3 DEF Open, OpsAt
      <4>. QED  BY <3>3, <4>1 DEF Open
    <3>4. CASE Close(p)
      <4>1. fd[p] # NoHandle
        BY <3>4, NoneAssumption DEF Close, Serving, Handle
      <4>. QED  BY <3>4, <4>1 DEF Close
    <3>5. CASE DropCopy(p)
      <4>1. HandleKept(p)
        BY <3>5, UnlinkedKeeps DEF DropCopy
      <4>. QED  BY <3>5, <4>1 DEF DropCopy, HandleKept
    <3>6. CASE ReaddirScan(p)
      <4>1. HandleKept(p)
        BY <3>6, UnlinkedKeeps DEF ReaddirScan, RemoveTree, HandleKept
      <4>. QED  BY <3>6, <4>1 DEF ReaddirScan, HandleKept
    <3>. QED  BY <2>5, <3>1, <3>2, <3>3, <3>4, <3>5, <3>6
  <2>. QED  BY <1>2, <2>6, <2>7, <2>8 DEF Undisturbed
<1>. QED  BY <1>3, <1>4, <1>5, <1>6
-----------------------------------------------------------------------------
(* The steps of the writer itself.                                          *)
Own(w) == Paths(w)' /\ Handles(w)' /\ list'[Root].lead /\ (Busy(w)' => Handler(w)')

\* What its handler is about.
LEMMA WriterTarget ==
    ASSUME NEW w \in Proc, WriterInv(w), OneWriter(w), Busy(w)
    PROVE  /\ TypeInv /\ Home[w] \in Node /\ Handler(w) /\ list[Root].lead
           /\ call[w].op \in OpsAt(pc[w])
           /\ call[w].op \in FileOp \union {"release"} =>
                  /\ Target(w) \in File /\ Target(w) \notin Dir /\ Parent(Target(w)) = Folder[Target(w)]
                  /\ Folder[Target(w)] \in Folders
           /\ call[w].op \in {"mkdir", "rmdir"} =>
                  /\ Target(w) \in Dir /\ Target(w) \notin File /\ Target(w) # Root
                  /\ Parent(Target(w)) = Root
           /\ call[w].op = "readdir" => Target(w) = Root
<1>1. TypeInv /\ Handler(w) /\ Home[w] \in Node
  BY HomeAssumption DEF WriterInv
<1>2. /\ call[w].op \in OpsAt(pc[w])
      /\ call[w].op \in FileOp \union {"release"} => Target(w) \in File /\ Folder[Target(w)] \in Folders
      /\ call[w].op \in {"mkdir", "rmdir"} => Target(w) \in Dir
  BY <1>1, TargetType
<1>. QED  BY <1>1, <1>2, PathAssumption DEF Handler, Parent, Folders

\* A step that changes no registration, listing, directory, or presence of a file.
Still(w) ==
    /\ addr' = addr /\ list' = list /\ ldir'[Home[w]] = ldir[Home[w]]
    /\ \A f \in File : store'[Home[w]][f] # 0 <=> store[Home[w]][f] # 0

LEMMA PathsStill ==
    ASSUME NEW w \in Proc, Paths(w), Still(w),
           pc[w] \in FileMidway /\ Target(w) \in File => pc'[w] \in FileMidway /\ Target(w)' = Target(w),
           pc[w] \in DirMidway /\ Target(w) \in Dir => pc'[w] \in DirMidway /\ Target(w)' = Target(w)
    PROVE  Paths(w)'
<1>1. ASSUME NEW f \in File PROVE Settled(w, f)' \/ (pc'[w] \in FileMidway /\ Target(w)' = f)
  <2>1. Settled(w, f) => Settled(w, f)'
    BY DEF Still, Settled, Listed
  <2>. QED  BY <2>1 DEF Paths
<1>2. ASSUME NEW x \in Dir PROVE Placed(w, x)' \/ (pc'[w] \in DirMidway /\ Target(w)' = x)
  <2>1. Placed(w, x) => Placed(w, x)'
    BY DEF Still, Placed
  <2>. QED  BY <2>1 DEF Paths
<1>. QED  BY <1>1, <1>2 DEF Paths, Still

\* Two ways of a handler: it goes on, or it returns.
LEMMA GoesOn ==
    ASSUME NEW w \in Proc, TypeInv, NEW l, Goto(w, l)
    PROVE  pc'[w] = l /\ call'[w] = call[w] /\ Target(w)' = Target(w)
<1>. QED  BY DEF Goto, TypeInv, TypeOK, Target

LEMMA Returns ==
    ASSUME NEW w \in Proc, TypeInv, Return(w)
    PROVE  pc'[w] = "idle" /\ ~Busy(w)'
<1>. QED  BY DEF Return, TypeInv, TypeOK, Busy

\* A step that is still and returns.
LEMMA StillReturns ==
    ASSUME NEW w \in Proc, WriterInv(w), OneWriter(w), Busy(w), Still(w), Return(w),
           HandleKept(w) \/ fd'[w] = fd[w] \/ fd'[w] = NoHandle \/ (fd'[w].write => addr[fd'[w].file] # NoNode),
           pc[w] \notin FileMidway, pc[w] \notin DirMidway
    PROVE  Own(w)
<1>1. TypeInv /\ list[Root].lead
  BY WriterTarget
<1>2. Paths(w)'
  BY PathsStill DEF WriterInv
<1>3. Handles(w)'
  BY DEF WriterInv, Handles, Still, FileMidway, HandleKept
<1>. QED  BY <1>1, <1>2, <1>3, Returns DEF Own, Still

\* A step that is still and goes on; what its handler then holds is left to show.
LEMMA StillGoes ==
    ASSUME NEW w \in Proc, WriterInv(w), OneWriter(w), Busy(w), Still(w), NEW l, Goto(w, l), fd' = fd,
           pc[w] \in FileMidway /\ Target(w) \in File => l \in FileMidway,
           pc[w] \in DirMidway /\ Target(w) \in Dir => l \in DirMidway,
           pc[w] \in {"app_get", "app_put", "register"} => l \in {"app_get", "app_put", "register"},
           Handler(w)'
    PROVE  Own(w)
<1>1. TypeInv /\ list[Root].lead
  BY WriterTarget
<1>2. pc'[w] = l /\ call'[w] = call[w] /\ Target(w)' = Target(w)
  BY <1>1, GoesOn
<1>3. Paths(w)'
  BY <1>2, PathsStill DEF WriterInv
<1>4. Handles(w)'
  BY <1>2 DEF WriterInv, Handles, Still
<1>. QED  BY <1>1, <1>3, <1>4 DEF Own, Still

\* fusion_getattr and what follows it up to the first change.
LEMMA GetattrOwn ==
    ASSUME NEW w \in Proc, WriterInv(w), OneWriter(w), Getattr(w) PROVE Own(w)
<1>1. Busy(w) /\ pc[w] = "getattr" /\ Goto(w, "fetch") /\ fd' = fd /\ Still(w)
      /\ list' = list /\ ldir' = ldir /\ got' = [got EXCEPT ![w] = addr[Target(w)]]
  BY DEF Getattr, At, Busy, Still, zht, disk
<1>2. TypeInv /\ Handler(w) /\ call[w].op \in FileOp /\ list[Root].lead
      /\ Target(w) \in File
  BY <1>1, WriterTarget DEF OpsAt
<1>3. pc'[w] = "fetch" /\ call'[w] = call[w] /\ Target(w)' = Target(w)
  BY <1>1, <1>2, GoesOn
<1>4. Handler(w)'
  <2>1. (call[w].op = "create" => MakesFile(w)') /\ (call[w].op = "unlink" => RemovesFile(w)')
    BY <1>1, <1>2, <1>3 DEF Handler, MakesFile, RemovesFile
  <2>2. HasFolder(Home[w], Folder[Target(w)])'
    BY <1>1, <1>2, <1>3 DEF Handler, HasFolder
  <2>3. got'[w] \in {NoNode, Home[w]}
    BY <1>1, <1>2, WriterTarget DEF WriterInv, Paths, TypeInv, TypeOK
  <2>. QED  BY <1>1, <1>2, <1>3, <2>1, <2>2, <2>3 DEF Handler, FileOp
<1>. QED  BY <1>1, <1>4, StillGoes DEF FileMidway, DirMidway

LEMMA FetchOwn ==
    ASSUME NEW w \in Proc, WriterInv(w), OneWriter(w), Fetch(w) PROVE Own(w)
<1>1. Busy(w) /\ pc[w] = "fetch" /\ Goto(w, "lstat") /\ fd' = fd /\ addr' = addr /\ list' = list
  BY DEF Fetch, At, Busy, zht
<1>2. /\ TypeInv /\ Handler(w) /\ call[w].op \in FileOp /\ list[Root].lead /\ Home[w] \in Node
      /\ Target(w) \in File /\ Folder[Target(w)] \in Folders
  BY <1>1, WriterTarget DEF OpsAt
<1>3. pc'[w] = "lstat" /\ call'[w] = call[w] /\ Target(w)' = Target(w)
  BY <1>1, <1>2, GoesOn
<1>4. ~Fetches(w)
  BY <1>1, <1>2 DEF Fetches, Handler
<1>5. Still(w) /\ ldir' = ldir
  BY <1>1, <1>4 DEF Fetch, Still
<1>6. Handler(w)'
  <2>1. (call[w].op = "create" => MakesFile(w)') /\ (call[w].op = "unlink" => RemovesFile(w)')
    BY <1>1, <1>2, <1>3 DEF Handler, MakesFile, RemovesFile
  <2>2. HasFolder(Home[w], Folder[Target(w)])'
    BY <1>2, <1>3, <1>5 DEF Handler, HasFolder
  <2>. QED  BY <1>1, <1>2, <1>3, <2>1, <2>2 DEF Handler, FileOp
<1>. QED  BY <1>1, <1>5, <1>6, StillGoes DEF FileMidway, DirMidway

LEMMA LstatOwn ==
    ASSUME NEW w \in Proc, WriterInv(w), OneWriter(w), Lstat(w) PROVE Own(w)
<1>1. Busy(w) /\ pc[w] = "lstat" /\ fd' = fd /\ list' = list /\ ldir' = ldir /\ addr' = addr /\ Still(w)
  BY DEF Lstat, At, Busy, Still, zht, disk
<1>2. /\ TypeInv /\ Handler(w) /\ call[w].op \in FileOp /\ list[Root].lead /\ Home[w] \in Node
      /\ Target(w) \in File /\ Folder[Target(w)] \in Folders
  BY <1>1, WriterTarget DEF OpsAt
<1>3. CASE Return(w)
  BY <1>1, <1>3, StillReturns DEF FileMidway, DirMidway
<1>4. ASSUME NEW l, Goto(w, l), l \in {"open", "trunc", "creat", "del_get"},
             l = "open" => call[w].op \in {"read", "write", "create"},
             l = "trunc" => call[w].op = "truncate",
             l = "creat" => call[w].op = "create" /\ ~Present(w),
             l = "del_get" => call[w].op = "unlink" /\ Present(w)
      PROVE  Own(w)
  <2>1. pc'[w] = l /\ call'[w] = call[w] /\ Target(w)' = Target(w)
    BY <1>2, <1>4, GoesOn
  <2>2. Listed(Target(w)) <=> Present(w)
    BY <1>1, <1>2 DEF WriterInv, Paths, FileMidway, Settled, Present
  <2>3. (call[w].op = "create" => MakesFile(w)') /\ (call[w].op = "unlink" => RemovesFile(w)')
    BY <1>1, <1>2, <1>4, <2>1, <2>2 DEF Handler, MakesFile, RemovesFile, Listed
  <2>4. HasFolder(Home[w], Folder[Target(w)])'
    BY <1>1, <1>2, <2>1 DEF Handler, HasFolder
  <2>5. Handler(w)'
    BY <1>1, <1>2, <1>4, <2>1, <2>3, <2>4 DEF Handler, FileOp
  <2>. QED  BY <1>1, <1>4, <2>5, StillGoes DEF FileMidway, DirMidway
<1>5. \/ Return(w)
      \/ Goto(w, "open") /\ call[w].op \in {"read", "write", "create"}
      \/ Goto(w, "trunc") /\ call[w].op = "truncate"
      \/ Goto(w, "creat") /\ call[w].op = "create" /\ ~Present(w)
      \/ Goto(w, "del_get") /\ call[w].op = "unlink" /\ Present(w)
  BY DEF Lstat
<1>. QED  BY <1>3, <1>4, <1>5

LEMMA OpenOwn ==
    ASSUME NEW w \in Proc, WriterInv(w), OneWriter(w), Open(w) PROVE Own(w)
<1>1. Busy(w) /\ pc[w] = "open" /\ Return(w) /\ Still(w)
  BY DEF Open, At, Busy, Still, zht, disk
<1>2. TypeInv /\ Home[w] \in Node /\ Target(w) \in File
  BY <1>1, WriterTarget DEF OpsAt, FileOp
<1>3. CASE Present(w)
  <2>1. addr[Target(w)] # NoNode
    BY <1>1, <1>2, <1>3 DEF WriterInv, Paths, FileMidway, Settled, Present
  <2>2. fd'[w].file = Target(w)
    BY <1>2, <1>3 DEF Open, TypeInv, TypeOK
  <2>. QED  BY <1>1, <2>1, <2>2, StillReturns DEF FileMidway, DirMidway
<1>4. CASE ~Present(w)
  BY <1>1, <1>4, StillReturns DEF Open, FileMidway, DirMidway
<1>. QED  BY <1>3, <1>4

LEMMA TruncateOwn ==
    ASSUME NEW w \in Proc, WriterInv(w), OneWriter(w), Truncate(w) PROVE Own(w)
<1>1. Busy(w) /\ pc[w] = "trunc" /\ Return(w) /\ fd' = fd /\ addr' = addr /\ list' = list /\ ldir' = ldir
  BY DEF Truncate, At, Busy, zht
<1>2. TypeInv /\ Home[w] \in Node /\ Target(w) \in File
  BY <1>1, WriterTarget DEF OpsAt, FileOp
<1>3. CASE Present(w)
  <2>1. clock + 1 \in Nat /\ clock + 1 # 0
    BY <1>2 DEF TypeInv, TypeOK
  <2>2. store'[Home[w]] = [store[Home[w]] EXCEPT ![Target(w)] = clock + 1]
    BY <1>2, <1>3 DEF Truncate, Put, TypeInv, TypeOK
  <2>3. \A f \in File : store'[Home[w]][f] # 0 <=> store[Home[w]][f] # 0
    BY <1>2, <1>3, <2>1, <2>2 DEF Present, TypeInv, TypeOK
  <2>. QED  BY <1>1, <2>3, StillReturns DEF Still, FileMidway, DirMidway
<1>4. CASE ~Present(w)
  BY <1>1, <1>4, StillReturns DEF Truncate, Still, FileMidway, DirMidway
<1>. QED  BY <1>3, <1>4

\* A listing that is written back changes what is known of one path only.
LEMMA RelistKeeps ==
    ASSUME NEW w \in Proc, TypeInv, Paths(w), NEW F \in Folders, NEW t, NEW l,
           list' = [list EXCEPT ![F] = l], F = t \/ (list[F].lead /\ l.lead), NoTwins(l),
           \A y : y # t => (y \in Named(l) <=> y \in Named(list[F])),
           addr' = addr, store'[Home[w]] = store[Home[w]], ldir'[Home[w]] = ldir[Home[w]]
    PROVE  /\ \A f \in File : f # t /\ Settled(w, f) => Settled(w, f)'
           /\ \A x \in Dir : x # t /\ Placed(w, x) => Placed(w, x)'
           /\ \A x \in Folders : NoTwins(list[x])'
           /\ \A f \in File : addr'[f] \in {NoNode, Home[w]}
<1>1. list'[F] = l /\ \A x \in Folders : x # F => list'[x] = list[x]
  BY DEF TypeInv, TypeOK
<1>2. \A y, x : y # t /\ x \in Folders => (y \in Named(list'[x]) <=> y \in Named(list[x]))
  BY <1>1
<1>3. ASSUME NEW f \in File, f # t, Settled(w, f) PROVE Settled(w, f)'
  <2>1. Listed(f)' <=> Listed(f)
    BY <1>2, <1>3, FolderAssumption DEF Listed
  <2>. QED  BY <1>3, <2>1 DEF Settled
<1>4. ASSUME NEW x \in Dir, x # t, Placed(w, x) PROVE Placed(w, x)'
  <2>1. x \in Folders /\ Root \in Folders
    BY DEF Folders
  <2>2. x \in Named(list'[Root]) <=> x \in Named(list[Root])
    BY <1>2, <1>4, <2>1
  <2>3. list'[x] = list[x] \/ (list[x].lead /\ list'[x].lead)
    BY <1>1, <1>4, <2>1
  <2>. QED  BY <1>4, <2>2, <2>3 DEF Placed
<1>5. \A x \in Folders : NoTwins(list'[x])
  BY <1>1 DEF Paths
<1>. QED  BY <1>3, <1>4, <1>5 DEF Paths

\* The folder of the file the writer works on has its listing.
LEMMA FolderHasListing ==
    ASSUME NEW w \in Proc, WriterInv(w), OneWriter(w), Busy(w), call[w].op \in FileOp
    PROVE  list[Folder[Target(w)]].lead
<1>1. /\ Handler(w) /\ list[Root].lead /\ Target(w) \notin Dir /\ Folder[Target(w)] \in Folders
      /\ HasFolder(Home[w], Folder[Target(w)])
  BY WriterTarget DEF Handler
<1>2. CASE Folder[Target(w)] = Root
  BY <1>1, <1>2
<1>3. CASE Folder[Target(w)] # Root
  <2>1. Folder[Target(w)] \in Dir /\ Folder[Target(w)] \in ldir[Home[w]]
    BY <1>1, <1>3 DEF Folders, HasFolder
  <2>2. Placed(w, Folder[Target(w)])
    BY <1>1, <2>1 DEF WriterInv, Paths
  <2>. QED  BY <2>1, <2>2 DEF Placed
<1>. QED  BY <1>2, <1>3

\* fusion_create.
LEMMA CreatOwn ==
    ASSUME NEW w \in Proc, WriterInv(w), OneWriter(w), Creat(w) PROVE Own(w)
<1>1. Busy(w) /\ pc[w] = "creat" /\ Goto(w, "app_get") /\ addr' = addr /\ list' = list /\ ldir' = ldir
  BY DEF Creat, At, Busy, zht
<1>2. /\ TypeInv /\ Handler(w) /\ call[w].op = "create" /\ list[Root].lead /\ Home[w] \in Node
      /\ Target(w) \in File /\ Folder[Target(w)] \in Folders
  BY <1>1, WriterTarget DEF OpsAt, FileOp
<1>3. pc'[w] = "app_get" /\ call'[w] = call[w] /\ Target(w)' = Target(w)
  BY <1>1, <1>2, GoesOn
<1>4. HasFolder(Home[w], Folder[Target(w)]) /\ ~Listed(Target(w))
  BY <1>1, <1>2 DEF Handler, MakesFile, FileOp
<1>5. addr[Target(w)] = NoNode
  BY <1>1, <1>2, <1>4 DEF WriterInv, Paths, FileMidway, Settled
<1>6. /\ store'[Home[w]] = [store[Home[w]] EXCEPT ![Target(w)] = clock + 1] /\ clock + 1 # 0
      /\ fd'[w] = [file |-> Target(w), write |-> TRUE, linked |-> TRUE]
  <2>1. clock + 1 # 0
    BY <1>2 DEF TypeInv, TypeOK
  <2>. QED  BY <1>2, <1>4, <2>1 DEF Creat, Put, TypeInv, TypeOK
<1>7. /\ store'[Home[w]][Target(w)] # 0
      /\ \A f \in File : f # Target(w) => store'[Home[w]][f] = store[Home[w]][f]
  BY <1>2, <1>6 DEF TypeInv, TypeOK
<1>8. ASSUME NEW f \in File, f # Target(w) PROVE Settled(w, f)'
  <2>1. Settled(w, f)
    BY <1>1, <1>8 DEF WriterInv, Paths
  <2>. QED  BY <1>1, <1>7, <1>8, <2>1 DEF Settled, Listed
<1>9. ASSUME NEW x \in Dir PROVE Placed(w, x)'
  <2>1. Placed(w, x)
    BY <1>1, <1>9 DEF WriterInv, Paths, DirMidway
  <2>. QED  BY <1>1, <2>1 DEF Placed
<1>10. Paths(w)'
  BY <1>1, <1>3, <1>8, <1>9 DEF WriterInv, Paths, FileMidway
<1>11. Handles(w)'
  BY <1>2, <1>3, <1>6 DEF Handles
<1>12. MakesFile(w)'
  BY <1>1, <1>3, <1>4, <1>5, <1>7 DEF MakesFile, Listed
<1>13. HasFolder(Home[w], Folder[Target(w)])'
  BY <1>1, <1>3, <1>4 DEF HasFolder
<1>14. Handler(w)'
  BY <1>1, <1>2, <1>3, <1>12, <1>13 DEF Handler
<1>. QED  BY <1>1, <1>2, <1>10, <1>11, <1>14 DEF Own

LEMMA RegisterOwn ==
    ASSUME NEW w \in Proc, WriterInv(w), OneWriter(w), Register(w) PROVE Own(w)
<1>1. /\ Busy(w) /\ pc[w] = "register" /\ Return(w) /\ list' = list /\ store' = store /\ ldir' = ldir
      /\ fd' = fd /\ addr' = [addr EXCEPT ![Target(w)] = Home[w]]
  BY DEF Register, At, Busy, disk
<1>2. /\ TypeInv /\ Handler(w) /\ call[w].op = "create" /\ list[Root].lead /\ Home[w] \in Node
      /\ Target(w) \in File /\ Home[w] # NoNode
  BY <1>1, WriterTarget, NoneAssumption DEF OpsAt, FileOp, Handler
<1>3. Listed(Target(w)) /\ store[Home[w]][Target(w)] # 0
  BY <1>1, <1>2 DEF Handler, MakesFile
<1>4. addr'[Target(w)] = Home[w] /\ \A f \in File : f # Target(w) => addr'[f] = addr[f]
  BY <1>1, <1>2 DEF TypeInv, TypeOK
<1>5. ASSUME NEW f \in File PROVE Settled(w, f)' /\ addr'[f] \in {NoNode, Home[w]}
  <2>1. CASE f = Target(w)
    BY <1>1, <1>2, <1>3, <1>4, <2>1 DEF Settled, Listed
  <2>2. CASE f # Target(w)
    <3>1. Settled(w, f) /\ addr[f] \in {NoNode, Home[w]}
      BY <1>1, <2>2 DEF WriterInv, Paths
    <3>. QED  BY <1>1, <1>4, <2>2, <3>1 DEF Settled, Listed
  <2>. QED  BY <2>1, <2>2
<1>6. ASSUME NEW x \in Dir PROVE Placed(w, x)'
  <2>1. Placed(w, x)
    BY <1>1, <1>6 DEF WriterInv, Paths, DirMidway
  <2>. QED  BY <1>1, <2>1 DEF Placed
<1>7. Paths(w)'
  BY <1>1, <1>5, <1>6 DEF WriterInv, Paths
<1>8. Handles(w)'
  <2>1. fd[w] # NoHandle => fd[w].file \in File
    BY <1>2 DEF TypeInv, TypeOK, Handle
  <2>2. fd[w] # NoHandle /\ fd[w].write => addr[fd[w].file] # NoNode \/ fd[w].file = Target(w)
    BY DEF WriterInv, Handles
  <2>. QED  BY <1>1, <1>2, <1>4, <2>1, <2>2 DEF Handles
<1>. QED  BY <1>1, <1>2, <1>7, <1>8, Returns DEF Own

\* zht_append.
LEMMA AppendGetOwn ==
    ASSUME NEW w \in Proc, WriterInv(w), OneWriter(w), AppendGet(w) PROVE Own(w)
<1>1. /\ Busy(w) /\ pc[w] = "app_get" /\ Goto(w, "app_put") /\ fd' = fd /\ Still(w)
      /\ UNCHANGED <<addr, list, store, ldir>> /\ old' = [old EXCEPT ![w] = list[Parent(Target(w))]]
  BY DEF AppendGet, At, Busy, Still, zht, disk
<1>2. TypeInv /\ Handler(w) /\ call[w].op \in {"create", "mkdir"} /\ list[Root].lead
  BY <1>1, WriterTarget DEF OpsAt
<1>3. pc'[w] = "app_put" /\ call'[w] = call[w] /\ Target(w)' = Target(w)
  BY <1>1, <1>2, GoesOn
<1>4. old'[w] = list[Parent(Target(w))]
  BY <1>1, <1>2 DEF TypeInv, TypeOK
<1>5. (call[w].op = "create" => MakesFile(w)') /\ (call[w].op = "mkdir" => MakesDir(w)')
  BY <1>1, <1>2, <1>3 DEF Handler, MakesFile, MakesDir, Listed
<1>6. call[w].op = "create" => HasFolder(Home[w], Folder[Target(w)])'
  BY <1>1, <1>2, <1>3 DEF Handler, HasFolder, FileOp
<1>7. Handler(w)'
  BY <1>1, <1>2, <1>3, <1>4, <1>5, <1>6 DEF Handler, FileOp, Parent
<1>. QED  BY <1>1, <1>7, StillGoes DEF FileMidway, DirMidway

LEMMA AppendPutOwn ==
    ASSUME NEW w \in Proc, WriterInv(w), OneWriter(w), AppendPut(w) PROVE Own(w)
<1>1. /\ Busy(w) /\ pc[w] = "app_put" /\ fd' = fd /\ UNCHANGED <<addr, store, ldir>>
      /\ list' = [list EXCEPT ![Parent(Target(w))] = Appended(old[w], Target(w))]
  BY DEF AppendPut, At, Busy, disk
<1>2. /\ TypeInv /\ Handler(w) /\ call[w].op \in {"create", "mkdir"} /\ list[Root].lead
      /\ Parent(Target(w)) \in Folders /\ Target(w) \in Path
  BY <1>1, WriterTarget, TargetType DEF OpsAt
<1>3. old[w] = list[Parent(Target(w))] /\ list[Parent(Target(w))] \in Listing
  BY <1>1, <1>2 DEF Handler, TypeInv, TypeOK
<1>. DEFINE F == Parent(Target(w))
            t == Target(w)
            l == Appended(old[w], t)
<1>4. list[F].lead /\ t \notin Named(list[F]) /\ NoTwins(list[F])
  <2>1. CASE call[w].op = "create"
    <3>1. F = Folder[t] /\ list[Folder[t]].lead
      BY <1>1, <2>1, WriterTarget, FolderHasListing DEF FileOp
    <3>. QED  BY <1>1, <1>2, <2>1, <3>1 DEF WriterInv, Paths, Handler, MakesFile, Listed
  <2>2. CASE call[w].op = "mkdir"
    <3>1. F = Root
      BY <1>1, <2>2, WriterTarget
    <3>. QED  BY <1>1, <1>2, <2>2, <3>1 DEF WriterInv, Paths, Handler, MakesDir
  <2>. QED  BY <1>2, <2>1, <2>2
<1>5. l.lead /\ NoTwins(l) /\ Named(l) = Named(list[F]) \union {t}
  BY <1>2, <1>3, <1>4, NamesAppended
<1>6. list' = [list EXCEPT ![F] = l] /\ list'[F] = l
  BY <1>1, <1>2 DEF TypeInv, TypeOK
<1>. HIDE DEF F, l
<1>7. /\ \A f \in File : f # t /\ Settled(w, f) => Settled(w, f)'
      /\ \A x \in Dir : x # t /\ Placed(w, x) => Placed(w, x)'
      /\ \A x \in Folders : NoTwins(list[x])'
      /\ \A f \in File : addr'[f] \in {NoNode, Home[w]}
  <2>1. \A y : y # t => (y \in Named(l) <=> y \in Named(list[F]))
    BY <1>5
  <2>2. F \in Folders
    BY <1>2 DEF F
  <2>3. /\ TypeInv /\ Paths(w) /\ addr' = addr
        /\ store'[Home[w]] = store[Home[w]] /\ ldir'[Home[w]] = ldir[Home[w]]
    BY <1>1 DEF WriterInv
  <2>4. list' = [list EXCEPT ![F] = l] /\ list[F].lead /\ l.lead /\ NoTwins(l)
    BY <1>4, <1>5, <1>6
  <2>. HIDE DEF t
  <2>. QED  BY <2>1, <2>2, <2>3, <2>4, RelistKeeps
<1>8. list'[Root].lead
  BY <1>2, <1>5, <1>6 DEF TypeInv, TypeOK, Folders
<1>9. CASE call[w].op = "create"
  <2>1. Goto(w, "register") /\ t \in File /\ t \notin Dir /\ F = Folder[t]
    BY <1>1, <1>9, WriterTarget DEF AppendPut, FileOp, F
  <2>2. pc'[w] = "register" /\ call'[w] = call[w] /\ Target(w)' = Target(w)
    BY <1>2, <2>1, GoesOn
  <2>3. Paths(w)'
    BY <1>1, <1>7, <2>1, <2>2 DEF WriterInv, Paths, FileMidway
  <2>4. Handles(w)'
    BY <1>1, <1>9, <2>2 DEF WriterInv, Handles
  <2>5. MakesFile(w)'
    <3>1. addr[t] = NoNode /\ store[Home[w]][t] # 0
      BY <1>1, <1>2, <1>9 DEF Handler, MakesFile
    <3>. QED  BY <1>1, <1>5, <1>6, <2>1, <2>2, <3>1 DEF MakesFile, Listed
  <2>6. HasFolder(Home[w], Folder[Target(w)])'
    BY <1>1, <1>2, <1>9, <2>2 DEF Handler, HasFolder, FileOp
  <2>7. Handler(w)'
    BY <1>8, <1>9, <2>2, <2>5, <2>6 DEF Handler
  <2>. QED  BY <1>8, <2>3, <2>4, <2>7 DEF Own
<1>10. CASE call[w].op = "mkdir"
  <2>1. Return(w) /\ t \in Dir /\ t \notin File /\ t # Root /\ F = Root
    BY <1>1, <1>10, WriterTarget DEF AppendPut, F
  <2>2. t \in ldir[Home[w]] /\ list[t] = EmptyList
    BY <1>1, <1>2, <1>10 DEF Handler, MakesDir
  <2>3. t \in Named(list'[Root]) /\ list'[t] = EmptyList
    BY <1>2, <1>5, <1>6, <2>1, <2>2 DEF TypeInv, TypeOK, Folders
  <2>4. ASSUME NEW x, x = t PROVE Placed(w, x)'
    BY <1>1, <2>2, <2>3, <2>4, NamesOfNone DEF Placed
  <2>5. Paths(w)'
    BY <1>1, <1>7, <2>1, <2>4 DEF WriterInv, Paths
  <2>6. Handles(w)'
    BY <1>1, <1>10 DEF WriterInv, Handles
  <2>. QED  BY <1>2, <1>8, <2>1, <2>5, <2>6, Returns DEF Own
<1>. QED  BY <1>2, <1>9, <1>10

\* zht_delete: the name is there, so it is found.
LEMMA DeleteGetOwn ==
    ASSUME NEW w \in Proc, WriterInv(w), OneWriter(w), DeleteGet(w) PROVE Own(w)
<1>1. /\ Busy(w) /\ pc[w] = "del_get" /\ fd' = fd /\ Still(w) /\ UNCHANGED <<addr, list, store, ldir>>
      /\ old' = [old EXCEPT ![w] = list[Parent(Target(w))]]
  BY DEF DeleteGet, At, Busy, Still, zht, disk
<1>2. TypeInv /\ Handler(w) /\ call[w].op \in {"unlink", "rmdir"} /\ list[Root].lead
  BY <1>1, WriterTarget DEF OpsAt
<1>3. list[Parent(Target(w))].lead /\ Target(w) \in Named(list[Parent(Target(w))])
  <2>1. CASE call[w].op = "unlink"
    <3>1. Listed(Target(w))
      BY <1>1, <1>2, <2>1 DEF Handler, RemovesFile
    <3>2. Parent(Target(w)) = Folder[Target(w)] /\ list[Folder[Target(w)]].lead
      BY <1>1, <2>1, WriterTarget, FolderHasListing DEF FileOp
    <3>. QED  BY <3>1, <3>2 DEF Listed
  <2>2. CASE call[w].op = "rmdir"
    <3>1. Target(w) \in Named(list[Root])
      BY <1>1, <1>2, <2>2 DEF Handler, RemovesDir
    <3>2. Parent(Target(w)) = Root
      BY <1>1, <2>2, WriterTarget
    <3>. QED  BY <1>2, <3>1, <3>2
  <2>. QED  BY <1>2, <2>1, <2>2
<1>4. Findable(list[Parent(Target(w))], Target(w)) # {}
  BY <1>3 DEF Findable, Named, ToSet
<1>5. Goto(w, "del_put")
  BY <1>4 DEF DeleteGet
<1>6. pc'[w] = "del_put" /\ call'[w] = call[w] /\ Target(w)' = Target(w)
  BY <1>2, <1>5, GoesOn
<1>7. old'[w] = list[Parent(Target(w))]
  BY <1>1, <1>2 DEF TypeInv, TypeOK
<1>8. (call[w].op = "unlink" => RemovesFile(w)') /\ (call[w].op = "rmdir" => RemovesDir(w)')
  BY <1>1, <1>2, <1>6 DEF Handler, RemovesFile, RemovesDir, Listed
<1>9. call[w].op = "unlink" => HasFolder(Home[w], Folder[Target(w)])'
  BY <1>1, <1>2, <1>6 DEF Handler, HasFolder, FileOp
<1>10. Handler(w)'
  BY <1>1, <1>2, <1>6, <1>7, <1>8, <1>9 DEF Handler, FileOp, Parent
<1>11. call[w].op = "unlink" => Target(w) \in File /\ Target(w) \notin Dir
  BY <1>1, WriterTarget DEF FileOp
<1>. QED  BY <1>1, <1>5, <1>10, <1>11, StillGoes DEF FileMidway, DirMidway

LEMMA DeletePutOwn ==
    ASSUME NEW w \in Proc, WriterInv(w), OneWriter(w), DeletePut(w) PROVE Own(w)
<1>. DEFINE F == Parent(Target(w))
            t == Target(w)
<1>1. /\ Busy(w) /\ pc[w] = "del_put" /\ fd' = fd /\ UNCHANGED <<addr, store, ldir, got>>
      /\ Goto(w, AfterDelete(w))
  BY DEF DeletePut, At, Busy, disk, mine
<1>2. /\ TypeInv /\ Handler(w) /\ call[w].op \in {"unlink", "rmdir"} /\ list[Root].lead
      /\ F \in Folders /\ t \in Path
  BY <1>1, WriterTarget, TargetType DEF OpsAt
<1>3. old[w] = list[F] /\ list[F] \in Listing /\ NoTwins(list[F])
  BY <1>1, <1>2 DEF Handler, TypeInv, TypeOK, WriterInv, Paths
<1>4. PICK i \in Findable(list[F], t) : list' = [list EXCEPT ![F] = Without(list[F], i)]
  BY <1>3 DEF DeletePut
<1>. DEFINE l == Without(list[F], i)
<1>5. l.lead = list[F].lead /\ NoTwins(l) /\ Named(l) = Named(list[F]) \ {t}
  BY <1>3, NamesWithout
<1>6. list[F].lead
  <2>1. CASE call[w].op = "unlink"
    BY <1>1, <2>1, WriterTarget, FolderHasListing DEF FileOp
  <2>2. CASE call[w].op = "rmdir"
    BY <1>1, <2>2, WriterTarget
  <2>. QED  BY <1>2, <2>1, <2>2
<1>7. list' = [list EXCEPT ![F] = l] /\ list'[F] = l
  BY <1>2, <1>4 DEF TypeInv, TypeOK
<1>. HIDE DEF F, l
<1>8. /\ \A f \in File : f # t /\ Settled(w, f) => Settled(w, f)'
      /\ \A x \in Dir : x # t /\ Placed(w, x) => Placed(w, x)'
      /\ \A x \in Folders : NoTwins(list[x])'
      /\ \A f \in File : addr'[f] \in {NoNode, Home[w]}
  <2>1. \A y : y # t => (y \in Named(l) <=> y \in Named(list[F]))
    BY <1>5
  <2>2. l.lead
    BY <1>5, <1>6
  <2>3. /\ TypeInv /\ Paths(w) /\ addr' = addr /\ F \in Folders
        /\ store'[Home[w]] = store[Home[w]] /\ ldir'[Home[w]] = ldir[Home[w]]
    BY <1>1, <1>2 DEF WriterInv
  <2>4. list' = [list EXCEPT ![F] = l] /\ list[F].lead /\ NoTwins(l)
    BY <1>5, <1>6, <1>7
  <2>. HIDE DEF t
  <2>. QED  BY <2>1, <2>2, <2>3, <2>4, RelistKeeps
<1>9. list'[Root].lead
  BY <1>2, <1>5, <1>6, <1>7 DEF TypeInv, TypeOK, Folders
<1>10. pc'[w] = AfterDelete(w) /\ call'[w] = call[w] /\ Target(w)' = Target(w)
  BY <1>1, <1>2, GoesOn
<1>11. Handles(w)'
  BY <1>1 DEF WriterInv, Handles
<1>12. CASE call[w].op = "unlink"
  <2>1. t \in File /\ t \notin Dir /\ F = Folder[t] /\ pc'[w] = "oldaddr"
    BY <1>1, <1>10, <1>12, WriterTarget DEF FileOp, F, AfterDelete
  <2>2. Paths(w)'
    BY <1>1, <1>8, <1>10, <2>1 DEF WriterInv, Paths, FileMidway, DirMidway
  <2>3. addr[t] # NoNode /\ store[Home[w]][t] # 0
    <3>1. Settled(w, t) /\ Listed(t)
      BY <1>1, <1>2, <1>12, <2>1 DEF WriterInv, Paths, FileMidway, Handler, RemovesFile
    <3>. QED  BY <3>1 DEF Settled
  <2>4. t \notin Named(list'[Folder[t]])
    BY <1>5, <1>7, <2>1
  <2>5. RemovesFile(w)'
    BY <1>1, <1>2, <1>10, <1>12, <2>1, <2>3, <2>4 DEF Handler, RemovesFile, Listed
  <2>6. HasFolder(Home[w], Folder[Target(w)])'
    BY <1>1, <1>2, <1>10, <1>12 DEF Handler, HasFolder, FileOp
  <2>7. Handler(w)'
    BY <1>9, <1>10, <1>12, <2>1, <2>5, <2>6 DEF Handler
  <2>. QED  BY <1>9, <1>11, <2>2, <2>7 DEF Own
<1>13. CASE call[w].op = "rmdir"
  <2>1. t \in Dir /\ t \notin File /\ t # Root /\ F = Root /\ pc'[w] = "rmkey"
    BY <1>1, <1>10, <1>13, WriterTarget DEF F, AfterDelete
  <2>2. Paths(w)'
    BY <1>1, <1>8, <1>10, <2>1 DEF WriterInv, Paths, FileMidway, DirMidway
  <2>3. t \notin ldir[Home[w]] /\ list[t] = EmptyList
    BY <1>1, <1>2, <1>13 DEF Handler, RemovesDir
  <2>4. t \notin Named(list'[Root]) /\ list'[t] = EmptyList
    BY <1>2, <1>5, <1>7, <2>1, <2>3 DEF TypeInv, TypeOK, Folders
  <2>5. RemovesDir(w)'
    BY <1>1, <1>10, <2>1, <2>3, <2>4 DEF RemovesDir
  <2>6. Handler(w)'
    BY <1>9, <1>10, <1>13, <2>1, <2>5 DEF Handler, FileOp
  <2>. QED  BY <1>9, <1>11, <2>2, <2>6 DEF Own
<1>. QED  BY <1>2, <1>12, <1>13

\* fusion_unlink after zht_delete.
LEMMA LookupOwnerOwn ==
    ASSUME NEW w \in Proc, WriterInv(w), OneWriter(w), LookupOwner(w) PROVE Own(w)
<1>1. /\ Busy(w) /\ pc[w] = "oldaddr" /\ Goto(w, "rmaddr") /\ fd' = fd /\ Still(w)
      /\ UNCHANGED <<addr, list, store, ldir>> /\ got' = [got EXCEPT ![w] = addr[Target(w)]]
  BY DEF LookupOwner, At, Busy, Still, zht, disk
<1>2. /\ TypeInv /\ Handler(w) /\ call[w].op = "unlink" /\ list[Root].lead
      /\ Target(w) \in File /\ Target(w) \notin Dir
  BY <1>1, WriterTarget DEF OpsAt, FileOp
<1>3. pc'[w] = "rmaddr" /\ call'[w] = call[w] /\ Target(w)' = Target(w)
  BY <1>1, <1>2, GoesOn
<1>4. RemovesFile(w)
  BY <1>2 DEF Handler
<1>5. got'[w] = Home[w]
  <2>1. addr[Target(w)] = Home[w]
    BY <1>1, <1>2, <1>4 DEF WriterInv, Paths, RemovesFile
  <2>. QED  BY <1>1, <1>2, <2>1 DEF TypeInv, TypeOK
<1>6. RemovesFile(w)'
  BY <1>1, <1>3, <1>4, <1>5 DEF RemovesFile, Listed
<1>7. HasFolder(Home[w], Folder[Target(w)])'
  BY <1>1, <1>2, <1>3 DEF Handler, HasFolder, FileOp
<1>8. Handler(w)'
  BY <1>1, <1>2, <1>3, <1>6, <1>7 DEF Handler
<1>. QED  BY <1>1, <1>2, <1>8, StillGoes DEF FileMidway, DirMidway

LEMMA RemoveEntryOwn ==
    ASSUME NEW w \in Proc, WriterInv(w), OneWriter(w), RemoveEntry(w) PROVE Own(w)
<1>1. /\ Busy(w) /\ pc[w] = "rmaddr" /\ Goto(w, "rmdata") /\ fd' = fd /\ got' = got
      /\ UNCHANGED <<list, store, ldir>> /\ addr' = [addr EXCEPT ![Target(w)] = NoNode]
  BY DEF RemoveEntry, At, Busy, disk, mine
<1>2. /\ TypeInv /\ Handler(w) /\ call[w].op = "unlink" /\ list[Root].lead
      /\ Target(w) \in File /\ Target(w) \notin Dir
  BY <1>1, WriterTarget DEF OpsAt, FileOp
<1>3. pc'[w] = "rmdata" /\ call'[w] = call[w] /\ Target(w)' = Target(w)
  BY <1>1, <1>2, GoesOn
<1>4. RemovesFile(w)
  BY <1>2 DEF Handler
<1>5. addr'[Target(w)] = NoNode /\ \A f \in File : f # Target(w) => addr'[f] = addr[f]
  BY <1>1, <1>2 DEF TypeInv, TypeOK
<1>6. ASSUME NEW f \in File, f # Target(w) PROVE Settled(w, f)'
  <2>1. Settled(w, f)
    BY <1>6 DEF WriterInv, Paths
  <2>. QED  BY <1>1, <1>5, <1>6, <2>1 DEF Settled, Listed
<1>7. ASSUME NEW x \in Dir PROVE Placed(w, x)'
  <2>1. Placed(w, x)
    BY <1>1, <1>7 DEF WriterInv, Paths, DirMidway
  <2>. QED  BY <1>1, <2>1 DEF Placed
<1>8. Paths(w)'
  BY <1>1, <1>2, <1>3, <1>5, <1>6, <1>7 DEF WriterInv, Paths, FileMidway
<1>9. Handles(w)'
  <2>1. fd[w] # NoHandle => fd[w].file \in File
    BY <1>2 DEF TypeInv, TypeOK, Handle
  <2>2. fd[w] # NoHandle /\ fd[w].write => addr[fd[w].file] # NoNode /\ fd[w].file # Target(w)
    BY <1>1, <1>4 DEF WriterInv, Handles, RemovesFile
  <2>. QED  BY <1>1, <1>5, <2>1, <2>2 DEF Handles
<1>10. RemovesFile(w)'
  BY <1>1, <1>3, <1>4, <1>5 DEF RemovesFile, Listed
<1>11. HasFolder(Home[w], Folder[Target(w)])'
  BY <1>1, <1>2, <1>3 DEF Handler, HasFolder, FileOp
<1>12. Handler(w)'
  BY <1>1, <1>2, <1>3, <1>10, <1>11 DEF Handler
<1>. QED  BY <1>1, <1>2, <1>8, <1>9, <1>12 DEF Own

\* Files removed on the writer's node.
LEMMA RemovedHere ==
    ASSUME TypeInv, NEW n \in Node, NEW gone, RemoveFiles(n, gone)
    PROVE  \A f \in File : store'[n][f] = IF f \in gone THEN 0 ELSE store[n][f]
<1>1. store'[n] = [f \in File |-> IF f \in gone THEN 0 ELSE store[n][f]]
  BY DEF RemoveFiles, TypeInv, TypeOK
<1>. QED  BY <1>1

LEMMA RemoveDataOwn ==
    ASSUME NEW w \in Proc, WriterInv(w), OneWriter(w), RemoveData(w) PROVE Own(w)
<1>1. Busy(w) /\ pc[w] = "rmdata" /\ Return(w) /\ UNCHANGED <<addr, list, ldir>>
  BY DEF RemoveData, At, Busy, zht
<1>2. /\ TypeInv /\ Handler(w) /\ call[w].op = "unlink" /\ list[Root].lead /\ Home[w] \in Node
      /\ Target(w) \in File /\ Target(w) \notin Dir /\ Home[w] # NoNode
  BY <1>1, WriterTarget, NoneAssumption DEF OpsAt, FileOp
<1>3. addr[Target(w)] = NoNode /\ ~Listed(Target(w)) /\ got[w] = Home[w]
  BY <1>1, <1>2 DEF Handler, RemovesFile
<1>4. RemoveFiles(Home[w], {Target(w)})
  BY <1>2, <1>3 DEF RemoveData
<1>5. \A f \in File : store'[Home[w]][f] = IF f \in {Target(w)} THEN 0 ELSE store[Home[w]][f]
  BY <1>2, <1>4, RemovedHere
<1>6. ASSUME NEW f \in File PROVE Settled(w, f)'
  <2>1. CASE f = Target(w)
    BY <1>1, <1>3, <1>5, <2>1 DEF Settled, Listed
  <2>2. CASE f # Target(w)
    <3>1. Settled(w, f)
      BY <2>2 DEF WriterInv, Paths
    <3>. QED  BY <1>1, <1>5, <2>2, <3>1 DEF Settled, Listed
  <2>. QED  BY <2>1, <2>2
<1>7. ASSUME NEW x \in Dir PROVE Placed(w, x)'
  <2>1. Placed(w, x)
    BY <1>1, <1>7 DEF WriterInv, Paths, DirMidway
  <2>. QED  BY <1>1, <2>1 DEF Placed
<1>8. Paths(w)'
  BY <1>1, <1>6, <1>7 DEF WriterInv, Paths
<1>9. Handles(w)'
  <2>1. HandleKept(w)
    BY <1>2, <1>4, UnlinkedKeeps
  <2>. QED  BY <1>1, <2>1 DEF WriterInv, Handles, HandleKept
<1>. QED  BY <1>1, <1>2, <1>8, <1>9, Returns DEF Own

\* fusion_release: the writer is the owner of what it wrote.
LEMMA CloseOwn ==
    ASSUME NEW w \in Proc, WriterInv(w), OneWriter(w), Close(w) PROVE Own(w)
<1>1. /\ Busy(w) /\ pc[w] = "close" /\ fd' = [fd EXCEPT ![w] = NoHandle] /\ Still(w)
      /\ UNCHANGED <<addr, list, store, ldir>>
  BY DEF Close, At, Busy, Still, zht, disk
<1>2. /\ TypeInv /\ Handler(w) /\ call[w].op = "release" /\ list[Root].lead
      /\ Target(w) \in File /\ fd'[w] = NoHandle
  BY <1>1, WriterTarget DEF OpsAt, TypeInv, TypeOK
<1>3. CASE Return(w)
  BY <1>1, <1>2, <1>3, StillReturns DEF FileMidway, DirMidway
<1>4. ASSUME addr[Target(w)] # Home[w], Goto(w, IF fd[w].write THEN "register" ELSE "drop")
      PROVE  Own(w)
  <2>1. addr[Target(w)] = NoNode
    BY <1>2, <1>4 DEF WriterInv, Paths
  <2>2. fd[w] # NoHandle /\ fd[w].file = Target(w)
    BY <1>1, <1>2, NoneAssumption DEF TypeInv, Serving, Target, Handle
  <2>3. ~fd[w].write
    BY <1>1, <2>1, <2>2 DEF WriterInv, Handles
  <2>4. pc'[w] = "drop" /\ call'[w] = call[w] /\ Target(w)' = Target(w)
    BY <1>2, <1>4, <2>3, GoesOn
  <2>5. Paths(w)'
    BY <1>1, PathsStill DEF WriterInv, FileMidway, DirMidway
  <2>6. Handler(w)'
    BY <1>1, <1>2, <2>1, <2>4 DEF Handler, FileOp
  <2>. QED  BY <1>1, <1>2, <2>5, <2>6 DEF Own, Handles
<1>. QED  BY <1>3, <1>4 DEF Close

LEMMA DropCopyOwn ==
    ASSUME NEW w \in Proc, WriterInv(w), OneWriter(w), DropCopy(w) PROVE Own(w)
<1>1. /\ Busy(w) /\ pc[w] = "drop" /\ Return(w) /\ UNCHANGED <<addr, list, ldir>>
      /\ RemoveFiles(Home[w], {Target(w)})
  BY DEF DropCopy, At, Busy, zht
<1>2. TypeInv /\ Handler(w) /\ Home[w] \in Node /\ Target(w) \in File
  BY <1>1, WriterTarget DEF OpsAt
<1>3. store[Home[w]][Target(w)] = 0
  <2>1. Settled(w, Target(w)) /\ addr[Target(w)] = NoNode
    BY <1>1, <1>2 DEF WriterInv, Paths, FileMidway, Handler
  <2>. QED  BY <2>1 DEF Settled
<1>4. Still(w)
  BY <1>1, <1>2, <1>3, RemovedHere DEF Still
<1>5. HandleKept(w)
  BY <1>1, <1>2, UnlinkedKeeps
<1>. QED  BY <1>1, <1>4, <1>5, StillReturns DEF FileMidway, DirMidway

\* fusion_mkdir.
LEMMA MkdirLocalOwn ==
    ASSUME NEW w \in Proc, WriterInv(w), OneWriter(w), MkdirLocal(w) PROVE Own(w)
<1>1. /\ Busy(w) /\ pc[w] = "mkdir" /\ Goto(w, "newlist") /\ fd' = fd
      /\ UNCHANGED <<addr, list, store>>
      /\ ldir' = [ldir EXCEPT ![Home[w]] = @ \union {Target(w)}]
  BY DEF MkdirLocal, At, Busy, zht
<1>2. /\ TypeInv /\ Handler(w) /\ call[w].op = "mkdir" /\ list[Root].lead /\ Home[w] \in Node
      /\ Target(w) \in Dir /\ Target(w) \notin File
  BY <1>1, WriterTarget DEF OpsAt
<1>3. pc'[w] = "newlist" /\ call'[w] = call[w] /\ Target(w)' = Target(w)
  BY <1>1, <1>2, GoesOn
<1>4. Target(w) \notin Named(list[Root]) /\ list[Target(w)] = NoList
  <2>1. Target(w) \notin ldir[Home[w]]
    BY <1>1, <1>2 DEF Handler, MakesDir
  <2>2. Placed(w, Target(w))
    BY <1>1, <1>2 DEF WriterInv, Paths, DirMidway
  <2>. QED  BY <2>1, <2>2 DEF Placed
<1>5. ldir'[Home[w]] = ldir[Home[w]] \union {Target(w)}
  BY <1>1, <1>2 DEF TypeInv, TypeOK
<1>6. ASSUME NEW f \in File PROVE Settled(w, f)'
  <2>1. Settled(w, f)
    BY <1>1, <1>6 DEF WriterInv, Paths, FileMidway
  <2>. QED  BY <1>1, <2>1 DEF Settled, Listed
<1>7. ASSUME NEW x \in Dir, x # Target(w) PROVE Placed(w, x)'
  <2>1. Placed(w, x)
    BY <1>7 DEF WriterInv, Paths
  <2>. QED  BY <1>1, <1>5, <1>7, <2>1 DEF Placed
<1>8. Paths(w)'
  BY <1>1, <1>3, <1>6, <1>7 DEF WriterInv, Paths, DirMidway
<1>9. Handles(w)'
  BY <1>1 DEF WriterInv, Handles
<1>10. MakesDir(w)'
  BY <1>1, <1>3, <1>4, <1>5 DEF MakesDir
<1>11. Handler(w)'
  BY <1>1, <1>2, <1>3, <1>10 DEF Handler, FileOp
<1>. QED  BY <1>1, <1>2, <1>8, <1>9, <1>11 DEF Own

\* A listing of the directory the writer works on appears or goes, without names.
LEMMA BareListing ==
    ASSUME NEW w \in Proc, WriterInv(w), OneWriter(w), Busy(w), call[w].op \in {"mkdir", "rmdir"},
           NEW l \in {NoList, EmptyList}, list' = [list EXCEPT ![Target(w)] = l],
           list[Target(w)] \in {NoList, EmptyList}, UNCHANGED <<addr, store, ldir>>,
           pc[w] \in DirMidway
    PROVE  /\ \A f \in File : Settled(w, f)'
           /\ \A x \in Dir : x # Target(w) => Placed(w, x)'
           /\ \A x \in Folders : NoTwins(list[x])'
           /\ \A f \in File : addr'[f] \in {NoNode, Home[w]}
           /\ list'[Target(w)] = l /\ list'[Root] = list[Root]
<1>1. /\ TypeInv /\ Target(w) \in Dir /\ Target(w) \notin File /\ Target(w) # Root
      /\ Target(w) \in Folders /\ Root \in Folders
  BY WriterTarget DEF Folders
<1>2. Named(l) = Named(list[Target(w)]) /\ NoTwins(l)
  BY NamesOfNone
<1>3. /\ \A f \in File : f # Target(w) /\ Settled(w, f) => Settled(w, f)'
      /\ \A x \in Dir : x # Target(w) /\ Placed(w, x) => Placed(w, x)'
      /\ \A x \in Folders : NoTwins(list[x])'
      /\ \A f \in File : addr'[f] \in {NoNode, Home[w]}
  <2>1. Paths(w) /\ \A y : y # Target(w) => (y \in Named(l) <=> y \in Named(list[Target(w)]))
    BY <1>2 DEF WriterInv
  <2>. QED  BY <1>1, <1>2, <2>1, RelistKeeps
<1>4. /\ \A f \in File : f # Target(w) /\ Settled(w, f)
      /\ \A x \in Dir : x # Target(w) => Placed(w, x)
  BY <1>1 DEF WriterInv, Paths
<1>. QED  BY <1>1, <1>3, <1>4 DEF TypeInv, TypeOK

LEMMA NewListingOwn ==
    ASSUME NEW w \in Proc, WriterInv(w), OneWriter(w), NewListing(w) PROVE Own(w)
<1>1. /\ Busy(w) /\ pc[w] = "newlist" /\ Goto(w, "app_get") /\ fd' = fd
      /\ UNCHANGED <<addr, store, ldir>> /\ list' = [list EXCEPT ![Target(w)] = EmptyList]
  BY DEF NewListing, At, Busy, disk
<1>2. /\ TypeInv /\ Handler(w) /\ call[w].op = "mkdir" /\ list[Root].lead
      /\ Target(w) \in Dir /\ Target(w) \notin File
  BY <1>1, WriterTarget DEF OpsAt
<1>3. pc'[w] = "app_get" /\ call'[w] = call[w] /\ Target(w)' = Target(w)
  BY <1>1, <1>2, GoesOn
<1>4. MakesDir(w)
  BY <1>2 DEF Handler
<1>5. /\ \A f \in File : Settled(w, f)'
      /\ \A x \in Dir : x # Target(w) => Placed(w, x)'
      /\ \A x \in Folders : NoTwins(list[x])'
      /\ \A f \in File : addr'[f] \in {NoNode, Home[w]}
      /\ list'[Target(w)] = EmptyList /\ list'[Root] = list[Root]
  BY <1>1, <1>2, <1>4, BareListing DEF MakesDir, DirMidway
<1>6. Paths(w)'
  BY <1>1, <1>3, <1>5 DEF Paths, DirMidway
<1>7. Handles(w)'
  BY <1>1 DEF WriterInv, Handles
<1>8. MakesDir(w)'
  BY <1>1, <1>3, <1>4, <1>5 DEF MakesDir
<1>9. Handler(w)'
  BY <1>1, <1>2, <1>3, <1>5, <1>8 DEF Handler, FileOp
<1>. QED  BY <1>2, <1>5, <1>6, <1>7, <1>9 DEF Own

\* fusion_rmdir.
LEMMA CheckEmptyOwn ==
    ASSUME NEW w \in Proc, WriterInv(w), OneWriter(w), CheckEmpty(w) PROVE Own(w)
<1>1. /\ Busy(w) /\ pc[w] = "rmcheck" /\ fd' = fd /\ Still(w) /\ UNCHANGED <<addr, list, store, ldir>>
  BY DEF CheckEmpty, At, Busy, Still, zht, disk
<1>2. TypeInv /\ Handler(w) /\ call[w].op = "rmdir" /\ list[Root].lead
  BY <1>1, WriterTarget DEF OpsAt
<1>3. CASE Return(w)
  BY <1>1, <1>3, StillReturns DEF FileMidway, DirMidway
<1>4. CASE list[Target(w)] = EmptyList /\ Goto(w, "rmtree")
  <2>1. pc'[w] = "rmtree" /\ call'[w] = call[w] /\ Target(w)' = Target(w)
    BY <1>2, <1>4, GoesOn
  <2>2. RemovesDir(w)'
    BY <1>1, <1>2, <1>4, <2>1 DEF Handler, RemovesDir
  <2>3. Handler(w)'
    BY <1>1, <1>2, <2>1, <2>2 DEF Handler, FileOp
  <2>. QED  BY <1>1, <1>4, <2>3, StillGoes DEF FileMidway, DirMidway
<1>. QED  BY <1>3, <1>4 DEF CheckEmpty

LEMMA RmdirLocalOwn ==
    ASSUME NEW w \in Proc, WriterInv(w), OneWriter(w), RmdirLocal(w) PROVE Own(w)
<1>1. /\ Busy(w) /\ pc[w] = "rmtree" /\ Goto(w, "del_get") /\ UNCHANGED <<addr, list>>
      /\ RemoveFiles(Home[w], FilesUnder({Target(w)}))
      /\ ldir' = [ldir EXCEPT ![Home[w]] = @ \ {Target(w)}]
  BY DEF RmdirLocal, RemoveTree, At, Busy, zht
<1>2. /\ TypeInv /\ Handler(w) /\ call[w].op = "rmdir" /\ list[Root].lead /\ Home[w] \in Node
      /\ Target(w) \in Dir /\ Target(w) \notin File /\ RemovesDir(w)
  BY <1>1, WriterTarget DEF OpsAt, Handler
<1>3. pc'[w] = "del_get" /\ call'[w] = call[w] /\ Target(w)' = Target(w)
  BY <1>1, <1>2, GoesOn
<1>4. ldir'[Home[w]] = ldir[Home[w]] \ {Target(w)}
  BY <1>1, <1>2 DEF TypeInv, TypeOK
<1>5. \A f \in File : Settled(w, f)
  BY <1>1 DEF WriterInv, Paths, FileMidway
<1>6. ASSUME NEW f \in File PROVE store'[Home[w]][f] = store[Home[w]][f]
  <2>1. CASE f \in FilesUnder({Target(w)})
    <3>1. Folder[f] = Target(w)
      BY <1>2, <2>1 DEF FilesUnder
    <3>2. ~Listed(f)
      BY <1>1, <1>2, <3>1, NamesOfNone DEF Listed, RemovesDir
    <3>3. store[Home[w]][f] = 0
      BY <1>5, <3>2 DEF Settled
    <3>. QED  BY <1>1, <1>2, <2>1, <3>3, RemovedHere
  <2>2. CASE f \notin FilesUnder({Target(w)})
    BY <1>1, <1>2, <2>2, RemovedHere
  <2>. QED  BY <2>1, <2>2
<1>7. \A f \in File : Settled(w, f)'
  BY <1>1, <1>5, <1>6 DEF Settled, Listed
<1>8. ASSUME NEW x \in Dir, x # Target(w) PROVE Placed(w, x)'
  <2>1. Placed(w, x)
    BY <1>8 DEF WriterInv, Paths
  <2>. QED  BY <1>1, <1>4, <1>8, <2>1 DEF Placed
<1>9. Paths(w)'
  BY <1>1, <1>3, <1>7, <1>8 DEF WriterInv, Paths, DirMidway
<1>10. Handles(w)'
  <2>1. HandleKept(w)
    BY <1>1, <1>2, UnlinkedKeeps
  <2>. QED  BY <1>1, <2>1 DEF WriterInv, Handles, HandleKept
<1>11. RemovesDir(w)'
  BY <1>1, <1>2, <1>3, <1>4 DEF RemovesDir
<1>12. Handler(w)'
  BY <1>1, <1>2, <1>3, <1>11 DEF Handler, FileOp
<1>. QED  BY <1>1, <1>2, <1>9, <1>10, <1>12 DEF Own

LEMMA RemoveListingOwn ==
    ASSUME NEW w \in Proc, WriterInv(w), OneWriter(w), RemoveListing(w) PROVE Own(w)
<1>1. /\ Busy(w) /\ pc[w] = "rmkey" /\ Return(w) /\ fd' = fd
      /\ UNCHANGED <<addr, store, ldir>> /\ list' = [list EXCEPT ![Target(w)] = NoList]
  BY DEF RemoveListing, At, Busy, disk
<1>2. /\ TypeInv /\ Handler(w) /\ call[w].op = "rmdir" /\ list[Root].lead
      /\ Target(w) \in Dir /\ RemovesDir(w)
  BY <1>1, WriterTarget DEF OpsAt, Handler
<1>3. /\ \A f \in File : Settled(w, f)'
      /\ \A x \in Dir : x # Target(w) => Placed(w, x)'
      /\ \A x \in Folders : NoTwins(list[x])'
      /\ \A f \in File : addr'[f] \in {NoNode, Home[w]}
      /\ list'[Target(w)] = NoList /\ list'[Root] = list[Root]
  BY <1>1, <1>2, BareListing DEF RemovesDir, DirMidway
<1>4. \A x \in Dir : Placed(w, x)'
  <2>1. ASSUME NEW x \in Dir, x = Target(w) PROVE Placed(w, x)'
    BY <1>1, <1>2, <1>3, <2>1, NamesOfNone DEF RemovesDir, Placed
  <2>. QED  BY <1>3, <2>1
<1>5. Paths(w)'
  BY <1>1, <1>3, <1>4 DEF Paths
<1>6. Handles(w)'
  BY <1>1, <1>2 DEF WriterInv, Handles
<1>. QED  BY <1>1, <1>2, <1>3, <1>5, <1>6, Returns DEF Own

\* fusion_opendir and fusion_readdir of the root.
LEMMA OpendirOwn ==
    ASSUME NEW w \in Proc, WriterInv(w), OneWriter(w), Opendir(w) PROVE Own(w)
<1>1. /\ Busy(w) /\ pc[w] = "opendir" /\ Goto(w, "rd_get") /\ fd' = fd /\ UNCHANGED <<addr, list, store>>
  BY DEF Opendir, At, Busy, zht
<1>2. TypeInv /\ Handler(w) /\ call[w].op = "readdir" /\ list[Root].lead /\ Target(w) = Root /\ Home[w] \in Node
  BY <1>1, WriterTarget DEF OpsAt
<1>3. ldir'[Home[w]] = ldir[Home[w]]
  BY <1>2 DEF Opendir, TypeInv, TypeOK
<1>4. pc'[w] = "rd_get" /\ call'[w] = call[w] /\ Target(w)' = Target(w)
  BY <1>1, <1>2, GoesOn
<1>5. Handler(w)'
  BY <1>1, <1>2, <1>4 DEF Handler, FileOp
<1>. QED  BY <1>1, <1>3, <1>5, StillGoes DEF Still, FileMidway, DirMidway

LEMMA ReaddirGetOwn ==
    ASSUME NEW w \in Proc, WriterInv(w), OneWriter(w), ReaddirGet(w) PROVE Own(w)
<1>1. /\ Busy(w) /\ pc[w] = "rd_get" /\ Goto(w, "rd_scan") /\ fd' = fd /\ Still(w)
      /\ UNCHANGED <<addr, list, store, ldir>> /\ old' = [old EXCEPT ![w] = list[Target(w)]]
  BY DEF ReaddirGet, At, Busy, Still, zht, disk
<1>2. TypeInv /\ Handler(w) /\ call[w].op = "readdir" /\ list[Root].lead /\ Target(w) = Root
  BY <1>1, WriterTarget DEF OpsAt
<1>3. pc'[w] = "rd_scan" /\ call'[w] = call[w] /\ Target(w)' = Target(w)
  BY <1>1, <1>2, GoesOn
<1>4. old'[w] = list[Root]
  BY <1>1, <1>2 DEF TypeInv, TypeOK
<1>5. Handler(w)'
  BY <1>1, <1>2, <1>3, <1>4 DEF Handler, FileOp
<1>. QED  BY <1>1, <1>5, StillGoes DEF FileMidway, DirMidway

\* An empty root means that nothing is on the node; else all that is listed is there.
LEMMA ReaddirScanOwn ==
    ASSUME NEW w \in Proc, WriterInv(w), OneWriter(w), ReaddirScan(w) PROVE Own(w)
<1>1. Busy(w) /\ pc[w] = "rd_scan" /\ Return(w) /\ UNCHANGED <<addr, list>>
  BY DEF ReaddirScan, At, Busy, zht
<1>2. /\ TypeInv /\ Handler(w) /\ call[w].op = "readdir" /\ Target(w) = Root
      /\ Home[w] \in Node /\ old[w] = list[Root]
  BY <1>1, WriterTarget DEF OpsAt, Handler
<1>3. (\A f \in File : Settled(w, f)) /\ (\A x \in Dir : Placed(w, x))
  BY <1>1 DEF WriterInv, Paths, FileMidway, DirMidway
<1>4. HandleKept(w)
  <2>1. CASE old[w] = EmptyList
    BY <1>2, <2>1, UnlinkedKeeps DEF ReaddirScan, RemoveTree
  <2>2. CASE old[w] # EmptyList
    BY <2>2 DEF ReaddirScan, HandleKept
  <2>. QED  BY <2>1, <2>2
<1>5. ldir[Home[w]] \subseteq Dir
  BY <1>2 DEF TypeInv, TypeOK
<1>6. Still(w)
  <2>1. CASE list[Root] = EmptyList
    <3>1. /\ RemoveFiles(Home[w], FilesUnder(Glob(Root)))
          /\ ldir' = [ldir EXCEPT ![Home[w]] = @ \ Glob(Root)]
      BY <1>2, <2>1 DEF ReaddirScan, RemoveTree
    <3>2. ldir[Home[w]] = {}
      BY <1>3, <1>5, <2>1, NamesOfNone DEF Placed
    <3>3. ldir'[Home[w]] = {}
      BY <1>2, <3>1, <3>2 DEF TypeInv, TypeOK
    <3>4. ASSUME NEW f \in File PROVE store[Home[w]][f] = 0
      <4>1. ~Listed(f)
        <5>1. CASE Folder[f] = Root
          BY <2>1, <5>1, NamesOfNone DEF Listed
        <5>2. CASE Folder[f] # Root
          <6>1. Folder[f] \in Dir /\ list[Folder[f]] = NoList
            BY <1>3, <3>2, <5>2, FolderAssumption DEF Folders, Placed
          <6>. QED  BY <6>1, NamesOfNone DEF Listed
        <5>. QED  BY <5>1, <5>2
      <4>. QED  BY <1>3, <4>1 DEF Settled
    <3>5. \A f \in File : store'[Home[w]][f] # 0 <=> store[Home[w]][f] # 0
      BY <1>2, <3>1, <3>4, RemovedHere
    <3>. QED  BY <1>1, <3>2, <3>3, <3>5 DEF Still
  <2>2. CASE list[Root] # EmptyList
    <3>1. store' = store /\ ldir'[Home[w]] = ldir[Home[w]] \union (Named(list[Root]) \intersect Dir)
      BY <1>2, <2>2 DEF ReaddirScan, TypeInv, TypeOK
    <3>2. Named(list[Root]) \intersect Dir \subseteq ldir[Home[w]]
      BY <1>3 DEF Placed
    <3>. QED  BY <1>1, <3>1, <3>2 DEF Still
  <2>. QED  BY <2>1, <2>2
<1>. QED  BY <1>1, <1>4, <1>6, StillReturns DEF FileMidway, DirMidway

\* The writer is called, and what it may be called for.
LEMMA BeginOwn ==
    ASSUME NEW w \in Proc, WriterInv(w), OneWriter(w), Begin(w) PROVE Own(w)
<1>1. PICK c \in Calls : /\ c[1] = w /\ Permitted(w, c[2], c[3])
                         /\ call' = [call EXCEPT ![w] = [op |-> c[2], path |-> c[3]]]
                         /\ pc' = [pc EXCEPT ![w] = Entry(c[2])]
  BY DEF Begin
<1>. DEFINE op == c[2]
            x  == c[3]
<1>2. /\ op \in Op /\ (op \in FileOp => x \in File) /\ (op \in {"mkdir", "rmdir"} => x \in Dir)
      /\ op = "readdir" => x = Root
  BY <1>1, CallsAssumption DEF OneWriter
<1>3. MayServe(w) /\ pc[w] = "idle" /\ UNCHANGED <<addr, list, store, ldir, fd>> /\ TypeInv
  BY DEF Begin, MayServe, zht, disk, WriterInv
<1>4. pc'[w] = Entry(op) /\ call'[w].op = op /\ Target(w)' = x
  BY <1>1, <1>3 DEF TypeInv, TypeOK, Target
<1>5. /\ op \in FileOp => HasFolder(Home[w], Folder[x])
      /\ op = "unlink" => ~OpenForWriting(x)
      /\ op = "mkdir" => ~HasFolder(Home[w], x)
      /\ op = "rmdir" => HasFolder(Home[w], x)
  BY <1>1 DEF Permitted, OneWriter
<1>. HIDE DEF op, x
<1>6. list[Root].lead
  BY <1>3, AllMounted DEF WriterInv
<1>7. Paths(w)'
  BY <1>3, PathsStill DEF WriterInv, Still, FileMidway, DirMidway
<1>8. Handles(w)'
  BY <1>3 DEF WriterInv, Handles
<1>9. ASSUME op \in FileOp PROVE Handler(w)'
  <2>1. pc'[w] = "getattr"
    BY <1>4, <1>9 DEF Entry, FileOp
  <2>2. HasFolder(Home[w], Folder[Target(w)])'
    BY <1>3, <1>4, <1>5, <1>9 DEF HasFolder
  <2>3. op = "unlink" => RemovesFile(w)'
    BY <1>3, <1>4, <1>5, <2>1 DEF RemovesFile, OpenForWriting
  <2>4. op = "create" => MakesFile(w)'
    BY <2>1 DEF MakesFile
  <2>. QED  BY <1>3, <1>4, <1>6, <1>9, <2>1, <2>2, <2>3, <2>4 DEF Handler, FileOp
<1>10. ASSUME op = "mkdir" PROVE Handler(w)'
  <2>1. pc'[w] = "mkdir" /\ x \notin ldir[Home[w]]
    BY <1>2, <1>4, <1>5, <1>10 DEF Entry, FileOp, HasFolder
  <2>2. MakesDir(w)'
    BY <1>3, <1>4, <2>1 DEF MakesDir
  <2>. QED  BY <1>3, <1>4, <1>6, <1>10, <2>1, <2>2 DEF Handler, FileOp
<1>11. ASSUME op = "rmdir" PROVE Handler(w)'
  <2>1. pc'[w] = "rmcheck" /\ x \in ldir[Home[w]]
    BY <1>2, <1>4, <1>5, <1>11, PathAssumption DEF Entry, FileOp, HasFolder
  <2>2. x \in Named(list[Root])
    BY <1>2, <1>3, <1>11, <2>1 DEF WriterInv, Paths, DirMidway, Placed
  <2>3. RemovesDir(w)'
    BY <1>3, <1>4, <2>1, <2>2 DEF RemovesDir
  <2>. QED  BY <1>3, <1>4, <1>6, <1>11, <2>1, <2>3 DEF Handler, FileOp
<1>12. ASSUME op = "readdir" PROVE Handler(w)'
  <2>1. pc'[w] = "opendir" /\ x = Root
    BY <1>2, <1>4, <1>12 DEF Entry, FileOp
  <2>. QED  BY <1>3, <1>4, <1>6, <1>12, <2>1 DEF Handler, FileOp
<1>13. op \in FileOp \/ op \in {"mkdir", "rmdir", "readdir"}
  BY <1>2 DEF Op, FileOp
<1>. QED  BY <1>3, <1>6, <1>7, <1>8, <1>9, <1>10, <1>11, <1>12, <1>13 DEF Own

LEMMA BeginReleaseOwn ==
    ASSUME NEW w \in Proc, WriterInv(w), OneWriter(w), BeginRelease(w) PROVE Own(w)
<1>1. MayServe(w) /\ pc[w] = "idle" /\ UNCHANGED <<addr, list, store, ldir, fd>> /\ TypeInv
  BY DEF BeginRelease, MayServe, zht, disk, WriterInv
<1>2. pc'[w] = "close" /\ call'[w].op = "release"
  BY <1>1 DEF BeginRelease, TypeInv, TypeOK
<1>3. list[Root].lead
  BY <1>1, AllMounted DEF WriterInv
<1>4. Paths(w)'
  BY <1>1, PathsStill DEF WriterInv, Still, FileMidway, DirMidway
<1>5. Handles(w)'
  BY <1>1 DEF WriterInv, Handles
<1>6. Handler(w)'
  BY <1>1, <1>2, <1>3 DEF Handler, FileOp
<1>. QED  BY <1>1, <1>3, <1>4, <1>5, <1>6 DEF Own

\* What it has open for writing is registered, so it is there before the write too.
LEMMA WriteOwn ==
    ASSUME NEW w \in Proc, WriterInv(w), OneWriter(w), Write(w)
    PROVE  Paths(w)' /\ Handles(w)' /\ ~Busy(w)' /\ list' = list
<1>1. /\ pc[w] = "idle" /\ UNCHANGED <<addr, list, ldir, fd, pc, call>> /\ TypeInv
      /\ Home[w] \in Node /\ fd[w] # NoHandle /\ fd[w].write
  BY HomeAssumption DEF Write, WriterInv, zht
<1>2. fd[w].file \in File
  BY <1>1 DEF TypeInv, TypeOK, Handle
<1>3. store[Home[w]][fd[w].file] # 0
  <2>1. addr[fd[w].file] # NoNode /\ Settled(w, fd[w].file)
    BY <1>1, <1>2 DEF WriterInv, Handles, Paths, FileMidway
  <2>. QED  BY <2>1 DEF Settled
<1>4. clock + 1 \in Nat /\ clock + 1 # 0
  BY <1>1 DEF TypeInv, TypeOK
<1>5. store'[Home[w]] = [store[Home[w]] EXCEPT ![fd[w].file] = clock + 1]
  BY <1>1, <1>2 DEF Write, Put, TypeInv, TypeOK
<1>6. \A f \in File : store'[Home[w]][f] # 0 <=> store[Home[w]][f] # 0
  BY <1>1, <1>2, <1>3, <1>4, <1>5 DEF TypeInv, TypeOK
<1>7. Paths(w)'
  BY <1>1, <1>6, PathsStill DEF WriterInv, Still, FileMidway, DirMidway
<1>8. Handles(w)'
  BY <1>1 DEF WriterInv, Handles
<1>. QED  BY <1>1, <1>7, <1>8 DEF Busy

\* The client of another node is killed.
LEMMA CrashUndisturbed ==
    ASSUME NEW w \in Proc, WriterInv(w), OneWriter(w), NEW n \in Node, Crash(n)
    PROVE  /\ Undisturbed(w) /\ Starts(w)'
           /\ \A p \in Proc \ {w} : Reads(w, p)'
<1>1. n # Home[w] /\ up[n] = "up" /\ UNCHANGED <<addr, list, store, ldir>> /\ TypeInv
  BY DEF Crash, OneWriter, zht, disk, WriterInv
<1>2. \A p \in Proc : /\ pc'[p] = IF Home[p] = n THEN "idle" ELSE pc[p]
                      /\ call'[p] = IF Home[p] = n THEN NoCall ELSE call[p]
                      /\ got'[p] = IF Home[p] = n THEN NoNode ELSE got[p]
                      /\ old'[p] = IF Home[p] = n THEN NoList ELSE old[p]
                      /\ fd'[p] = IF Home[p] = n THEN NoHandle ELSE fd[p]
  BY DEF Crash
<1>3. Undisturbed(w)
  BY <1>1, <1>2 DEF Undisturbed, Stays, HandleKept
<1>4. \A m \in Node : up'[m] = "new" <=> up[m] = "new"
  BY <1>1 DEF Crash, TypeInv, TypeOK
<1>5. Starts(w)'
  BY <1>1, <1>2, <1>4 DEF WriterInv, Starts
<1>6. ASSUME NEW p \in Proc \ {w} PROVE Reads(w, p)'
  <2>1. Reads(w, p)
    BY DEF WriterInv
  <2>. QED  BY <1>2, <2>1 DEF Reads, Busy
<1>. QED  BY <1>3, <1>5, <1>6

\* A client starts: nobody has been served yet, and the root is empty.
LEMMA MountWriter ==
    ASSUME NEW w \in Proc, WriterInv(w), OneWriter(w), NEW n \in Node, Mount(n)
    PROVE  WriterInv(w)'
<1>1. TypeInv' /\ TypeInv
  BY MountType DEF WriterInv
<1>2. /\ up[n] = "new" /\ list' = [list EXCEPT ![Root] = EmptyList]
      /\ up' = [up EXCEPT ![n] = "up"] /\ UNCHANGED <<addr, store, ldir, fd, pc, call, got, old>>
  BY DEF Mount, OneWriter, disk, mine
<1>3. list[Root].names = <<>> /\ \A p \in Proc : pc[p] = "idle"
  BY <1>2 DEF WriterInv, Starts
<1>4. Root \in Folders /\ Root \notin Dir
  BY PathAssumption DEF Folders
<1>5. list'[Root] = EmptyList /\ \A x \in Folders : x # Root => list'[x] = list[x]
  BY <1>1, <1>2, <1>4 DEF TypeInv, TypeOK
<1>6. Named(list[Root]) = {} /\ Named(list'[Root]) = {} /\ NoTwins(list'[Root])
  BY <1>1, <1>3, <1>4, <1>5, NamesOfNone DEF TypeInv, TypeOK
<1>7. ASSUME NEW f \in File PROVE Settled(w, f)' /\ addr'[f] \in {NoNode, Home[w]}
  <2>1. Settled(w, f) /\ addr[f] \in {NoNode, Home[w]}
    BY <1>3 DEF WriterInv, Paths, FileMidway
  <2>2. Listed(f)' <=> Listed(f)
    BY <1>5, <1>6, FolderAssumption DEF Listed
  <2>. QED  BY <1>2, <2>1, <2>2 DEF Settled
<1>8. ASSUME NEW x \in Dir PROVE Placed(w, x)'
  <2>1. Placed(w, x)
    BY <1>3 DEF WriterInv, Paths, DirMidway
  <2>2. list'[x] = list[x]
    BY <1>4, <1>5 DEF Folders
  <2>. QED  BY <1>2, <1>6, <2>1, <2>2 DEF Placed
<1>9. \A x \in Folders : NoTwins(list'[x])
  BY <1>5, <1>6 DEF WriterInv, Paths
<1>10. Paths(w)'
  BY <1>7, <1>8, <1>9 DEF Paths
<1>11. Starts(w)'
  BY <1>2, <1>3, <1>5, NamesOfNone DEF Starts, EmptyList
<1>12. Handles(w)' /\ ~Busy(w)'
  BY <1>2, <1>3 DEF WriterInv, Handles, Busy
<1>13. \A p \in Proc \ {w} : Reads(w, p)'
  BY <1>2 DEF WriterInv, Reads, Busy
<1>. QED  BY <1>1, <1>10, <1>11, <1>12, <1>13 DEF WriterInv

LEMMA InitWriter ==
    ASSUME NEW w \in Proc, Init, OneWriter(w) PROVE WriterInv(w)
<1>1. TypeInv
  BY InitTypeInv
<1>2. /\ addr = [f \in File |-> NoNode] /\ list = [x \in Folders |-> NoList]
      /\ \A f \in File : store[Home[w]][f] = 0
      /\ ldir[Home[w]] = {} /\ \A p \in Proc : pc[p] = "idle" /\ fd[p] = NoHandle
      /\ up = [n \in Node |-> "new"] /\ Home[w] \in Node
  BY HomeAssumption DEF Init
<1>3. Root \in Folders /\ list[Root] = NoList /\ \A x \in Dir : list[x] = NoList
  BY <1>2 DEF Folders
<1>4. \A f \in File : Settled(w, f)
  BY <1>2, FolderAssumption, NamesOfNone DEF Settled, Listed
<1>5. \A x \in Dir : Placed(w, x)
  BY <1>2, <1>3, NamesOfNone DEF Placed
<1>6. Paths(w)
  BY <1>2, <1>4, <1>5, NamesOfNone DEF Paths
<1>7. Starts(w)
  BY <1>2, <1>3 DEF Starts, NoList
<1>. QED  BY <1>1, <1>2, <1>6, <1>7 DEF WriterInv, Handles, Busy, Reads

\* A step of any program.
LEMMA OwnStep ==
    ASSUME NEW w \in Proc, WriterInv(w), OneWriter(w), Step(w) PROVE Own(w)
<1>. QED  BY GetattrOwn, FetchOwn, LstatOwn, OpenOwn, TruncateOwn, CreatOwn, AppendGetOwn, AppendPutOwn,
             RegisterOwn, DeleteGetOwn, DeletePutOwn, LookupOwnerOwn, RemoveEntryOwn, RemoveDataOwn,
             CloseOwn, DropCopyOwn, MkdirLocalOwn, NewListingOwn, CheckEmptyOwn, RmdirLocalOwn,
             RemoveListingOwn, OpendirOwn, ReaddirGetOwn, ReaddirScanOwn DEF Step

LEMMA NextWriter ==
    ASSUME NEW w \in Proc, WriterInv(w), OneWriter(w), [Next]_vars PROVE WriterInv(w)'
<1>1. TypeInv'
  BY NextTypeInv DEF WriterInv
<1>2. ASSUME NEW p \in Proc, Begin(p) \/ Write(p) \/ BeginRelease(p) \/ Step(p)
      PROVE  WriterInv(w)'
  <2>1. up' = up
    BY <1>2 DEF Begin, Write, BeginRelease, Step, Getattr, Fetch, Lstat, Open, Truncate, Creat,
              AppendGet, AppendPut, Register, DeleteGet, DeletePut, LookupOwner, RemoveEntry,
              RemoveData, Close, DropCopy, MkdirLocal, NewListing, CheckEmpty, RmdirLocal,
              RemoveListing, Opendir, ReaddirGet, ReaddirScan
  <2>2. Paths(w)' /\ Handles(w)' /\ (Busy(w)' => Handler(w)') /\ (list'[Root].lead \/ list' = list)
    <3>1. CASE p # w
      <4>1. Undisturbed(w)
        BY <1>2, <3>1, ReaderStep
      <4>. QED  BY <4>1, UndisturbedKeeps DEF Undisturbed
    <3>2. CASE p = w
      BY <1>2, <3>2, OwnStep, BeginOwn, BeginReleaseOwn, WriteOwn DEF Own
    <3>. QED  BY <3>1, <3>2
  <2>3. \A q \in Proc \ {w} : Reads(w, q)'
    <3>1. ASSUME NEW q \in Proc \ {w} PROVE Reads(w, q)'
      <4>1. CASE q = p
        BY <1>2, <4>1, ReaderStep
      <4>2. CASE q # p
        <5>1. Stays(q) /\ HandleKept(q)
          BY <1>2, <4>2, OthersStay DEF WriterInv
        <5>. QED  BY <5>1 DEF WriterInv, Reads, Stays, HandleKept, Busy
      <4>. QED  BY <4>1, <4>2
    <3>. QED  BY <3>1
  <2>4. Starts(w)'
    <3>1. CASE Write(p)
      BY <2>1, <3>1 DEF Write, WriterInv, Starts, zht
    <3>2. CASE Begin(p) \/ BeginRelease(p) \/ Step(p)
      <4>1. Busy(p) \/ MayServe(p)
        BY <3>2 DEF Begin, BeginRelease, Busy, At, Step, Getattr, Fetch, Lstat, Open, Truncate, Creat,
                  AppendGet, AppendPut, Register, DeleteGet, DeletePut, LookupOwner, RemoveEntry,
                  RemoveData, Close, DropCopy, MkdirLocal, NewListing, CheckEmpty, RmdirLocal,
                  RemoveListing, Opendir, ReaddirGet, ReaddirScan
      <4>2. (\A n \in Node : up[n] # "new") /\ list[Root].lead
        BY <4>1, AllMounted DEF WriterInv
      <4>. QED  BY <2>1, <2>2, <4>2 DEF Starts
    <3>. QED  BY <1>2, <3>1, <3>2
  <2>. QED  BY <1>1, <2>2, <2>3, <2>4 DEF WriterInv
<1>3. ASSUME NEW n \in Node, Crash(n) PROVE WriterInv(w)'
  BY <1>1, <1>3, CrashUndisturbed, UndisturbedKeeps DEF WriterInv
<1>4. ASSUME NEW n \in Node, Mount(n) PROVE WriterInv(w)'
  BY <1>4, MountWriter
<1>5. CASE UNCHANGED vars
  <2>1. Undisturbed(w)
    BY <1>5 DEF Undisturbed, Stays, HandleKept, vars, zht, disk, mine
  <2>2. Starts(w)' /\ \A p \in Proc \ {w} : Reads(w, p)'
    BY <1>5 DEF WriterInv, Starts, Reads, Busy, vars, zht, disk, mine
  <2>. QED  BY <1>1, <2>1, <2>2, UndisturbedKeeps DEF WriterInv
<1>. QED  BY <1>2, <1>3, <1>4, <1>5 DEF Next

\* What the invariant says of the listings.
LEMMA WriterListed ==
    ASSUME NEW w \in Proc, WriterInv(w), OneWriter(w) PROVE ListedIffRegistered
<1>1. ASSUME NEW f \in File, ~Settled(w, f) PROVE Changing(f)
  <2>1. pc[w] \in FileMidway /\ Target(w) = f
    BY <1>1 DEF WriterInv, Paths
  <2>2. Busy(w)
    BY <2>1 DEF FileMidway, Busy
  <2>3. Handler(w) /\ call[w].op \in OpsAt(pc[w])
        /\ (call[w].op \in {"mkdir", "rmdir"} => Target(w) \notin File)
    BY <2>2, WriterTarget
  <2>4. call[w].op \in {"create", "unlink"}
    BY <1>1, <2>1, <2>3 DEF FileMidway, OpsAt, Handler
  <2>. QED  BY <2>1, <2>2, <2>4 DEF Changing
<1>. QED  BY <1>1 DEF ListedIffRegistered, Settled, Listed

LEMMA WriterEmpties ==
    ASSUME NEW w \in Proc, WriterInv(w), OneWriter(w) PROVE RmdirOnlyEmpty
<1>1. ASSUME NEW p \in Proc, Busy(p), call[p].op = "rmdir", pc[p] # "rmcheck",
             NEW f \in File, Folder[f] = Target(p)
      PROVE  addr[f] = NoNode
  <2>1. p = w
    BY <1>1 DEF WriterInv, Reads
  <2>2. RemovesDir(w) /\ call[w].op \in OpsAt(pc[w]) /\ Target(w) \notin File
    BY <1>1, <2>1, WriterTarget DEF Handler
  <2>3. list[Folder[f]] = EmptyList
    BY <1>1, <2>1, <2>2 DEF RemovesDir
  <2>4. ~Listed(f)
    BY <2>3, NamesOfNone DEF Listed
  <2>5. Settled(w, f)
    BY <2>2 DEF WriterInv, Paths
  <2>. QED  BY <2>4, <2>5 DEF Settled
<1>. QED  BY <1>1 DEF RmdirOnlyEmpty

(* With one writer a name is listed in its folder exactly when an address is  *)
(* registered under its path, but for the file being created or unlinked:     *)
(* zht_append and zht_delete, a lookup and an insert apiece, lose no name and *)
(* leave none behind, whatever the other clients read, list or are killed in. *)
THEOREM ListingsAgree ==
    ASSUME NEW w \in Proc, OneWriter(w)
    PROVE  Spec => []ListedIffRegistered
<1>1. Init => WriterInv(w)
  BY InitWriter
<1>2. WriterInv(w) /\ [Next]_vars => WriterInv(w)'
  BY NextWriter
<1>3. WriterInv(w) => ListedIffRegistered
  BY WriterListed
<1>. QED  BY <1>1, <1>2, <1>3, PTL DEF Spec

(* With one writer fusion_rmdir never removes a directory below which a file  *)
(* is registered: what its one look at the listing found stays true for the   *)
(* four steps that follow it.                                                 *)
THEOREM RemovesEmpty ==
    ASSUME NEW w \in Proc, OneWriter(w)
    PROVE  Spec => []RmdirOnlyEmpty
<1>1. Init => WriterInv(w)
  BY InitWriter
<1>2. WriterInv(w) /\ [Next]_vars => WriterInv(w)'
  BY NextWriter
<1>3. WriterInv(w) => RmdirOnlyEmpty
  BY WriterEmpties
<1>. QED  BY <1>1, <1>2, <1>3, PTL DEF Spec
-----------------------------------------------------------------------------
(***************************************************************************)
(* Close-to-open, for every instance that keeps to Sharing.  What an open  *)
(* gets was fetched some steps before; the invariant says where the latest *)
(* contents are meanwhile: with the process that has the file open for     *)
(* writing or is about to register it, and otherwise where ZHT points.     *)
(***************************************************************************)
ShareOps == {"stat", "read", "write", "create", "mkdir", "release"}

\* p may have contents of f that ZHT does not point to yet.
Writes(p, f) ==
    \/ fd[p] # NoHandle /\ fd[p].file = f /\ fd[p].write
    \/ pc[p] \in {"app_get", "app_put", "register"} /\ Target(p) = f

HasLatest(n, f) == \A m \in Node : store[m][f] <= store[n][f]

RegisteredContents(f) == IF addr[f] = NoNode THEN 0 ELSE store[addr[f]][f]

OneWrites(f) == \A p, q \in Proc : Writes(p, f) /\ Writes(q, f) => p = q

WriterHasLatest(f) == \A p \in Proc : Writes(p, f) => HasLatest(Home[p], f)

RegisteredIsLatest(f) ==
    \A n \in Node :
        (\A p \in Proc : Writes(p, f) => Home[p] # n) => store[n][f] <= RegisteredContents(f)

Versions(f) ==
    /\ OneWrites(f) /\ WriterHasLatest(f) /\ RegisteredIsLatest(f)
    /\ \A n \in Node : store[n][f] <= clock

\* What the handler of p that works on f relies on.
Opening(p, f) ==
    /\ pc[p] = "fetch" => got[p] = addr[f]
    /\ call[p].op \in {"write", "create"} => \A q \in Proc : Writes(q, f) => q = p
    /\ /\ call[p].op \in {"read", "write", "create"}
       /\ pc[p] \in {"getattr", "fetch", "lstat", "open", "creat"}
       => fd[p] = NoHandle
    /\ pc[p] \in {"lstat", "open", "creat"} /\ (\A q \in Proc : ~Writes(q, f)) => HasLatest(Home[p], f)
    /\ pc[p] = "drop" => fd[p] = NoHandle /\ addr[f] # Home[p]

FileShared(f) == Versions(f) /\ \A p \in Proc : Busy(p) /\ Target(p) = f => Opening(p, f)

SharingInv ==
    /\ \A p \in Proc : Busy(p) => call[p].op \in ShareOps
    /\ \A f \in File : FileShared(f)

SharedState == TypeInv /\ Sharing /\ SharingInv /\ OneAtATime

\* The step of p changes nothing of f, but possibly what is open for reading.
Untouched(p, f) ==
    /\ addr'[f] = addr[f] /\ \A n \in Node : store'[n][f] = store[n][f]
    /\ clock' \in Nat /\ clock <= clock'
    /\ Writes(p, f)' <=> Writes(p, f)

OthersKept(p) == \A q \in Proc : q # p => Stays(q) /\ HandleKept(q)

LEMMA SharedTypes ==
    ASSUME TypeInv
    PROVE  /\ clock \in Nat
           /\ \A n \in Node, f \in File : store[n][f] \in Nat
           /\ \A f \in File : addr[f] \in Node \union {NoNode} /\ RegisteredContents(f) \in Nat
           /\ \A p \in Proc : Home[p] \in Node
<1>1. store \in [Node -> [File -> Nat]] /\ addr \in [File -> Node \union {NoNode}] /\ clock \in Nat
  BY DEF TypeInv, TypeOK
<1>2. \A n \in Node, f \in File : store[n][f] \in Nat
  BY <1>1
<1>3. \A f \in File : addr[f] \in Node \union {NoNode}
  BY <1>1
<1>. QED  BY <1>1, <1>2, <1>3, HomeAssumption DEF RegisteredContents

LEMMA OthersWrite ==
    ASSUME NEW p \in Proc, OthersKept(p), NEW q \in Proc, q # p, NEW f
    PROVE  Writes(q, f)' <=> Writes(q, f)
<1>. QED  BY DEF OthersKept, Stays, HandleKept, Writes, Target

LEMMA UntouchedVersions ==
    ASSUME TypeInv, NEW p \in Proc, OthersKept(p), NEW f \in File, Versions(f), Untouched(p, f)
    PROVE  /\ Versions(f)' /\ \A q \in Proc : Writes(q, f)' <=> Writes(q, f)
           /\ \A n \in Node : HasLatest(n, f)' <=> HasLatest(n, f)
<1>1. \A q \in Proc : Writes(q, f)' <=> Writes(q, f)
  BY OthersWrite DEF Untouched
<1>2. /\ clock \in Nat /\ \A n \in Node : store[n][f] \in Nat
      /\ addr[f] \in Node \union {NoNode} /\ \A q \in Proc : Home[q] \in Node
  BY SharedTypes
<1>3. RegisteredContents(f)' = RegisteredContents(f)
  BY <1>2 DEF RegisteredContents, Untouched
<1>4. \A n \in Node : HasLatest(n, f)' <=> HasLatest(n, f)
  BY DEF HasLatest, Untouched
<1>5. OneWrites(f)'
  BY <1>1 DEF Versions, OneWrites
<1>6. WriterHasLatest(f)'
  BY <1>1, <1>2, <1>4 DEF Versions, WriterHasLatest
<1>7. RegisteredIsLatest(f)'
  BY <1>1, <1>3 DEF Versions, RegisteredIsLatest, Untouched
<1>8. \A n \in Node : store'[n][f] <= clock'
  BY <1>2 DEF Versions, Untouched
<1>. QED  BY <1>1, <1>4, <1>5, <1>6, <1>7, <1>8 DEF Versions

\* A file that the step of p is not about stays as it is.
LEMMA UntouchedShared ==
    ASSUME TypeInv, NEW p \in Proc, OthersKept(p), NEW f \in File, FileShared(f), Untouched(p, f),
           Busy(p)' => Target(p)' # f
    PROVE  FileShared(f)'
<1>1. /\ Versions(f)' /\ \A q \in Proc : Writes(q, f)' <=> Writes(q, f)
      /\ \A n \in Node : HasLatest(n, f)' <=> HasLatest(n, f)
  BY UntouchedVersions DEF FileShared
<1>2. ASSUME NEW q \in Proc, Busy(q)', Target(q)' = f PROVE Opening(q, f)'
  <2>1. /\ pc'[q] = pc[q] /\ call'[q] = call[q] /\ got'[q] = got[q]
        /\ fd'[q] = NoHandle <=> fd[q] = NoHandle
    BY <1>2 DEF OthersKept, Stays, HandleKept
  <2>2. Opening(q, f) /\ Home[q] \in Node
    BY <1>2, <2>1, SharedTypes DEF FileShared, Busy, Target
  <2>. QED  BY <1>1, <2>1, <2>2 DEF Opening, Untouched
<1>. QED  BY <1>1, <1>2 DEF FileShared

\* The step of the handler of p, which works on g.
LEMMA HandlerShared ==
    ASSUME SharedState, NEW p \in Proc, Busy(p), NEW g \in File, Target(p) = g, OthersKept(p),
           \A f \in File : f # g => Untouched(p, f),
           Busy(p)' => call'[p] = call[p] /\ Opening(p, g)',
           Versions(g)'
    PROVE  SharingInv'
<1>1. ASSUME NEW q \in Proc, Busy(q)' PROVE call'[q].op \in ShareOps /\ Busy(q)
  BY <1>1 DEF SharedState, SharingInv, OthersKept, Stays, Busy
<1>2. Busy(p)' => Target(p)' = g
  BY DEF Target
<1>3. ASSUME NEW f \in File, f # g PROVE FileShared(f)'
  BY <1>2, <1>3, UntouchedShared DEF SharedState, SharingInv
<1>4. ASSUME NEW q \in Proc, Busy(q)', Target(q)' = g PROVE q = p
  BY <1>1, <1>4 DEF SharedState, OneAtATime, OthersKept, Stays, Target
<1>5. FileShared(g)'
  BY <1>4 DEF FileShared
<1>. QED  BY <1>1, <1>3, <1>5 DEF SharingInv

LEMMA StepOthers == ASSUME TypeInv, NEW p \in Proc, Begin(p) \/ Write(p) \/ BeginRelease(p) \/ Step(p)
                    PROVE  OthersKept(p)
<1>. QED  BY OthersStay DEF OthersKept

\* What is known where a handler is, and what it is then about.
LEMMA SharedAt ==
    ASSUME SharedState, NEW p \in Proc, Busy(p)
    PROVE  /\ TypeInv /\ Home[p] \in Node /\ call[p].op \in ShareOps \intersect OpsAt(pc[p])
           /\ call[p].op = "mkdir" => Target(p) \in Dir
           /\ call[p].op # "mkdir" =>
                /\ Target(p) \in File /\ Versions(Target(p)) /\ Opening(p, Target(p))
                /\ \A q \in Proc : q # p /\ Busy(q) => Target(q) # Target(p)
<1>1. /\ TypeInv /\ call[p].op \in ShareOps /\ \A f \in File : FileShared(f)
      /\ Home[p] \in Node
  BY HomeAssumption DEF SharedState, SharingInv
<1>2. /\ call[p].op \in OpsAt(pc[p])
      /\ call[p].op \in FileOp \union {"release"} => Target(p) \in File
      /\ call[p].op \in {"mkdir", "rmdir"} => Target(p) \in Dir
  BY <1>1, TargetType
<1>3. call[p].op # "mkdir" => Target(p) \in File
  BY <1>1, <1>2 DEF ShareOps, FileOp
<1>. QED  BY <1>1, <1>2, <1>3 DEF FileShared, SharedState, OneAtATime

\* A step of a handler that changes neither contents, addresses nor handles.
DataStays == addr' = addr /\ store' = store /\ clock' = clock /\ fd' = fd

Registers(l) == l \in {"app_get", "app_put", "register"}

LEMMA StillVersions ==
    ASSUME TypeInv, NEW p \in Proc, DataStays, Registers(pc[p]) <=> Registers(pc'[p]),
           Registers(pc'[p]) => call'[p] = call[p], NEW f \in File
    PROVE  Untouched(p, f)
<1>. QED  BY SharedTypes DEF DataStays, Untouched, Writes, Registers, Target

LEMMA StillShared ==
    ASSUME SharedState, NEW p \in Proc, Step(p), Busy(p), call[p].op # "mkdir", DataStays,
           Registers(pc[p]) <=> Registers(pc'[p]),
           Busy(p)' => call'[p] = call[p] /\ Opening(p, Target(p))'
    PROVE  SharingInv'
<1>1. TypeInv /\ Target(p) \in File /\ Versions(Target(p)) /\ OthersKept(p)
  BY SharedAt, StepOthers
<1>2. Registers(pc'[p]) => call'[p] = call[p]
  BY DEF Registers, Busy
<1>3. \A f \in File : Untouched(p, f)
  BY <1>1, <1>2, StillVersions
<1>4. ASSUME NEW g \in File, g = Target(p) PROVE Versions(g)' /\ (Busy(p)' => Opening(p, g)')
  BY <1>1, <1>3, <1>4, UntouchedVersions DEF Target
<1>. QED  BY <1>1, <1>3, <1>4, HandlerShared

\* A step of fusion_mkdir is about no file.
LEMMA MkdirShared ==
    ASSUME SharedState, NEW p \in Proc, Step(p), Busy(p), call[p].op = "mkdir", DataStays,
           Busy(p)' => call'[p] = call[p]
    PROVE  SharingInv'
<1>1. TypeInv /\ Target(p) \in Dir /\ OthersKept(p) /\ call[p].op \in ShareOps
  BY SharedAt, StepOthers
<1>2. \A f \in File : Target(p) # f
  BY <1>1, PathAssumption DEF Folders
<1>3. Busy(p)' => Target(p)' = Target(p)
  BY DEF Target
<1>4. ASSUME NEW f \in File PROVE Untouched(p, f)
  <2>1. Writes(p, f)' <=> Writes(p, f)
    BY <1>2, <1>3 DEF Writes, DataStays, Busy
  <2>. QED  BY <1>1, <2>1, SharedTypes DEF DataStays, Untouched
<1>5. ASSUME NEW f \in File PROVE FileShared(f)'
  BY <1>1, <1>2, <1>3, <1>4, UntouchedShared DEF SharedState, SharingInv
<1>6. ASSUME NEW q \in Proc, Busy(q)' PROVE call'[q].op \in ShareOps
  BY <1>1, <1>6 DEF SharedState, SharingInv, OthersKept, Stays, Busy
<1>. QED  BY <1>5, <1>6 DEF SharingInv

LEMMA GetattrShared == ASSUME SharedState, NEW p \in Proc, Getattr(p) PROVE SharingInv'
<1>1. /\ pc[p] = "getattr" /\ Busy(p) /\ Step(p) /\ DataStays /\ Goto(p, "fetch")
      /\ got' = [got EXCEPT ![p] = addr[Target(p)]]
  BY DEF Getattr, At, Busy, Step, DataStays, zht, disk
<1>2. /\ TypeInv /\ call[p].op \in FileOp /\ Target(p) \in File /\ Opening(p, Target(p))
      /\ Versions(Target(p)) /\ OthersKept(p)
  BY <1>1, SharedAt, StepOthers DEF OpsAt, FileOp
<1>3. pc'[p] = "fetch" /\ call'[p] = call[p] /\ Target(p)' = Target(p)
  BY <1>1, <1>2, GoesOn
<1>4. got'[p] = addr[Target(p)]
  BY <1>1, <1>2 DEF TypeInv, TypeOK
<1>5. ASSUME NEW q \in Proc PROVE Writes(q, Target(p))' => Writes(q, Target(p))
  BY <1>1, <1>2, <1>3, OthersWrite DEF Writes, DataStays
<1>6. Opening(p, Target(p))'
  BY <1>1, <1>2, <1>3, <1>4, <1>5 DEF Opening, DataStays
<1>. QED  BY <1>1, <1>2, <1>3, <1>6, StillShared DEF Registers, FileOp

LEMMA LstatShared == ASSUME SharedState, NEW p \in Proc, Lstat(p) PROVE SharingInv'
<1>1. pc[p] = "lstat" /\ Busy(p) /\ Step(p) /\ DataStays
  BY DEF Lstat, At, Busy, Step, DataStays, zht, disk
<1>2. /\ TypeInv /\ call[p].op \in FileOp \intersect ShareOps /\ Target(p) \in File
      /\ Opening(p, Target(p)) /\ Home[p] \in Node /\ OthersKept(p)
  BY <1>1, SharedAt, StepOthers DEF OpsAt, FileOp
<1>3. Return(p) \/ Goto(p, "open") \/ Goto(p, "creat")
  BY <1>2 DEF Lstat, ShareOps, FileOp
<1>4. CASE Return(p)
  BY <1>1, <1>2, <1>4, Returns, StillShared DEF Registers, Busy, FileOp
<1>5. CASE \E l \in {"open", "creat"} : Goto(p, l)
  <2>1. pc'[p] \in {"open", "creat"} /\ call'[p] = call[p] /\ Target(p)' = Target(p)
    BY <1>2, <1>5, GoesOn
  <2>2. ASSUME NEW q \in Proc PROVE Writes(q, Target(p))' <=> Writes(q, Target(p))
    BY <1>1, <1>2, <2>1, OthersWrite DEF Writes, DataStays
  <2>3. HasLatest(Home[p], Target(p))' <=> HasLatest(Home[p], Target(p))
    BY <1>1, <2>1 DEF HasLatest, DataStays
  <2>4. Opening(p, Target(p))'
    BY <1>1, <1>2, <2>1, <2>2, <2>3 DEF Opening, DataStays
  <2>. QED  BY <1>1, <1>2, <2>1, <2>4, StillShared DEF Registers, FileOp
<1>. QED  BY <1>3, <1>4, <1>5

LEMMA AppendShared == ASSUME SharedState, NEW p \in Proc, AppendGet(p) \/ AppendPut(p) PROVE SharingInv'
<1>1. /\ Registers(pc[p]) /\ Busy(p) /\ Step(p) /\ DataStays /\ call[p].op \in {"create", "mkdir"}
      /\ pc[p] # "drop"
  <2>1. Registers(pc[p]) /\ Busy(p) /\ Step(p) /\ DataStays /\ pc[p] \in {"app_get", "app_put"}
    BY DEF AppendGet, AppendPut, At, Busy, Step, DataStays, Registers, zht, disk
  <2>. QED  BY <2>1, SharedAt DEF OpsAt
<1>2. TypeInv /\ OthersKept(p)
  BY <1>1, SharedAt, StepOthers
<1>3. CASE call[p].op = "mkdir"
  <2>1. Return(p) \/ Goto(p, "app_put")
    BY <1>3 DEF AppendGet, AppendPut
  <2>. QED  BY <1>1, <1>2, <1>3, <2>1, Returns, GoesOn, MkdirShared
<1>4. CASE call[p].op = "create"
  <2>1. Goto(p, "app_put") \/ Goto(p, "register")
    BY <1>4 DEF AppendGet, AppendPut
  <2>2. pc'[p] \in {"app_put", "register"} /\ call'[p] = call[p] /\ Target(p)' = Target(p)
    BY <1>2, <2>1, GoesOn
  <2>3. Opening(p, Target(p)) /\ Target(p) \in File
    BY <1>1, <1>4, SharedAt
  <2>4. ASSUME NEW q \in Proc PROVE Writes(q, Target(p))' => Writes(q, Target(p))
    BY <1>1, <1>2, <2>2, OthersWrite DEF Writes, DataStays, Registers
  <2>5. Opening(p, Target(p))'
    BY <2>2, <2>3, <2>4 DEF Opening
  <2>. QED  BY <1>1, <1>4, <2>2, <2>5, StillShared DEF Registers
<1>. QED  BY <1>1, <1>3, <1>4

LEMMA MkdirStepsShared ==
    ASSUME SharedState, NEW p \in Proc, MkdirLocal(p) \/ NewListing(p) PROVE SharingInv'
<1>1. /\ pc[p] \in {"mkdir", "newlist"} /\ Busy(p) /\ Step(p) /\ DataStays
      /\ \E l : Goto(p, l)
  BY DEF MkdirLocal, NewListing, At, Busy, Step, DataStays, zht, disk
<1>2. TypeInv /\ call[p].op = "mkdir"
  BY <1>1, SharedAt DEF OpsAt
<1>. QED  BY <1>1, <1>2, GoesOn, MkdirShared

\* One file of one node gets other contents; all the rest stays.
LEMMA PutAt ==
    ASSUME TypeInv, NEW n \in Node, NEW g \in File, NEW k \in Nat, Put(n, g, k)
    PROVE  \A m \in Node, f \in File :
              store'[m][f] = IF m = n /\ f = g THEN k ELSE store[m][f]
<1>1. store \in [Node -> [File -> Nat]]
  BY DEF TypeInv, TypeOK
<1>2. store' = [store EXCEPT ![n][g] = k]
  BY DEF Put
<1>. QED  BY <1>1, <1>2

\* fusion_getattr fetches what is registered.
LEMMA FetchShared ==
    ASSUME SharedState, NEW p \in Proc, NEW g, Target(p) = g, Fetch(p) PROVE SharingInv'
<1>. DEFINE n == Home[p]
<1>1. pc[p] = "fetch" /\ Busy(p) /\ Step(p) /\ addr' = addr /\ clock' = clock /\ fd' = fd /\ Goto(p, "lstat")
  BY DEF Fetch, At, Busy, Step, zht
<1>2. /\ TypeInv /\ call[p].op \in FileOp /\ g \in File /\ Opening(p, g) /\ Versions(g)
      /\ n \in Node /\ OthersKept(p) /\ got[p] = addr[g]
  BY <1>1, SharedAt, StepOthers DEF OpsAt, FileOp, Opening
<1>3. pc'[p] = "lstat" /\ call'[p] = call[p] /\ Target(p)' = g
  BY <1>1, <1>2, GoesOn
<1>4. /\ clock \in Nat /\ \A m \in Node, f \in File : store[m][f] \in Nat
      /\ \A f \in File : addr[f] \in Node \union {NoNode} /\ RegisteredContents(f) \in Nat
      /\ \A q \in Proc : Home[q] \in Node
  BY <1>2, SharedTypes
<1>5. \A m \in Node, f \in File :
         store'[m][f] = IF Fetches(p) /\ m = n /\ f = g THEN RegisteredContents(g) ELSE store[m][f]
  <2>1. CASE Fetches(p)
    <3>1. Put(n, g, RegisteredContents(g))
      BY <1>2, <2>1 DEF Fetch, Fetches, RegisteredContents
    <3>. QED  BY <1>2, <1>4, <2>1, <3>1, PutAt
  <2>2. CASE ~Fetches(p)
    BY <2>2 DEF Fetch
  <2>. QED  BY <2>1, <2>2
<1>6. Fetches(p) => addr[g] \in Node /\ addr[g] # n
  BY <1>2, <1>4 DEF Fetches
<1>7. RegisteredContents(g)' = RegisteredContents(g)
  BY <1>1, <1>2, <1>4, <1>5, <1>6 DEF RegisteredContents
<1>8. \A q \in Proc, f \in File : Writes(q, f)' <=> Writes(q, f)
  <2>1. \A f \in File : Writes(p, f)' <=> Writes(p, f)
    BY <1>1, <1>3 DEF Writes
  <2>. QED  BY <1>2, <2>1, OthersWrite
<1>9. RegisteredContents(g) <= clock /\ \A m \in Node : store'[m][g] <= clock'
  BY <1>1, <1>2, <1>4, <1>5 DEF Versions, RegisteredContents
<1>10. \A q \in Proc : Writes(q, g) => \A m \in Node : Home[q] # m => store[m][g] <= RegisteredContents(g)
  BY <1>2, <1>4 DEF Versions, OneWrites, RegisteredIsLatest
<1>11. \A q \in Proc : Writes(q, g) => RegisteredContents(g) <= store[Home[q]][g]
  BY <1>2, <1>4 DEF Versions, WriterHasLatest, HasLatest, RegisteredContents
<1>12. WriterHasLatest(g)'
  <2>1. ASSUME NEW q \in Proc, Writes(q, g), NEW m \in Node PROVE store'[m][g] <= store'[Home[q]][g]
    <3>1. store[m][g] <= store[Home[q]][g]
      BY <1>2, <2>1 DEF Versions, WriterHasLatest, HasLatest
    <3>. QED  BY <1>2, <1>4, <1>5, <1>10, <1>11, <2>1, <3>1
  <2>. QED  BY <1>2, <1>8, <2>1 DEF WriterHasLatest, HasLatest
<1>13. RegisteredIsLatest(g)'
  BY <1>2, <1>4, <1>5, <1>7, <1>8 DEF Versions, RegisteredIsLatest
<1>14. Versions(g)'
  BY <1>2, <1>8, <1>9, <1>12, <1>13 DEF Versions, OneWrites
<1>15. ASSUME \A q \in Proc : ~Writes(q, g) PROVE HasLatest(n, g)'
  <2>1. \A m \in Node : store[m][g] <= RegisteredContents(g)
    BY <1>2, <1>15 DEF Versions, RegisteredIsLatest
  <2>2. ~Fetches(p) => RegisteredContents(g) <= store[n][g]
    BY <1>2, <1>4 DEF Fetches, RegisteredContents
  <2>. QED  BY <1>2, <1>4, <1>5, <2>1, <2>2 DEF HasLatest
<1>16. Opening(p, g)'
  BY <1>1, <1>2, <1>3, <1>8, <1>15 DEF Opening
<1>17. \A f \in File : f # g => Untouched(p, f)
  BY <1>1, <1>4, <1>5, <1>8 DEF Untouched
<1>. QED  BY <1>1, <1>2, <1>3, <1>14, <1>16, <1>17, HandlerShared

\* An open, for reading or for writing.
LEMMA OpenShared ==
    ASSUME SharedState, NEW p \in Proc, NEW g, Target(p) = g, Open(p) PROVE SharingInv'
<1>1. /\ pc[p] = "open" /\ Busy(p) /\ Step(p) /\ Return(p)
      /\ addr' = addr /\ clock' = clock /\ store' = store
  BY DEF Open, At, Busy, Step, zht, disk
<1>2. /\ TypeInv /\ call[p].op \in {"read", "write", "create"} /\ g \in File /\ Opening(p, g) /\ Versions(g)
      /\ Home[p] \in Node /\ OthersKept(p) /\ fd[p] = NoHandle
  BY <1>1, SharedAt, StepOthers DEF OpsAt, FileOp, Opening
<1>3. pc'[p] = "idle" /\ ~Busy(p)'
  BY <1>1, <1>2, Returns
<1>4. fd'[p] = NoHandle \/ fd'[p] = [file |-> g, linked |-> TRUE, write |-> call[p].op # "read"]
  BY <1>2 DEF Open, TypeInv, TypeOK
<1>5. /\ clock \in Nat /\ addr[g] \in Node \union {NoNode}
      /\ \A q \in Proc : Home[q] \in Node
  BY <1>2, SharedTypes
<1>6. \A f \in File : f # g => Untouched(p, f)
  BY <1>1, <1>2, <1>3, <1>4, <1>5 DEF Untouched, Writes
<1>7. \A q \in Proc : q # p => (Writes(q, g)' <=> Writes(q, g))
  BY <1>2, OthersWrite
<1>8. ~Writes(p, g) /\ (Writes(p, g)' => call[p].op \in {"write", "create"})
  <2>1. ~Writes(p, g)
    BY <1>1, <1>2 DEF Writes
  <2>2. Writes(p, g)' => fd'[p] # NoHandle /\ fd'[p].write
    BY <1>3 DEF Writes
  <2>3. CASE call[p].op = "read"
    <3>1. (call[p].op # "read") = FALSE
      BY <2>3
    <3>2. fd'[p] # NoHandle => fd'[p] = [file |-> g, linked |-> TRUE, write |-> FALSE]
      BY <1>4, <3>1
    <3>3. fd'[p] # NoHandle => fd'[p].write = FALSE
      BY <3>2
    <3>. QED  BY <2>1, <2>2, <3>3
  <2>. QED  BY <1>2, <2>1, <2>3
<1>9. Writes(p, g)' => (\A q \in Proc : ~Writes(q, g)) /\ HasLatest(Home[p], g)
  BY <1>1, <1>2, <1>8 DEF Opening
<1>10. OneWrites(g)'
  BY <1>2, <1>7, <1>9 DEF Versions, OneWrites
<1>11. WriterHasLatest(g)'
  BY <1>1, <1>2, <1>7, <1>9 DEF Versions, WriterHasLatest, HasLatest
<1>12. RegisteredContents(g)' = RegisteredContents(g)
  BY <1>1 DEF RegisteredContents
<1>13. RegisteredIsLatest(g)'
  BY <1>1, <1>2, <1>7, <1>8, <1>12 DEF Versions, RegisteredIsLatest
<1>14. Versions(g)'
  BY <1>1, <1>2, <1>10, <1>11, <1>13 DEF Versions
<1>. QED  BY <1>1, <1>2, <1>3, <1>6, <1>14, HandlerShared

\* creat(2): whether it succeeds or not, the process is about to register.
LEMMA CreatShared ==
    ASSUME SharedState, NEW p \in Proc, NEW g, Target(p) = g, Creat(p) PROVE SharingInv'
<1>. DEFINE n == Home[p]
            made == HasFolder(n, Folder[g])
<1>1. pc[p] = "creat" /\ Busy(p) /\ Step(p) /\ addr' = addr /\ Goto(p, "app_get")
  BY DEF Creat, At, Busy, Step, zht
<1>2. /\ TypeInv /\ call[p].op = "create" /\ g \in File /\ Opening(p, g) /\ Versions(g)
      /\ n \in Node /\ OthersKept(p) /\ fd[p] = NoHandle
  BY <1>1, SharedAt, StepOthers DEF OpsAt, FileOp, Opening
<1>3. pc'[p] = "app_get" /\ call'[p] = call[p] /\ Target(p)' = g
  BY <1>1, <1>2, GoesOn
<1>4. /\ clock \in Nat /\ \A m \in Node, f \in File : store[m][f] \in Nat
      /\ \A f \in File : addr[f] \in Node \union {NoNode}
      /\ \A q \in Proc : Home[q] \in Node
  BY <1>2, SharedTypes
<1>5. /\ \A m \in Node, f \in File :
            store'[m][f] = IF made /\ m = n /\ f = g THEN clock + 1 ELSE store[m][f]
      /\ clock' = IF made THEN clock + 1 ELSE clock
      /\ fd'[p] # NoHandle => fd'[p].file = g
  <2>1. CASE made
    <3>1. clock' = clock + 1 /\ Put(n, g, clock + 1)
      BY <2>1 DEF Creat
    <3>2. fd'[p] = [file |-> g, write |-> TRUE, linked |-> TRUE]
      BY <1>2, <2>1 DEF Creat, TypeInv, TypeOK
    <3>. QED  BY <1>2, <1>4, <2>1, <3>1, <3>2, PutAt
  <2>2. CASE ~made
    BY <1>2, <2>2 DEF Creat
  <2>. QED  BY <2>1, <2>2
<1>6. \A f \in File : f # g => Untouched(p, f)
  BY <1>1, <1>2, <1>3, <1>4, <1>5 DEF Untouched, Writes
<1>7. \A q \in Proc : q # p => (Writes(q, g)' <=> Writes(q, g))
  BY <1>2, OthersWrite
<1>8. Writes(p, g)' /\ ~Writes(p, g)
  BY <1>1, <1>2, <1>3 DEF Writes
<1>9. (\A q \in Proc : ~Writes(q, g)) /\ HasLatest(n, g)
  BY <1>1, <1>2, <1>8 DEF Opening
<1>10. OneWrites(g)'
  BY <1>7, <1>9 DEF OneWrites
<1>11. \A m \in Node : store[m][g] <= clock
  BY <1>2 DEF Versions
<1>12. HasLatest(n, g)'
  BY <1>2, <1>4, <1>5, <1>9, <1>11 DEF HasLatest
<1>13. WriterHasLatest(g)'
  BY <1>7, <1>9, <1>12 DEF WriterHasLatest
<1>14. RegisteredIsLatest(g)'
  <2>1. \A m \in Node : store[m][g] <= RegisteredContents(g)
    BY <1>2, <1>9 DEF Versions, RegisteredIsLatest
  <2>2. RegisteredContents(g) <= RegisteredContents(g)'
    BY <1>1, <1>2, <1>4, <1>5, <1>11 DEF RegisteredContents
  <2>3. \A m \in Node : m # n => store'[m][g] = store[m][g]
    BY <1>2, <1>5
  <2>4. RegisteredContents(g) \in Nat /\ RegisteredContents(g)' \in Nat
    BY <1>1, <1>2, <1>4, <1>5 DEF RegisteredContents
  <2>. QED  BY <1>2, <1>4, <1>8, <2>1, <2>2, <2>3, <2>4 DEF RegisteredIsLatest
<1>15. \A m \in Node : store'[m][g] <= clock'
  BY <1>2, <1>4, <1>5, <1>11
<1>16. Opening(p, g)'
  BY <1>3, <1>7, <1>9 DEF Opening
<1>. QED  BY <1>1, <1>2, <1>3, <1>6, <1>10, <1>13, <1>14, <1>15, <1>16, HandlerShared DEF Versions

\* A descriptor is closed: its process goes on to register or to drop its copy,
\* or its node is registered already.
LEMMA CloseShared ==
    ASSUME SharedState, NEW p \in Proc, NEW g, Target(p) = g, Close(p) PROVE SharingInv'
<1>1. /\ pc[p] = "close" /\ Busy(p) /\ Step(p)
      /\ addr' = addr /\ clock' = clock /\ store' = store /\ fd' = [fd EXCEPT ![p] = NoHandle]
  BY DEF Close, At, Busy, Step, zht, disk
<1>2. /\ TypeInv /\ call[p].op = "release" /\ g \in File /\ Opening(p, g) /\ Versions(g)
      /\ Home[p] \in Node /\ OthersKept(p)
  BY <1>1, SharedAt, StepOthers DEF OpsAt
<1>3. /\ fd[p] # NoHandle /\ fd[p].file = g /\ fd'[p] = NoHandle
      /\ clock \in Nat /\ \A q \in Proc : Home[q] \in Node
  BY <1>1, <1>2, SharedTypes, NoneAssumption DEF TypeInv, TypeOK, Serving, Busy, Target, Handle
<1>4. \/ addr[g] = Home[p] /\ pc'[p] = "idle"
      \/ /\ addr[g] # Home[p] /\ pc'[p] = IF fd[p].write THEN "register" ELSE "drop"
         /\ call'[p] = call[p] /\ Target(p)' = g
  <2>1. CASE Return(p) /\ addr[g] = Home[p]
    BY <1>2, <2>1, Returns
  <2>2. CASE addr[g] # Home[p] /\ Goto(p, IF fd[p].write THEN "register" ELSE "drop")
    BY <1>2, <2>2, GoesOn
  <2>. QED  BY <2>1, <2>2 DEF Close
<1>5. Writes(p, g) <=> fd[p].write
  BY <1>1, <1>3 DEF Writes
<1>6. Writes(p, g)' <=> fd[p].write /\ addr[g] # Home[p]
  BY <1>3, <1>4 DEF Writes
<1>7. \A f \in File : f # g => Untouched(p, f)
  BY <1>1, <1>3, <1>4 DEF Untouched, Writes
<1>8. \A q \in Proc : q # p => (Writes(q, g)' <=> Writes(q, g))
  BY <1>2, OthersWrite
<1>9. OneWrites(g)' /\ WriterHasLatest(g)'
  BY <1>1, <1>2, <1>5, <1>6, <1>8 DEF Versions, OneWrites, WriterHasLatest, HasLatest
<1>10. RegisteredIsLatest(g)'
  <2>1. ASSUME NEW m \in Node, \A q \in Proc : Writes(q, g)' => Home[q] # m
        PROVE  store[m][g] <= RegisteredContents(g)
    <3>1. CASE \A q \in Proc : Writes(q, g) => Home[q] # m
      BY <1>2, <3>1 DEF Versions, RegisteredIsLatest
    <3>2. CASE Writes(p, g) /\ Home[p] = m
      <4>1. addr[g] = m /\ m # NoNode
        BY <1>5, <1>6, <2>1, <3>2, NoneAssumption
      <4>2. store[m][g] <= store[m][g]
        BY <1>2, <3>2 DEF Versions, WriterHasLatest, HasLatest
      <4>. QED  BY <4>1, <4>2 DEF RegisteredContents
    <3>. QED  BY <1>8, <2>1, <3>1, <3>2
  <2>2. RegisteredContents(g)' = RegisteredContents(g)
    BY <1>1 DEF RegisteredContents
  <2>. QED  BY <1>1, <2>1, <2>2 DEF RegisteredIsLatest
<1>11. Versions(g)'
  BY <1>1, <1>2, <1>9, <1>10 DEF Versions
<1>12. Busy(p)' => Opening(p, g)'
  BY <1>1, <1>2, <1>3, <1>4 DEF Opening, Busy
<1>. QED  BY <1>1, <1>2, <1>4, <1>7, <1>11, <1>12, HandlerShared DEF Busy

\* ZHT is told that the process's node has the contents: they are the latest.
LEMMA RegisterShared ==
    ASSUME SharedState, NEW p \in Proc, NEW g, Target(p) = g, Register(p) PROVE SharingInv'
<1>. DEFINE n == Home[p]
<1>1. /\ pc[p] = "register" /\ Busy(p) /\ Step(p) /\ Return(p)
      /\ clock' = clock /\ store' = store /\ fd' = fd /\ addr' = [addr EXCEPT ![g] = n]
  BY DEF Register, At, Busy, Step, disk
<1>2. /\ TypeInv /\ call[p].op # "mkdir" /\ g \in File /\ Versions(g)
      /\ n \in Node /\ OthersKept(p)
  <2>1. call[p].op # "mkdir"
    BY <1>1, SharedAt DEF OpsAt
  <2>. QED  BY <1>1, <2>1, SharedAt, StepOthers
<1>3. pc'[p] = "idle" /\ ~Busy(p)'
  BY <1>1, <1>2, Returns
<1>4. \A f \in File : addr'[f] = IF f = g THEN n ELSE addr[f]
  BY <1>1, <1>2 DEF TypeInv, TypeOK
<1>5. clock \in Nat /\ n # NoNode /\ \A q \in Proc : Home[q] \in Node
  BY <1>2, SharedTypes, NoneAssumption
<1>6. Writes(p, g) /\ HasLatest(n, g) /\ \A q \in Proc : Writes(q, g) => q = p
  BY <1>1, <1>2 DEF Writes, Versions, WriterHasLatest, OneWrites
<1>7. \A f \in File : f # g => Untouched(p, f)
  BY <1>1, <1>3, <1>4, <1>5 DEF Untouched, Writes
<1>8. \A q \in Proc : Writes(q, g)' => Writes(q, g)
  BY <1>2, <1>6, OthersWrite
<1>9. OneWrites(g)' /\ WriterHasLatest(g)'
  BY <1>1, <1>2, <1>8 DEF Versions, OneWrites, WriterHasLatest, HasLatest
<1>10. RegisteredIsLatest(g)'
  BY <1>1, <1>2, <1>4, <1>5, <1>6 DEF RegisteredIsLatest, RegisteredContents, HasLatest
<1>11. Versions(g)'
  BY <1>1, <1>2, <1>9, <1>10 DEF Versions
<1>. QED  BY <1>1, <1>2, <1>3, <1>7, <1>11, HandlerShared

\* The copy a reader drops is not the one that is registered.
LEMMA DropCopyShared ==
    ASSUME SharedState, NEW p \in Proc, NEW g, Target(p) = g, DropCopy(p) PROVE SharingInv'
<1>. DEFINE n == Home[p]
<1>1. /\ pc[p] = "drop" /\ Busy(p) /\ Step(p) /\ Return(p)
      /\ clock' = clock /\ addr' = addr /\ RemoveFiles(n, {g})
  BY DEF DropCopy, At, Busy, Step, zht
<1>2. /\ TypeInv /\ call[p].op = "release" /\ g \in File /\ Versions(g) /\ Opening(p, g)
      /\ n \in Node /\ OthersKept(p) /\ fd[p] = NoHandle /\ addr[g] # n
  BY <1>1, SharedAt, StepOthers DEF OpsAt, Opening
<1>3. pc'[p] = "idle" /\ ~Busy(p)' /\ fd'[p] = NoHandle
  BY <1>1, <1>2, Returns, UnlinkedKeeps DEF HandleKept
<1>4. /\ clock \in Nat /\ \A m \in Node, f \in File : store[m][f] \in Nat
      /\ addr[g] \in Node \union {NoNode} /\ \A q \in Proc : Home[q] \in Node
  BY <1>2, SharedTypes
<1>5. \A m \in Node, f \in File : store'[m][f] = IF m = n /\ f = g THEN 0 ELSE store[m][f]
  <2>1. store' = [store EXCEPT ![n] = [f \in File |-> IF f \in {g} THEN 0 ELSE @[f]]]
    BY <1>1 DEF RemoveFiles
  <2>. QED  BY <1>2, <2>1 DEF TypeInv, TypeOK
<1>6. ~Writes(p, g)' /\ ~Writes(p, g) /\ \A f \in File : Writes(p, f)' <=> Writes(p, f)
  BY <1>1, <1>2, <1>3 DEF Writes
<1>7. \A f \in File : f # g => Untouched(p, f)
  BY <1>1, <1>4, <1>5, <1>6 DEF Untouched
<1>8. \A q \in Proc : Writes(q, g)' <=> Writes(q, g)
  BY <1>2, <1>6, OthersWrite
<1>9. \A q \in Proc : Writes(q, g) => Home[q] # n
  BY <1>6 DEF SharedState, Sharing
<1>10. RegisteredContents(g)' = RegisteredContents(g) /\ RegisteredContents(g) \in Nat
  BY <1>1, <1>2, <1>4, <1>5 DEF RegisteredContents
<1>11. RegisteredIsLatest(g)'
  BY <1>2, <1>4, <1>5, <1>8, <1>10 DEF Versions, RegisteredIsLatest
<1>12. WriterHasLatest(g)'
  <2>1. ASSUME NEW q \in Proc, Writes(q, g), NEW m \in Node PROVE store'[m][g] <= store'[Home[q]][g]
    <3>1. store[m][g] <= store[Home[q]][g] /\ Home[q] # n
      BY <1>2, <1>9, <2>1 DEF Versions, WriterHasLatest, HasLatest
    <3>. QED  BY <1>2, <1>4, <1>5, <2>1, <3>1
  <2>. QED  BY <1>8, <2>1 DEF WriterHasLatest, HasLatest
<1>13. OneWrites(g)' /\ \A m \in Node : store'[m][g] <= clock'
  BY <1>1, <1>2, <1>4, <1>5, <1>8 DEF Versions, OneWrites
<1>. QED  BY <1>1, <1>2, <1>3, <1>7, <1>11, <1>12, <1>13, HandlerShared DEF Versions

\* Every step of a handler of these system calls.
LEMMA StepShared == ASSUME SharedState, NEW p \in Proc, Step(p) PROVE SharingInv'
<1>1. ASSUME NEW g, Target(p) = g,
             Fetch(p) \/ Open(p) \/ Creat(p) \/ Register(p) \/ Close(p) \/ DropCopy(p)
      PROVE  SharingInv'
  BY <1>1, FetchShared, OpenShared, CreatShared, RegisterShared, CloseShared, DropCopyShared
<1>2. CASE Getattr(p) \/ Lstat(p) \/ AppendGet(p) \/ AppendPut(p) \/ MkdirLocal(p) \/ NewListing(p)
  BY <1>2, GetattrShared, LstatShared, AppendShared, MkdirStepsShared
<1>3. CASE Truncate(p) \/ DeleteGet(p) \/ DeletePut(p) \/ LookupOwner(p) \/ RemoveEntry(p) \/ RemoveData(p)
           \/ CheckEmpty(p) \/ RmdirLocal(p) \/ RemoveListing(p)
           \/ Opendir(p) \/ ReaddirGet(p) \/ ReaddirScan(p)
  <2>1. pc[p] \in {"trunc", "del_get", "del_put", "oldaddr", "rmaddr", "rmdata",
                   "rmcheck", "rmtree", "rmkey", "opendir", "rd_get", "rd_scan"}
    BY <1>3 DEF Truncate, DeleteGet, DeletePut, LookupOwner, RemoveEntry, RemoveData,
         CheckEmpty, RmdirLocal, RemoveListing, Opendir, ReaddirGet, ReaddirScan, At
  <2>2. call[p].op \in ShareOps \intersect {"truncate", "unlink", "rmdir", "readdir"}
    BY <2>1, SharedAt DEF Busy, OpsAt
  <2>. QED  BY <2>2 DEF ShareOps
<1>. QED  BY <1>1, <1>2, <1>3 DEF Step

\* fusion_write makes the latest contents, at the node of the one that writes.
LEMMA WriteShared == ASSUME SharedState, NEW p \in Proc, Write(p) PROVE SharingInv'
<1>. DEFINE n == Home[p]
<1>1. PICK g \in File : g = fd[p].file
  BY DEF Write, SharedState, TypeInv, TypeOK, Handle
<1>2. /\ ~Busy(p) /\ fd[p] # NoHandle /\ fd[p].write /\ clock' = clock + 1 /\ Put(n, g, clock + 1)
      /\ addr' = addr /\ fd' = fd /\ pc' = pc /\ call' = call /\ got' = got
  BY <1>1 DEF Write, Busy, zht, mine
<1>3. /\ TypeInv /\ Versions(g) /\ OthersKept(p) /\ n \in Node /\ FileShared(g)
      /\ \A f \in File : FileShared(f)
  BY StepOthers, HomeAssumption DEF SharedState, SharingInv, FileShared
<1>4. /\ clock \in Nat /\ \A m \in Node, f \in File : store[m][f] \in Nat
      /\ addr[g] \in Node \union {NoNode} /\ \A q \in Proc : Home[q] \in Node
  BY <1>3, SharedTypes
<1>5. \A m \in Node, f \in File : store'[m][f] = IF m = n /\ f = g THEN clock + 1 ELSE store[m][f]
  BY <1>2, <1>3, <1>4, PutAt
<1>6. \A q \in Proc, f \in File : Writes(q, f)' <=> Writes(q, f)
  BY <1>2 DEF Writes, Target
<1>7. Writes(p, g) /\ \A q \in Proc : Writes(q, g) => q = p
  BY <1>1, <1>2, <1>3 DEF Writes, Versions, OneWrites
<1>8. \A m \in Node : store[m][g] <= clock
  BY <1>3 DEF Versions
<1>9. HasLatest(n, g)' /\ \A m \in Node : store'[m][g] <= clock'
  BY <1>2, <1>3, <1>4, <1>5, <1>8 DEF HasLatest
<1>10. OneWrites(g)' /\ WriterHasLatest(g)'
  BY <1>6, <1>7, <1>9 DEF OneWrites, WriterHasLatest
<1>11. RegisteredIsLatest(g)'
  <2>1. RegisteredContents(g) <= RegisteredContents(g)'
        /\ RegisteredContents(g) \in Nat /\ RegisteredContents(g)' \in Nat
    BY <1>2, <1>3, <1>4, <1>5, <1>8 DEF RegisteredContents
  <2>2. ASSUME NEW m \in Node, m # n PROVE store'[m][g] <= RegisteredContents(g)'
    <3>1. store[m][g] <= RegisteredContents(g)
      BY <1>3, <1>7, <2>2 DEF Versions, RegisteredIsLatest
    <3>. QED  BY <1>4, <1>5, <2>1, <2>2, <3>1
  <2>. QED  BY <1>6, <1>7, <2>2 DEF RegisteredIsLatest
<1>12. ASSUME NEW q \in Proc, Busy(q)', Target(q)' = g PROVE Opening(q, g)'
  <2>1. Opening(q, g)
    BY <1>2, <1>3, <1>12 DEF FileShared, Busy, Target
  <2>. QED  BY <1>2, <1>6, <1>7, <2>1 DEF Opening
<1>13. FileShared(g)'
  BY <1>9, <1>10, <1>11, <1>12 DEF FileShared, Versions
<1>14. ASSUME NEW f \in File, f # g PROVE FileShared(f)'
  <2>1. Untouched(p, f)
    BY <1>2, <1>4, <1>5, <1>6, <1>14 DEF Untouched
  <2>. QED  BY <1>2, <1>3, <2>1, UntouchedShared DEF Busy
<1>15. \A q \in Proc : Busy(q)' => call'[q].op \in ShareOps
  BY <1>2 DEF SharedState, SharingInv, Busy
<1>. QED  BY <1>13, <1>14, <1>15 DEF SharingInv

\* A handler begins on x; nobody else is busy with x then.
LEMMA BeginsShared ==
    ASSUME SharedState, OneAtATime', NEW p \in Proc, NEW x, OthersKept(p), ~Busy(p), Busy(p)', DataStays,
           Target(p)' = x, call'[p].op \in ShareOps, ~Registers(pc'[p]),
           x \in File /\ Versions(x) => Opening(p, x)'
    PROVE  SharingInv'
<1>1. TypeInv /\ \A f \in File : Versions(f) /\ FileShared(f)
  BY DEF SharedState, SharingInv, FileShared
<1>2. ~Registers(pc[p])
  BY DEF Busy, Registers
<1>3. ASSUME NEW f \in File PROVE Untouched(p, f) /\ Versions(f)'
  <2>1. Untouched(p, f)
    BY <1>1, <1>2, StillVersions
  <2>. QED  BY <1>1, <2>1, UntouchedVersions
<1>4. ASSUME NEW f \in File, f # x PROVE FileShared(f)'
  BY <1>1, <1>3, <1>4, UntouchedShared
<1>5. \A q \in Proc : Busy(q)' /\ Target(q)' = x => q = p
  BY DEF OneAtATime
<1>6. x \in File => FileShared(x)'
  BY <1>1, <1>3, <1>5 DEF FileShared
<1>7. \A q \in Proc : Busy(q)' => call'[q].op \in ShareOps
  BY DEF SharedState, SharingInv, OthersKept, Stays, Busy
<1>. QED  BY <1>4, <1>6, <1>7 DEF SharingInv

LEMMA BeginShared == ASSUME SharedState, OneAtATime', NEW p \in Proc, Begin(p) PROVE SharingInv'
<1>1. PICK c \in Calls :
         /\ c[1] = p /\ Permitted(p, c[2], c[3]) /\ ~Busy(p) /\ DataStays
         /\ call' = [call EXCEPT ![p] = [op |-> c[2], path |-> c[3]]]
         /\ pc' = [pc EXCEPT ![p] = Entry(c[2])]
  BY DEF Begin, MayServe, Busy, DataStays, zht, disk
<1>2. TypeInv /\ OthersKept(p) /\ c[2] \in {"stat", "read", "write", "create", "mkdir"}
      /\ ~ShareWrites
  BY StepOthers DEF SharedState, Sharing
<1>3. /\ call'[p] = [op |-> c[2], path |-> c[3]] /\ Target(p)' = c[3]
      /\ pc'[p] = Entry(c[2]) /\ Entry(c[2]) \in {"getattr", "mkdir"}
  BY <1>1, <1>2 DEF TypeInv, TypeOK, Target, Entry, FileOp
<1>4. ASSUME c[3] \in File, Versions(c[3]) PROVE Opening(p, c[3])'
  <2>1. c[2] \in {"read", "write", "create"} => fd'[p] = NoHandle
    BY <1>1 DEF Permitted, DataStays
  <2>2. ASSUME c[2] \in {"write", "create"}, NEW q \in Proc, Writes(q, c[3])' PROVE q = p
    <3>1. ~OpenForWriting(c[3])
      BY <1>1, <1>2, <2>2 DEF Permitted
    <3>2. CASE q # p
      <4>1. Writes(q, c[3])
        BY <1>2, <2>2, <3>2, OthersWrite
      <4>2. pc[q] \in {"app_get", "app_put", "register"} /\ Target(q) = c[3]
        BY <3>1, <4>1 DEF Writes, OpenForWriting
      <4>3. Busy(q)' /\ Busy(p)' /\ Target(q)' = Target(p)'
        BY <1>2, <1>3, <3>2, <4>2 DEF OthersKept, Stays, Busy, Target
      <4>. QED  BY <4>3 DEF OneAtATime
    <3>. QED  BY <3>2
  <2>. QED  BY <1>3, <2>1, <2>2 DEF Opening
<1>. QED  BY <1>1, <1>2, <1>3, <1>4, BeginsShared DEF Busy, Registers, ShareOps

LEMMA BeginReleaseShared ==
    ASSUME SharedState, OneAtATime', NEW p \in Proc, BeginRelease(p) PROVE SharingInv'
<1>1. /\ ~Busy(p) /\ DataStays /\ call' = [call EXCEPT ![p] = [op |-> "release", path |-> fd[p].file]]
      /\ pc' = [pc EXCEPT ![p] = "close"]
  BY DEF BeginRelease, MayServe, Busy, DataStays, zht, disk
<1>2. TypeInv /\ OthersKept(p)
  BY StepOthers DEF SharedState
<1>3. pc'[p] = "close" /\ call'[p].op = "release"
  BY <1>1, <1>2 DEF TypeInv, TypeOK
<1>4. \A x : Opening(p, x)'
  BY <1>3 DEF Opening
<1>. QED  BY <1>1, <1>2, <1>3, <1>4, BeginsShared DEF Busy, Registers, ShareOps

LEMMA NextShared ==
    ASSUME SharedState, OneAtATime', [Next]_vars PROVE SharingInv'
<1>1. ASSUME NEW n \in Node, Crash(n) PROVE FALSE
  BY <1>1 DEF Crash, SharedState, Sharing
<1>2. CASE UNCHANGED vars \/ \E n \in Node : Mount(n)
  <2>1. addr' = addr /\ store' = store /\ clock' = clock /\ fd' = fd /\ pc' = pc /\ call' = call /\ got' = got
    BY <1>2 DEF vars, Mount, zht, disk, mine
  <2>2. SharingInv
    BY DEF SharedState
  <2>. QED  BY <2>1, <2>2 DEF SharingInv, FileShared, Versions, OneWrites, WriterHasLatest,
              RegisteredIsLatest, RegisteredContents, HasLatest, Writes, Opening, Busy, Target
<1>3. ASSUME NEW p \in Proc, Begin(p) \/ Write(p) \/ BeginRelease(p) \/ Step(p) PROVE SharingInv'
  BY <1>3, BeginShared, WriteShared, BeginReleaseShared, StepShared
<1>. QED  BY <1>1, <1>2, <1>3 DEF Next

LEMMA InitShared == Init => SharingInv
<1>. SUFFICES ASSUME Init PROVE SharingInv
  OBVIOUS
<1>1. /\ \A p \in Proc : ~Busy(p) /\ \A f : ~Writes(p, f)
      /\ clock = 0 /\ \A n \in Node, f \in File : store[n][f] = 0
      /\ \A f \in File : addr[f] = NoNode
  BY DEF Init, Busy, Writes
<1>2. ASSUME NEW f \in File PROVE Versions(f)
  BY <1>1 DEF Versions, OneWrites, WriterHasLatest, RegisteredIsLatest, RegisteredContents
<1>. QED  BY <1>1, <1>2 DEF SharingInv, FileShared

\* At an open nobody disturbs, the invariant says that the node has the latest.
LEMMA OpensOne ==
    ASSUME SharedState, [Next]_vars PROVE OpensLatest
<1>. SUFFICES ASSUME NEW p \in Proc, pc[p] = "open", ~OpenForWriting(Target(p))
              PROVE  \A n \in Node : store[n][Target(p)] <= store[Home[p]][Target(p)]
  BY DEF OpensLatest
<1>1. Busy(p)
  BY DEF Busy
<1>2. call[p].op \in {"read", "write", "create"}
  BY <1>1, SharedAt DEF OpsAt
<1>3. /\ Opening(p, Target(p))
      /\ \A q \in Proc : q # p /\ Busy(q) => Target(q) # Target(p)
  BY <1>1, <1>2, SharedAt
<1>4. ASSUME NEW q \in Proc PROVE ~Writes(q, Target(p))
  BY <1>3, <1>4 DEF Writes, OpenForWriting, Busy
<1>. QED  BY <1>3, <1>4 DEF Opening, HasLatest

(* Close-to-open: programs that keep to Sharing, on any number of nodes and  *)
(* with handlers on different files running together, get the latest contents *)
(* of a file whenever they open it while nobody has it open for writing:      *)
(* what fusion_getattr fetches is what the last fusion_release registered.    *)
THEOREM OpensGetLatest ==
    ASSUME Sharing
    PROVE  Spec /\ []OneAtATime => [][OpensLatest]_vars
<1>1. TypeInv /\ SharingInv /\ OneAtATime /\ OneAtATime' /\ [Next]_vars => SharingInv'
  BY NextShared DEF SharedState
<1>2. TypeInv /\ SharingInv /\ OneAtATime /\ [Next]_vars => [OpensLatest]_vars
  BY OpensOne DEF SharedState
<1>3. Spec => []TypeInv
  BY InitTypeInv, NextTypeInv, PTL DEF Spec
<1>. QED  BY <1>1, <1>2, <1>3, InitShared, PTL DEF Spec

\* A bound of one on the handlers that run is one handler on one file.
LEMMA OneRuns ==
    ASSUME TypeInv, MaxInFlight = 1, [Next]_vars, \A p, q \in Proc : Busy(p) /\ Busy(q) => p = q
    PROVE  \A p, q \in Proc : Busy(p)' /\ Busy(q)' => p = q
<1>1. ASSUME NEW r \in Proc, MayServe(r) PROVE \A q \in Proc : ~Busy(q)
  <2>. DEFINE B == {q \in Proc : Busy(q)}
  <2>1. SUFFICES ASSUME NEW q \in Proc, Busy(q) PROVE FALSE
    OBVIOUS
  <2>2. B = {q}
    BY <2>1
  <2>3. Cardinality(B) = 1
    BY <2>2, FS_Singleton
  <2>4. Cardinality(B) < 1
    BY <1>1 DEF MayServe
  <2>. QED  BY <2>3, <2>4
<1>2. ASSUME NEW r \in Proc, Begin(r) \/ BeginRelease(r)
      PROVE  \A q \in Proc : Busy(q)' => q = r
  BY <1>1, <1>2, StepOthers DEF Begin, BeginRelease, OthersKept, Stays, Busy
<1>3. ASSUME NEW r \in Proc, Write(r) \/ Step(r) PROVE \A q \in Proc : Busy(q)' => Busy(q)
  <2>1. \A q \in Proc : q # r /\ Busy(q)' => Busy(q)
    BY <1>3, StepOthers DEF OthersKept, Stays, Busy
  <2>2. Write(r) => pc'[r] = pc[r]
    BY DEF Write
  <2>3. Step(r) => Busy(r)
    BY DEF Step, At, Busy, Getattr, Fetch, Lstat, Open, Truncate, Creat, AppendGet, AppendPut, Register,
       DeleteGet, DeletePut, LookupOwner, RemoveEntry, RemoveData, Close, DropCopy, MkdirLocal,
       NewListing, CheckEmpty, RmdirLocal, RemoveListing, Opendir, ReaddirGet, ReaddirScan
  <2>. QED  BY <1>3, <2>1, <2>2, <2>3 DEF Busy
<1>4. ASSUME NEW n \in Node, Mount(n) \/ Crash(n) PROVE \A q \in Proc : Busy(q)' => Busy(q)
  BY <1>4 DEF Mount, Crash, Busy, TypeInv, TypeOK
<1>5. CASE UNCHANGED vars
  BY <1>5 DEF vars, Busy
<1>. QED  BY <1>2, <1>3, <1>4, <1>5 DEF Next

(* The instance that is model-checked: with one handler at a time Sharing is *)
(* all that is asked of the programs, and every undisturbed open gets the    *)
(* latest contents.                                                          *)
THEOREM OneByOneGetsLatest ==
    ASSUME Sharing, MaxInFlight = 1
    PROVE  Spec => [][OpensLatest]_vars
<1>. DEFINE Alone == \A p, q \in Proc : Busy(p) /\ Busy(q) => p = q
<1>1. Init => Alone
  BY DEF Init, Busy
<1>2. TypeInv /\ Alone /\ [Next]_vars => Alone'
  BY OneRuns
<1>3. Spec => []TypeInv
  BY InitTypeInv, NextTypeInv, PTL DEF Spec
<1>4. Alone => OneAtATime
  BY DEF OneAtATime
<1>. QED  BY <1>1, <1>2, <1>3, <1>4, OpensGetLatest, PTL DEF Spec
-----------------------------------------------------------------------------
(***************************************************************************)
(* What single ownership buys, for every instance: addresses are good,     *)
(* only copies are dropped, and no copy goes back to older contents.       *)
(*                                                                         *)
(* The proof is of the rely/guarantee kind.  A step of p keeps Guarantee(p) *)
(* and ProcInv(p); Guarantee(p) is all the other processes need to keep    *)
(* theirs (OthersKeep).                                                    *)
(***************************************************************************)
(* Who may be at a step, from what the programs do.                         *)
LEMMA OwnerNode == ASSUME NEW f \in File PROVE Owner[f] \in Proc /\ Base(f) \in Node
<1>. QED  BY OwnerType, HomeAssumption DEF Base

LEMMA WhoChanges ==
    ASSUME NEW p \in Proc, Called(p), Busy(p),
           call[p].op \in {"write", "create", "truncate", "unlink"}
    PROVE  p = Owner[Target(p)]
<1>1. <<p, call[p].op, call[p].path>> \in Calls
  BY DEF Called
<1>. QED  BY <1>1, OwnerChanges DEF Target

LEMMA WhoIsAtBase ==
    ASSUME NEW p \in Proc, Called(p), Busy(p), call[p].op \in FileOp, Home[p] = Base(Target(p))
    PROVE  p = Owner[Target(p)]
<1>1. <<p, call[p].op, call[p].path>> \in Calls
  BY DEF Called, FileOp
<1>. QED  BY <1>1, OwnerAlone DEF Target, Base

LEMMA WhoClears ==
    ASSUME NEW p \in Proc, Called(p), Busy(p), call[p].op \in {"rmdir", "readdir"}, NEW f \in File
    PROVE  Home[p] # Base(f)
<1>1. <<p, call[p].op, call[p].path>> \in Calls
  BY DEF Called
<1>. QED  BY <1>1, OwnerUndisturbed DEF Base

LEMMA WhoRegisters ==
    ASSUME TypeInv, NEW p \in Proc, ProcInv(p), pc[p] = "register" \/ Creating(p)
    PROVE  Target(p) \in File /\ p = Owner[Target(p)] /\ Home[p] = Base(Target(p))
<1>1. Busy(p)
  BY DEF Busy, Creating
<1>2. call[p].op \in {"create", "release"} /\ Target(p) \in File
  BY <1>1, TargetType DEF OpsAt, Creating, FileOp
<1>3. p = Owner[Target(p)]
  <2>1. CASE call[p].op = "create"
    BY <1>1, <2>1, WhoChanges DEF ProcInv
  <2>2. CASE call[p].op = "release"
    BY <1>1, <2>2 DEF ProcInv, ReleaseOfOwner, Creating
  <2>. QED  BY <1>2, <2>1, <2>2
<1>. QED  BY <1>2, <1>3 DEF Base

LEMMA WhoWrites ==
    ASSUME TypeInv, NEW p \in Proc, ProcInv(p), fd[p] # NoHandle, fd[p].write
    PROVE  fd[p].file \in File /\ p = Owner[fd[p].file] /\ Home[p] = Base(fd[p].file)
<1>. QED  BY DEF ProcInv, HandleOfOwner, Base, TypeInv, TypeOK, Handle

(* The other processes keep their part of the invariant.                    *)
LEMMA OthersKeep ==
    ASSUME TypeInv, TypeInv', OwnerInv, NEW p \in Proc, Guarantee(p),
           NEW q \in Proc, q # p, pc'[q] = pc[q], call'[q] = call[q],
           fd[q] = NoHandle => fd'[q] = NoHandle,
           fd[q] # NoHandle => fd'[q].file = fd[q].file /\ fd'[q].write = fd[q].write
    PROVE  ProcInv(q)'
<1>1. ProcInv(q) /\ Target(q)' = Target(q) /\ Busy(q)' = Busy(q)
  BY DEF OwnerInv, Target, Busy
<1>2. Called(q)'
  BY <1>1 DEF ProcInv, Called
<1>3. HandleOfOwner(q)'
  BY <1>1 DEF ProcInv, HandleOfOwner, Base
<1>4. ReleaseOfOwner(q)'
  BY <1>1 DEF ProcInv, ReleaseOfOwner, Base, Target
<1>5. FolderStays(q)'
  <2>. SUFFICES ASSUME Busy(q), call[q].op \in FileOp, Owner[Target(q)] = q
                PROVE  HasFolder(Home[q], Folder[Target(q)])'
    BY <1>1 DEF FolderStays
  <2>1. Target(q) \in File /\ HasFolder(Home[q], Folder[Target(q)])
    BY <1>1, TargetType DEF ProcInv, FolderStays
  <2>2. Home[q] = Base(Target(q))
    BY DEF Base
  <2>. QED  BY <1>1, <2>1, <2>2 DEF HasFolder, Guarantee
<1>6. UnlinkHasNoWriter(q)'
  BY <1>1 DEF ProcInv, UnlinkHasNoWriter
<1>7. DropsCopy(q)'
  <2>. SUFFICES ASSUME pc[q] = "drop"
                PROVE  fd'[q] = NoHandle /\ addr'[Target(q)] # Home[q]
    BY <1>1 DEF DropsCopy
  <2>1. Target(q) \in File /\ fd[q] = NoHandle /\ addr[Target(q)] # Home[q]
    BY <1>1, TargetType DEF ProcInv, DropsCopy, Busy, OpsAt
  <2>2. call[q].op = "release"
    BY TargetType DEF Busy, OpsAt
  <2>3. Home[q] = Base(Target(q)) => q = Owner[Target(q)]
    BY <1>1, <2>2 DEF ProcInv, ReleaseOfOwner, Busy
  <2>4. Home[q] # NoNode
    BY HomeAssumption, NoneAssumption
  <2>. QED  BY <2>1, <2>3, <2>4 DEF Guarantee
<1>8. RemovesUnregistered(q)'
  <2>. SUFFICES ASSUME pc[q] = "rmdata" PROVE addr'[Target(q)] = NoNode
    BY <1>1 DEF RemovesUnregistered
  <2>1. Busy(q) /\ call[q].op = "unlink" /\ Target(q) \in File
    BY TargetType DEF Busy, OpsAt, FileOp
  <2>2. q = Owner[Target(q)]
    BY <1>1, <2>1, WhoChanges DEF ProcInv
  <2>. QED  BY <1>1, <2>1, <2>2 DEF ProcInv, RemovesUnregistered, Guarantee
<1>9. RegistersData(q)'
  <2>. SUFFICES ASSUME pc[q] = "register" \/ Creating(q)
                PROVE  store'[Home[q]][Target(q)] # 0
    BY <1>1 DEF RegistersData, Creating
  <2>1. Target(q) \in File /\ q = Owner[Target(q)] /\ Home[q] = Base(Target(q))
    BY <1>1, WhoRegisters
  <2>. QED  BY <1>1, <2>1 DEF ProcInv, RegistersData, Guarantee
<1>10. WriterHasData(q)'
  <2>. SUFFICES ASSUME fd[q] # NoHandle, fd[q].write
                PROVE  store'[Home[q]][fd[q].file] # 0
    BY DEF WriterHasData
  <2>1. fd[q].file \in File /\ q = Owner[fd[q].file] /\ Home[q] = Base(fd[q].file)
    BY <1>1, WhoWrites
  <2>. QED  BY <1>1, <2>1 DEF ProcInv, WriterHasData, Guarantee
<1>. QED  BY <1>2, <1>3, <1>4, <1>5, <1>6, <1>7, <1>8, <1>9, <1>10 DEF ProcInv

(* A step of p keeps the whole invariant when it keeps p's part and gives   *)
(* the others their guarantee.                                              *)
Frame(p) ==
    \A q \in Proc \ {p} :
        /\ pc'[q] = pc[q] /\ call'[q] = call[q]
        /\ fd[q] = NoHandle => fd'[q] = NoHandle
        /\ fd[q] # NoHandle => fd'[q].file = fd[q].file /\ fd'[q].write = fd[q].write

OwnAddr(p) == \A f \in File : Owner[f] = p /\ addr'[f] # NoNode => store'[Base(f)][f] # 0

LEMMA StepKeeps ==
    ASSUME TypeInv, TypeInv', OwnerInv, NEW p \in Proc,
           Frame(p), Guarantee(p), ProcInv(p)', OwnAddr(p)
    PROVE  OwnerInv'
<1>1. ASSUME NEW q \in Proc PROVE ProcInv(q)'
  BY OthersKeep DEF Frame
<1>2. ASSUME NEW f \in File PROVE AddrIsBase(f)'
  <2>1. addr'[f] \in {NoNode, Base(f)}
    BY DEF Guarantee, OwnerInv, AddrIsBase
  <2>2. CASE Owner[f] = p
    BY <2>1, <2>2 DEF OwnAddr, AddrIsBase, Base
  <2>3. CASE Owner[f] # p
    BY <2>1, <2>3 DEF Guarantee, OwnerInv, AddrIsBase, Base
  <2>. QED  BY <2>2, <2>3
<1>. QED  BY <1>1, <1>2 DEF OwnerInv

LEMMA GotoFrame ==
    ASSUME TypeInv, NEW p \in Proc, NEW l, Goto(p, l) \/ Return(p), fd' = fd
    PROVE  Frame(p)
<1>. QED  BY DEF Frame, Goto, Return, TypeInv, TypeOK

(* Nothing is lost: contents and folders only come, handles and addresses stay. *)
Gentle == /\ \A n \in Node, f \in File : store[n][f] # 0 => store'[n][f] # 0
          /\ \A f \in File : ldir[Base(f)] \subseteq ldir'[Base(f)]
Quiet  == UNCHANGED <<addr, fd>> /\ Gentle

LEMMA GentleGuarantee ==
    ASSUME Gentle, addr' = addr, OwnerInv, NEW p \in Proc
    PROVE  Guarantee(p) /\ OwnAddr(p)
<1>. QED  BY OwnerNode DEF Gentle, Guarantee, OwnAddr, OwnerInv, AddrIsBase

LEMMA WritersKeep ==
    ASSUME TypeInv, NEW p \in Proc, ProcInv(p), Gentle, fd'[p] = fd[p]
    PROVE  HandleOfOwner(p)' /\ WriterHasData(p)'
<1>1. HandleOfOwner(p)'
  BY DEF ProcInv, HandleOfOwner, Base
<1>2. WriterHasData(p)'
  BY WhoWrites, HomeAssumption DEF ProcInv, WriterHasData, Gentle
<1>. QED  BY <1>1, <1>2

LEMMA ReturnInv ==
    ASSUME TypeInv, NEW p \in Proc, Return(p), HandleOfOwner(p)', WriterHasData(p)'
    PROVE  ProcInv(p)'
<1>1. pc'[p] = "idle"
  BY DEF Return, TypeInv, TypeOK
<1>. QED  BY <1>1 DEF ProcInv, Called, Busy, ReleaseOfOwner, FolderStays,
                      UnlinkHasNoWriter, DropsCopy, RemovesUnregistered, RegistersData, Creating

LEMMA QuietReturn ==
    ASSUME TypeInv, TypeInv', OwnerInv, NEW p \in Proc, Return(p), Quiet
    PROVE  OwnerInv'
<1>1. HandleOfOwner(p)' /\ WriterHasData(p)'
  BY WritersKeep DEF OwnerInv, Quiet
<1>. QED  BY <1>1, ReturnInv, StepKeeps, GotoFrame, GentleGuarantee DEF Quiet

(* The parts of ProcInv(p) that a handler keeps whatever it goes on to.     *)
LEMMA GotoKeeps ==
    ASSUME TypeInv, NEW p \in Proc, ProcInv(p), NEW l, Goto(p, l), Busy(p),
           \A f \in File : ldir[Base(f)] \subseteq ldir'[Base(f)]
    PROVE  Called(p)' /\ FolderStays(p)' /\ Target(p)' = Target(p) /\ pc'[p] = l
<1>1. pc'[p] = l /\ call' = call /\ Target(p)' = Target(p)
  BY DEF Goto, TypeInv, TypeOK, Target
<1>2. Called(p)'
  BY <1>1 DEF ProcInv, Called, Busy
<1>3. FolderStays(p)'
  <2>. SUFFICES ASSUME call[p].op \in FileOp, Owner[Target(p)] = p
                PROVE  HasFolder(Home[p], Folder[Target(p)])'
    BY <1>1 DEF FolderStays
  <2>1. Target(p) \in File /\ HasFolder(Home[p], Folder[Target(p)])
    BY <1>1, TargetType DEF ProcInv, FolderStays
  <2>2. Home[p] = Base(Target(p))
    BY DEF Base
  <2>. QED  BY <1>1, <2>1, <2>2 DEF HasFolder
<1>. QED  BY <1>1, <1>2, <1>3

LEMMA QuietGoto ==
    ASSUME TypeInv, TypeInv', OwnerInv, NEW p \in Proc, NEW l, Busy(p), Goto(p, l), Quiet,
           l \notin {"drop", "rmdata"},
           l = "register" => Creating(p),
           l \in {"app_get", "app_put"} => call[p].op # "create" \/ Creating(p)
    PROVE  OwnerInv'
<1>1. pc'[p] = l /\ call' = call /\ ProcInv(p) /\ Target(p)' = Target(p)
  BY GotoKeeps DEF Goto, OwnerInv, Quiet, Gentle
<1>2. Called(p)' /\ FolderStays(p)' /\ HandleOfOwner(p)' /\ WriterHasData(p)'
  BY <1>1, GotoKeeps, WritersKeep DEF Quiet, Gentle
<1>3. ReleaseOfOwner(p)' /\ UnlinkHasNoWriter(p)'
  BY <1>1 DEF ProcInv, ReleaseOfOwner, UnlinkHasNoWriter, Base, Busy, Creating, Quiet
<1>4. DropsCopy(p)' /\ RemovesUnregistered(p)'
  BY <1>1 DEF DropsCopy, RemovesUnregistered
<1>5. RegistersData(p)'
  <2>. SUFFICES ASSUME Creating(p) PROVE store'[Home[p]][Target(p)] # 0
    BY <1>1 DEF RegistersData, Creating
  <2>. QED  BY <1>1, WhoRegisters, HomeAssumption DEF ProcInv, RegistersData, Quiet, Gentle
<1>6. ProcInv(p)'
  BY <1>2, <1>3, <1>4, <1>5 DEF ProcInv
<1>. QED  BY <1>6, StepKeeps, GotoFrame, GentleGuarantee DEF Quiet

(* The steps that only look something up, or change a listing.              *)
QuietStep(p) ==
    \/ Getattr(p) \/ Lstat(p) \/ AppendGet(p) \/ AppendPut(p) \/ DeleteGet(p) \/ DeletePut(p)
    \/ LookupOwner(p) \/ MkdirLocal(p) \/ NewListing(p) \/ CheckEmpty(p) \/ RemoveListing(p)
    \/ Opendir(p) \/ ReaddirGet(p)

LEMMA QuietSteps ==
    ASSUME TypeInv, TypeInv', OwnerInv, NEW p \in Proc, QuietStep(p)
    PROVE  OwnerInv'
<1>1. Busy(p) /\ call[p].op \in OpsAt(pc[p])
  <2>1. Busy(p)
    BY DEF QuietStep, Getattr, Lstat, AppendGet, AppendPut, DeleteGet, DeletePut, LookupOwner,
           MkdirLocal, NewListing, CheckEmpty, RemoveListing, Opendir, ReaddirGet, At, Busy
  <2>. QED  BY <2>1, TargetType
<1>2. \A f \in File : ldir[Base(f)] \subseteq ldir'[Base(f)]
  BY OwnerNode, HomeAssumption
     DEF QuietStep, Getattr, Lstat, AppendGet, AppendPut, DeleteGet, DeletePut, LookupOwner,
         MkdirLocal, NewListing, CheckEmpty, RemoveListing, Opendir, ReaddirGet, disk, TypeInv, TypeOK
<1>3. Quiet
  BY <1>2 DEF Quiet, Gentle, QuietStep, Getattr, Lstat, AppendGet, AppendPut, DeleteGet, DeletePut,
              LookupOwner, MkdirLocal, NewListing, CheckEmpty, RemoveListing, Opendir, ReaddirGet,
              disk, zht
<1>4. CASE Return(p)
  BY <1>3, <1>4, QuietReturn
<1>5. CASE \E l \in {"fetch", "open", "trunc", "del_get", "del_put", "creat", "oldaddr", "rmkey",
                     "rmaddr", "newlist", "rmtree", "rd_get", "rd_scan"} : Goto(p, l)
  BY <1>1, <1>3, <1>5, QuietGoto
<1>6. CASE Goto(p, "app_get") /\ call[p].op # "create"
  BY <1>1, <1>3, <1>6, QuietGoto
<1>7. CASE Goto(p, "app_put") /\ pc[p] = "app_get"
  BY <1>1, <1>3, <1>7, QuietGoto DEF Creating
<1>8. CASE Goto(p, "register") /\ Creating(p)
  BY <1>1, <1>3, <1>8, QuietGoto
<1>9. CASE Lstat(p)
  BY <1>4, <1>5, <1>9 DEF Lstat
<1>10. CASE CheckEmpty(p)
  BY <1>4, <1>5, <1>10 DEF CheckEmpty
<1>11. CASE NewListing(p)
  BY <1>1, <1>6, <1>11 DEF NewListing, At, OpsAt
<1>12. CASE AppendGet(p)
  BY <1>7, <1>12 DEF AppendGet, At
<1>13. CASE AppendPut(p)
  BY <1>4, <1>8, <1>13 DEF AppendPut, At, Creating
<1>14. CASE DeleteGet(p)
  <2>1. AfterDelete(p) \in {"oldaddr", "rmkey"}
    BY DEF AfterDelete
  <2>. QED  BY <1>5, <1>14, <2>1 DEF DeleteGet
<1>15. CASE DeletePut(p)
  <2>1. AfterDelete(p) \in {"oldaddr", "rmkey"}
    BY DEF AfterDelete
  <2>. QED  BY <1>5, <1>15, <2>1 DEF DeletePut
<1>16. CASE Getattr(p) \/ LookupOwner(p) \/ MkdirLocal(p) \/ Opendir(p) \/ ReaddirGet(p)
  BY <1>5, <1>16 DEF Getattr, LookupOwner, MkdirLocal, Opendir, ReaddirGet
<1>17. CASE RemoveListing(p)
  BY <1>4, <1>17 DEF RemoveListing
<1>. QED  BY <1>9, <1>10, <1>11, <1>12, <1>13, <1>14, <1>15, <1>16, <1>17 DEF QuietStep

(* The steps that write.  What they write is numbered from 1, or fetched    *)
(* from a node that has it.                                                 *)
LEMMA PutIsGentle ==
    ASSUME TypeInv, NEW n \in Node, NEW f \in File, NEW k \in Nat \ {0}, Put(n, f, k),
           \A g \in File : ldir[Base(g)] \subseteq ldir'[Base(g)]
    PROVE  Gentle /\ store'[n][f] # 0
<1>. QED  BY DEF Put, Gentle, TypeInv, TypeOK

LEMMA FetchKeeps ==
    ASSUME TypeInv, TypeInv', OwnerInv, NEW p \in Proc, Fetch(p)
    PROVE  OwnerInv'
<1>1. Busy(p) /\ Target(p) \in File /\ Home[p] \in Node
  BY TargetType, HomeAssumption DEF Fetch, At, Busy, OpsAt, FileOp
<1>2. \A g \in File : ldir[Base(g)] \subseteq ldir'[Base(g)]
  BY <1>1, OwnerNode DEF Fetch, TypeInv, TypeOK
<1>3. CASE Fetches(p)
  <2>1. store[got[p]][Target(p)] \in Nat \ {0}
    BY <1>1, <1>3 DEF Fetches, TypeInv, TypeOK
  <2>. QED  BY <1>1, <1>2, <1>3, <2>1, PutIsGentle, QuietGoto DEF Fetch, Quiet, zht
<1>4. CASE ~Fetches(p)
  <2>1. Quiet
    BY <1>2, <1>4 DEF Fetch, Quiet, Gentle, zht
  <2>. QED  BY <1>1, <2>1, QuietGoto DEF Fetch
<1>. QED  BY <1>3, <1>4

LEMMA TruncateKeeps ==
    ASSUME TypeInv, TypeInv', OwnerInv, NEW p \in Proc, Truncate(p)
    PROVE  OwnerInv'
<1>1. Target(p) \in File /\ Home[p] \in Node
  BY TargetType, HomeAssumption DEF Truncate, At, Busy, OpsAt, FileOp
<1>2. Quiet
  <2>1. clock + 1 \in Nat \ {0}
    BY DEF TypeInv, TypeOK
  <2>2. CASE Present(p)
    BY <1>1, <2>1, <2>2, PutIsGentle DEF Truncate, Quiet, zht
  <2>3. CASE ~Present(p)
    BY <2>3 DEF Truncate, Quiet, Gentle, zht
  <2>. QED  BY <2>2, <2>3
<1>. QED  BY <1>2, QuietReturn DEF Truncate

LEMMA WriteKeeps ==
    ASSUME TypeInv, TypeInv', OwnerInv, NEW p \in Proc, Write(p)
    PROVE  OwnerInv'
<1>1. ProcInv(p) /\ Home[p] \in Node /\ fd[p].file \in File
  BY WhoWrites, HomeAssumption DEF Write, OwnerInv
<1>2. clock + 1 \in Nat \ {0}
  BY DEF TypeInv, TypeOK
<1>3. Quiet
  BY <1>1, <1>2, PutIsGentle DEF Write, Quiet, zht
<1>4. Frame(p)
  BY DEF Write, Frame
<1>5. HandleOfOwner(p)' /\ WriterHasData(p)'
  BY <1>1, <1>3, WritersKeep DEF Quiet
<1>6. ProcInv(p)'
  BY <1>1, <1>5 DEF Write, ProcInv, Called, Busy, ReleaseOfOwner, FolderStays, UnlinkHasNoWriter,
                    DropsCopy, RemovesUnregistered, RegistersData, Creating
<1>. QED  BY <1>3, <1>4, <1>6, StepKeeps, GentleGuarantee DEF Quiet

(* The steps that open and close.                                           *)
LEMMA HandleFrame ==
    ASSUME TypeInv, NEW p \in Proc, NEW l, Goto(p, l) \/ Return(p), NEW h, fd' = [fd EXCEPT ![p] = h]
    PROVE  Frame(p) /\ fd'[p] = h
<1>. QED  BY DEF Frame, Goto, Return, TypeInv, TypeOK

LEMMA NewHandle ==
    ASSUME TypeInv, NEW p \in Proc, ProcInv(p), Busy(p),
           call[p].op \in {"read", "write", "create"},
           fd'[p].file = Target(p), fd'[p].write => call[p].op # "read",
           store'[Home[p]][Target(p)] # 0
    PROVE  HandleOfOwner(p)' /\ WriterHasData(p)'
<1>1. fd'[p].write => p = Owner[Target(p)]
  BY WhoChanges DEF ProcInv
<1>2. Home[p] = Base(Target(p)) => p = Owner[Target(p)]
  BY WhoIsAtBase DEF ProcInv, FileOp
<1>. QED  BY <1>1, <1>2 DEF HandleOfOwner, WriterHasData, Base

LEMMA OpenKeeps ==
    ASSUME TypeInv, TypeInv', OwnerInv, NEW p \in Proc, Open(p)
    PROVE  OwnerInv'
<1>1. /\ Busy(p) /\ Target(p) \in File /\ Home[p] \in Node /\ ProcInv(p)
      /\ call[p].op \in {"read", "write", "create"}
  BY TargetType, HomeAssumption DEF Open, At, Busy, OpsAt, FileOp, OwnerInv
<1>2. Gentle /\ addr' = addr
  BY DEF Open, Gentle, zht, disk
<1>3. CASE Present(p)
  <2>. DEFINE h == [file |-> Target(p), linked |-> TRUE, write |-> call[p].op # "read"]
  <2>1. fd' = [fd EXCEPT ![p] = h] /\ Return(p)
    BY <1>3 DEF Open
  <2>2. Frame(p) /\ fd'[p] = h
    BY <2>1, HandleFrame
  <2>3. HandleOfOwner(p)' /\ WriterHasData(p)'
    <3>1. fd'[p].file = Target(p) /\ (fd'[p].write => call[p].op # "read")
      <4>1. h.file = Target(p)
        OBVIOUS
      <4>2. h.write = (call[p].op # "read")
        OBVIOUS
      <4>3. fd'[p].file = Target(p)
        BY <2>2, <4>1
      <4>4. fd'[p].write = (call[p].op # "read")
        BY <2>2, <4>2
      <4>. QED  BY <4>3, <4>4
    <3>2. store'[Home[p]][Target(p)] # 0
      BY <1>3 DEF Present, Open, disk
    <3>. QED  BY <1>1, <3>1, <3>2, NewHandle
  <2>. QED  BY <1>2, <2>1, <2>2, <2>3, ReturnInv, StepKeeps, GentleGuarantee
<1>4. CASE ~Present(p)
  BY <1>2, <1>4, QuietReturn DEF Open, Quiet
<1>. QED  BY <1>3, <1>4

LEMMA CreatKeeps ==
    ASSUME TypeInv, TypeInv', OwnerInv, NEW p \in Proc, Creat(p)
    PROVE  OwnerInv'
<1>1. /\ Busy(p) /\ Target(p) \in File /\ Home[p] \in Node /\ ProcInv(p)
      /\ call[p].op = "create" /\ Goto(p, "app_get")
  BY TargetType, HomeAssumption DEF Creat, At, Busy, OpsAt, FileOp, OwnerInv
<1>2. HasFolder(Home[p], Folder[Target(p)])
  BY <1>1, WhoChanges DEF ProcInv, FolderStays, FileOp
<1>3. clock + 1 \in Nat \ {0}
  BY DEF TypeInv, TypeOK
<1>4. Gentle /\ store'[Home[p]][Target(p)] # 0 /\ addr' = addr
  BY <1>1, <1>2, <1>3, PutIsGentle DEF Creat, zht
<1>. DEFINE h == [file |-> Target(p), write |-> TRUE, linked |-> TRUE]
<1>5. Frame(p) /\ fd'[p] = h
  BY <1>1, <1>2, HandleFrame DEF Creat
<1>6. HandleOfOwner(p)' /\ WriterHasData(p)'
  BY <1>1, <1>4, <1>5, NewHandle
<1>7. Called(p)' /\ FolderStays(p)' /\ Target(p)' = Target(p) /\ pc'[p] = "app_get" /\ call' = call
  BY <1>1, <1>4, GotoKeeps DEF Gentle, Goto
<1>8. ReleaseOfOwner(p)' /\ UnlinkHasNoWriter(p)' /\ DropsCopy(p)' /\ RemovesUnregistered(p)'
  BY <1>1, <1>7 DEF ReleaseOfOwner, UnlinkHasNoWriter, DropsCopy, RemovesUnregistered
<1>9. RegistersData(p)'
  BY <1>4, <1>7 DEF RegistersData
<1>10. ProcInv(p)'
  BY <1>6, <1>7, <1>8, <1>9 DEF ProcInv
<1>. QED  BY <1>4, <1>5, <1>10, StepKeeps, GentleGuarantee

LEMMA CloseKeeps ==
    ASSUME TypeInv, TypeInv', OwnerInv, NEW p \in Proc, Close(p)
    PROVE  OwnerInv'
<1>1. /\ Busy(p) /\ Target(p) \in File /\ Home[p] \in Node /\ ProcInv(p)
      /\ call[p].op = "release" /\ fd[p] # NoHandle /\ fd[p].file = Target(p)
  BY TargetType, HomeAssumption, NoneAssumption
     DEF Close, At, Busy, OpsAt, FileOp, OwnerInv, TypeInv, Serving, Handle, Target
<1>2. Gentle /\ addr' = addr
  BY DEF Close, Gentle, zht, disk
<1>3. Return(p) \/ \E l \in {"register", "drop"} : Goto(p, l)
  BY DEF Close
<1>4. Frame(p) /\ fd'[p] = NoHandle
  BY <1>3, HandleFrame DEF Close
<1>5. HandleOfOwner(p)' /\ WriterHasData(p)'
  BY <1>4 DEF HandleOfOwner, WriterHasData
<1>6. CASE Return(p)
  BY <1>2, <1>4, <1>5, <1>6, ReturnInv, StepKeeps, GentleGuarantee
<1>7. ASSUME NEW l \in {"register", "drop"}, Goto(p, l), addr[Target(p)] # Home[p],
             l = "register" => fd[p].write
      PROVE  OwnerInv'
  <2>1. Called(p)' /\ FolderStays(p)' /\ Target(p)' = Target(p) /\ pc'[p] = l /\ call' = call
    BY <1>1, <1>2, <1>7, GotoKeeps DEF Gentle, Goto
  <2>2. ReleaseOfOwner(p)'
    BY <1>1, <1>7, <2>1 DEF ProcInv, HandleOfOwner, ReleaseOfOwner, Base
  <2>3. UnlinkHasNoWriter(p)' /\ RemovesUnregistered(p)' /\ DropsCopy(p)'
    BY <1>1, <1>2, <1>4, <1>7, <2>1 DEF UnlinkHasNoWriter, RemovesUnregistered, DropsCopy
  <2>4. RegistersData(p)'
    <3>1. fd[p].write => store[Home[p]][Target(p)] # 0
      BY <1>1 DEF ProcInv, WriterHasData
    <3>. QED  BY <1>1, <1>2, <1>7, <2>1, <3>1 DEF RegistersData, Creating, Gentle
  <2>5. ProcInv(p)'
    BY <1>5, <2>1, <2>2, <2>3, <2>4 DEF ProcInv
  <2>. QED  BY <1>2, <1>4, <2>5, StepKeeps, GentleGuarantee
<1>8. CASE ~Return(p)
  BY <1>7, <1>8 DEF Close
<1>. QED  BY <1>6, <1>8

(* The steps that remove.  An open handle of a removed file stays open.     *)
LEMMA RemoveHandles ==
    ASSUME TypeInv, NEW n \in Node, NEW gone, RemoveFiles(n, gone), NEW q \in Proc
    PROVE  /\ fd[q] = NoHandle => fd'[q] = NoHandle
           /\ fd[q] # NoHandle => /\ fd'[q] # NoHandle
                                  /\ fd'[q].file = fd[q].file /\ fd'[q].write = fd[q].write
<1>1. fd'[q] = Unlinked(n, gone)[q]
  BY DEF RemoveFiles
<1>2. CASE fd[q] = NoHandle
  BY <1>1, <1>2 DEF Unlinked
<1>3. CASE fd[q] # NoHandle
  <2>1. fd[q] \in Handle
    BY <1>3 DEF TypeInv, TypeOK
  <2>2. Unlinked(n, gone)[q] \in Handle
    BY <2>1, UnlinkedFile DEF TypeInv
  <2>3. fd'[q] # NoHandle
    BY <1>1, <2>2, NoneAssumption DEF Handle
  <2>4. fd'[q].file = fd[q].file /\ fd'[q].write = fd[q].write
    BY <1>1, <1>3, <2>1 DEF Unlinked, Handle
  <2>. QED  BY <1>3, <2>3, <2>4
<1>. QED  BY <1>2, <1>3

LEMMA RemoveFrame ==
    ASSUME TypeInv, NEW p \in Proc, NEW l, Goto(p, l) \/ Return(p),
           NEW n \in Node, NEW gone, RemoveFiles(n, gone)
    PROVE  Frame(p)
<1>1. ASSUME NEW q \in Proc \ {p} PROVE pc'[q] = pc[q] /\ call'[q] = call[q]
  BY DEF Goto, Return, TypeInv, TypeOK
<1>. QED  BY <1>1, RemoveHandles DEF Frame

LEMMA RemovedContents ==
    ASSUME TypeInv, NEW n \in Node, NEW gone, RemoveFiles(n, gone), NEW m \in Node, NEW f \in File
    PROVE  store'[m][f] = IF m = n /\ f \in gone THEN 0 ELSE store[m][f]
<1>. QED  BY DEF RemoveFiles, TypeInv, TypeOK

LEMMA RemoveEntryKeeps ==
    ASSUME TypeInv, TypeInv', OwnerInv, NEW p \in Proc, RemoveEntry(p)
    PROVE  OwnerInv'
<1>1. /\ Busy(p) /\ Target(p) \in File /\ ProcInv(p) /\ call[p].op = "unlink"
  BY TargetType DEF RemoveEntry, At, Busy, OpsAt, FileOp, OwnerInv
<1>2. p = Owner[Target(p)]
  BY <1>1, WhoChanges DEF ProcInv
<1>3. Gentle /\ fd' = fd
  BY DEF RemoveEntry, Gentle, disk
<1>4. Guarantee(p) /\ OwnAddr(p)
  BY <1>2, <1>3 DEF RemoveEntry, Guarantee, OwnAddr, OwnerInv, AddrIsBase, TypeInv, TypeOK, disk
<1>5. Called(p)' /\ FolderStays(p)' /\ Target(p)' = Target(p) /\ pc'[p] = "rmdata" /\ call' = call
  BY <1>1, <1>3, GotoKeeps DEF RemoveEntry, Gentle, Goto
<1>6. HandleOfOwner(p)' /\ WriterHasData(p)'
  BY <1>1, <1>3, WritersKeep
<1>7. RemovesUnregistered(p)'
  BY <1>1, <1>5 DEF RemoveEntry, RemovesUnregistered, TypeInv, TypeOK
<1>8. ReleaseOfOwner(p)' /\ UnlinkHasNoWriter(p)' /\ DropsCopy(p)' /\ RegistersData(p)'
  BY <1>1, <1>3, <1>5 DEF ProcInv, ReleaseOfOwner, UnlinkHasNoWriter, DropsCopy, RegistersData, Creating
<1>9. ProcInv(p)'
  BY <1>5, <1>6, <1>7, <1>8 DEF ProcInv
<1>. QED  BY <1>3, <1>4, <1>9, GotoFrame, StepKeeps DEF RemoveEntry

LEMMA RemoveDataKeeps ==
    ASSUME TypeInv, TypeInv', OwnerInv, NEW p \in Proc, RemoveData(p)
    PROVE  OwnerInv'
<1>1. CASE got[p] = NoNode
  BY <1>1, QuietReturn DEF RemoveData, Quiet, Gentle, zht
<1>2. CASE got[p] # NoNode
  <2>1. /\ Busy(p) /\ Target(p) \in File /\ ProcInv(p) /\ call[p].op = "unlink"
        /\ pc[p] = "rmdata" /\ Return(p)
    BY TargetType DEF RemoveData, At, Busy, OpsAt, FileOp, OwnerInv
  <2>2. p = Owner[Target(p)]
    BY <2>1, WhoChanges DEF ProcInv
  <2>3. got[p] \in Node /\ RemoveFiles(got[p], {Target(p)})
    BY <1>2 DEF RemoveData, TypeInv, TypeOK
  <2>4. \A m \in Node, f \in File : f # Target(p) => store'[m][f] = store[m][f]
    BY <2>3, RemovedContents
  <2>5. addr' = addr /\ ldir' = ldir
    BY DEF RemoveData, zht
  <2>6. Guarantee(p)
    BY <2>2, <2>4, <2>5, OwnerNode DEF Guarantee
  <2>7. OwnAddr(p)
    BY <2>1, <2>4, <2>5, OwnerNode DEF OwnAddr, OwnerInv, AddrIsBase, ProcInv, RemovesUnregistered
  <2>8. HandleOfOwner(p)'
    BY <2>1, <2>3, RemoveHandles DEF HandleOfOwner, ProcInv, Base
  <2>9. WriterHasData(p)'
    <3>. SUFFICES ASSUME fd'[p] # NoHandle, fd'[p].write
                  PROVE  store'[Home[p]][fd'[p].file] # 0
      BY DEF WriterHasData
    <3>1. fd[p] # NoHandle /\ fd[p].write /\ fd'[p].file = fd[p].file
      BY <2>3, RemoveHandles
    <3>2. fd[p].file \in File /\ fd[p].file # Target(p) /\ store[Home[p]][fd[p].file] # 0
      BY <2>1, <3>1, WhoWrites DEF ProcInv, UnlinkHasNoWriter, WriterHasData
    <3>. QED  BY <2>4, <3>1, <3>2, HomeAssumption
  <2>10. Frame(p)
    BY <2>1, <2>3, RemoveFrame
  <2>. QED  BY <2>1, <2>6, <2>7, <2>8, <2>9, <2>10, ReturnInv, StepKeeps
<1>. QED  BY <1>1, <1>2

LEMMA DropCopyKeeps ==
    ASSUME TypeInv, TypeInv', OwnerInv, NEW p \in Proc, DropCopy(p)
    PROVE  OwnerInv'
<1>1. /\ Busy(p) /\ Target(p) \in File /\ Home[p] \in Node /\ ProcInv(p)
      /\ call[p].op = "release" /\ pc[p] = "drop" /\ Return(p)
  BY TargetType, HomeAssumption DEF DropCopy, At, Busy, OpsAt, FileOp, OwnerInv
<1>2. RemoveFiles(Home[p], {Target(p)}) /\ addr' = addr /\ ldir' = ldir
  BY DEF DropCopy, zht
<1>3. Home[p] = Base(Target(p)) => p = Owner[Target(p)] /\ addr[Target(p)] = NoNode
  BY <1>1 DEF ProcInv, ReleaseOfOwner, DropsCopy, OwnerInv, AddrIsBase
<1>4. \A f \in File : store'[Base(f)][f] = store[Base(f)][f] \/ (f = Target(p) /\ Base(f) = Home[p])
  BY <1>1, <1>2, OwnerNode, RemovedContents
<1>5. Guarantee(p)
  BY <1>2, <1>3, <1>4 DEF Guarantee
<1>6. OwnAddr(p)
  BY <1>2, <1>3, <1>4 DEF OwnAddr, OwnerInv, AddrIsBase
<1>7. fd'[p] = NoHandle
  BY <1>1, <1>2, RemoveHandles DEF ProcInv, DropsCopy
<1>8. HandleOfOwner(p)' /\ WriterHasData(p)'
  BY <1>7 DEF HandleOfOwner, WriterHasData
<1>9. Frame(p)
  BY <1>1, <1>2, RemoveFrame
<1>. QED  BY <1>1, <1>5, <1>6, <1>8, <1>9, ReturnInv, StepKeeps

LEMMA RegisterKeeps ==
    ASSUME TypeInv, TypeInv', OwnerInv, NEW p \in Proc, Register(p)
    PROVE  OwnerInv'
<1>1. pc[p] = "register" /\ ProcInv(p) /\ Return(p)
  BY DEF Register, At, OwnerInv
<1>2. Target(p) \in File /\ p = Owner[Target(p)] /\ Home[p] = Base(Target(p))
  BY <1>1, WhoRegisters
<1>3. store[Home[p]][Target(p)] # 0
  BY <1>1 DEF ProcInv, RegistersData
<1>4. Gentle /\ fd' = fd
  BY DEF Register, Gentle, disk
<1>5. Guarantee(p)
  BY <1>2 DEF Register, Guarantee, disk, TypeInv, TypeOK
<1>6. OwnAddr(p)
  BY <1>2, <1>3 DEF Register, OwnAddr, disk, TypeInv, TypeOK, OwnerInv, AddrIsBase
<1>7. HandleOfOwner(p)' /\ WriterHasData(p)'
  BY <1>1, <1>4, WritersKeep
<1>. QED  BY <1>1, <1>4, <1>5, <1>6, <1>7, ReturnInv, GotoFrame, StepKeeps

(* A tree is removed only where nobody owns a file.                         *)
LEMMA ClearedElsewhere ==
    ASSUME TypeInv, OwnerInv, NEW p \in Proc, Busy(p), call[p].op \in {"rmdir", "readdir"},
           NEW S, RemoveTree(Home[p], S), addr' = addr
    PROVE  /\ Guarantee(p) /\ OwnAddr(p) /\ HandleOfOwner(p)' /\ WriterHasData(p)'
           /\ \A f \in File : ldir[Base(f)] \subseteq ldir'[Base(f)]
<1>1. Home[p] \in Node /\ RemoveFiles(Home[p], FilesUnder(S)) /\ ProcInv(p)
  BY HomeAssumption DEF RemoveTree, OwnerInv
<1>2. \A f \in File : Home[p] # Base(f)
  BY <1>1, WhoClears DEF ProcInv
<1>3. \A f \in File : store'[Base(f)][f] = store[Base(f)][f] /\ ldir'[Base(f)] = ldir[Base(f)]
  BY <1>1, <1>2, OwnerNode, RemovedContents DEF RemoveTree, TypeInv, TypeOK
<1>4. Guarantee(p) /\ OwnAddr(p)
  BY <1>3 DEF Guarantee, OwnAddr, OwnerInv, AddrIsBase
<1>5. HandleOfOwner(p)' /\ WriterHasData(p)'
  BY <1>1, <1>2, RemoveHandles, WhoWrites DEF HandleOfOwner, ProcInv, WriterHasData, Base
<1>. QED  BY <1>3, <1>4, <1>5

LEMMA RmdirLocalKeeps ==
    ASSUME TypeInv, TypeInv', OwnerInv, NEW p \in Proc, RmdirLocal(p)
    PROVE  OwnerInv'
<1>1. /\ Busy(p) /\ ProcInv(p) /\ call[p].op = "rmdir" /\ Goto(p, "del_get")
      /\ RemoveTree(Home[p], {Target(p)}) /\ addr' = addr
  BY TargetType DEF RmdirLocal, At, Busy, OpsAt, OwnerInv, zht
<1>2. /\ Guarantee(p) /\ OwnAddr(p) /\ HandleOfOwner(p)' /\ WriterHasData(p)'
      /\ \A f \in File : ldir[Base(f)] \subseteq ldir'[Base(f)]
  BY <1>1, ClearedElsewhere
<1>3. Called(p)' /\ FolderStays(p)' /\ Target(p)' = Target(p) /\ pc'[p] = "del_get" /\ call' = call
  BY <1>1, <1>2, GotoKeeps DEF Goto
<1>4. /\ ReleaseOfOwner(p)' /\ UnlinkHasNoWriter(p)' /\ DropsCopy(p)' /\ RemovesUnregistered(p)'
      /\ RegistersData(p)'
  BY <1>1, <1>3 DEF ReleaseOfOwner, UnlinkHasNoWriter, DropsCopy, RemovesUnregistered,
                    RegistersData, Creating
<1>5. ProcInv(p)'
  BY <1>2, <1>3, <1>4 DEF ProcInv
<1>6. Frame(p)
  BY <1>1, RemoveFrame, HomeAssumption DEF RemoveTree
<1>. QED  BY <1>2, <1>5, <1>6, StepKeeps

LEMMA ReaddirScanKeeps ==
    ASSUME TypeInv, TypeInv', OwnerInv, NEW p \in Proc, ReaddirScan(p)
    PROVE  OwnerInv'
<1>1. Busy(p) /\ ProcInv(p) /\ call[p].op = "readdir" /\ Return(p) /\ addr' = addr
  BY TargetType DEF ReaddirScan, At, Busy, OpsAt, OwnerInv, zht
<1>2. CASE old[p] = EmptyList
  <2>1. RemoveTree(Home[p], Glob(Target(p)))
    BY <1>2 DEF ReaddirScan
  <2>2. Guarantee(p) /\ OwnAddr(p) /\ HandleOfOwner(p)' /\ WriterHasData(p)'
    BY <1>1, <2>1, ClearedElsewhere
  <2>3. Frame(p)
    BY <1>1, <2>1, RemoveFrame, HomeAssumption DEF RemoveTree
  <2>. QED  BY <1>1, <2>2, <2>3, ReturnInv, StepKeeps
<1>3. CASE old[p] # EmptyList
  <2>1. /\ store' = store /\ fd' = fd
        /\ ldir' = [ldir EXCEPT ![Home[p]] = @ \union (Named(old[p]) \intersect Dir)]
    BY <1>3 DEF ReaddirScan
  <2>2. \A n \in Node : ldir[n] \subseteq ldir'[n]
    BY <2>1 DEF TypeInv, TypeOK
  <2>3. Quiet
    BY <1>1, <2>1, <2>2, OwnerNode DEF Quiet, Gentle
  <2>. QED  BY <1>1, <2>3, QuietReturn
<1>. QED  BY <1>2, <1>3

LEMMA StepOfHandler ==
    ASSUME TypeInv, TypeInv', OwnerInv, NEW p \in Proc, Step(p)
    PROVE  OwnerInv'
<1>1. CASE QuietStep(p)
  BY <1>1, QuietSteps
<1>2. CASE Fetch(p) \/ Truncate(p) \/ Open(p) \/ Creat(p) \/ Register(p) \/ Close(p)
  BY <1>2, FetchKeeps, TruncateKeeps, OpenKeeps, CreatKeeps, RegisterKeeps, CloseKeeps
<1>3. CASE RemoveEntry(p) \/ RemoveData(p) \/ DropCopy(p) \/ RmdirLocal(p) \/ ReaddirScan(p)
  BY <1>3, RemoveEntryKeeps, RemoveDataKeeps, DropCopyKeeps, RmdirLocalKeeps, ReaddirScanKeeps
<1>. QED  BY <1>1, <1>2, <1>3 DEF Step, QuietStep

(* The steps that begin a handler, and those of the nodes.                  *)
LEMMA BeginKeeps ==
    ASSUME TypeInv, TypeInv', OwnerInv, NEW p \in Proc, Begin(p)
    PROVE  OwnerInv'
<1>1. PICK c \in Calls : /\ c[1] = p /\ Permitted(p, c[2], c[3])
                         /\ call' = [call EXCEPT ![p] = [op |-> c[2], path |-> c[3]]]
                         /\ pc' = [pc EXCEPT ![p] = Entry(c[2])]
  BY DEF Begin
<1>2. UNCHANGED <<addr, list, store, ldir, clock, fd>>
  BY DEF Begin, zht, disk
<1>3. c \in Proc \X Op \X Path /\ <<p, c[2], c[3]>> \in Calls /\ (c[2] \in FileOp => c[3] \in File)
  <2>1. c \in Proc \X Op \X Path /\ (c[2] \in FileOp => c[3] \in File)
    BY CallsAssumption
  <2>2. c = <<c[1], c[2], c[3]>>
    BY <2>1
  <2>. QED  BY <1>1, <2>1, <2>2
<1>4. pc'[p] = Entry(c[2]) /\ call'[p].op = c[2] /\ call'[p].path = c[3] /\ Target(p)' = c[3]
  BY <1>1 DEF TypeInv, TypeOK, Target
<1>5. Entry(c[2]) \in {"getattr", "mkdir", "rmcheck", "opendir"} /\ c[2] # "release"
  BY <1>3 DEF Entry, Op
<1>6. Quiet /\ Frame(p)
  BY <1>1, <1>2 DEF Quiet, Gentle, Frame, TypeInv, TypeOK
<1>7. HandleOfOwner(p)' /\ WriterHasData(p)'
  BY <1>6, WritersKeep DEF Quiet, OwnerInv
<1>8. Called(p)' /\ ReleaseOfOwner(p)'
  BY <1>3, <1>4, <1>5 DEF Called, ReleaseOfOwner
<1>9. FolderStays(p)'
  BY <1>1, <1>2, <1>4 DEF FolderStays, Permitted, HasFolder
<1>10. UnlinkHasNoWriter(p)'
  BY <1>1, <1>2, <1>4, OwnerCloses DEF UnlinkHasNoWriter, Permitted, OpenForWriting
<1>11. DropsCopy(p)' /\ RemovesUnregistered(p)' /\ RegistersData(p)'
  BY <1>4, <1>5 DEF DropsCopy, RemovesUnregistered, RegistersData, Creating
<1>12. ProcInv(p)'
  BY <1>7, <1>8, <1>9, <1>10, <1>11 DEF ProcInv
<1>. QED  BY <1>6, <1>12, StepKeeps, GentleGuarantee DEF Quiet

LEMMA BeginReleaseKeeps ==
    ASSUME TypeInv, TypeInv', OwnerInv, NEW p \in Proc, BeginRelease(p)
    PROVE  OwnerInv'
<1>1. UNCHANGED <<addr, list, store, ldir, clock, fd>> /\ fd[p] # NoHandle
  BY DEF BeginRelease, zht, disk
<1>2. pc'[p] = "close" /\ call'[p].op = "release" /\ Target(p)' = fd[p].file
  BY DEF BeginRelease, TypeInv, TypeOK, Target
<1>3. Quiet /\ Frame(p)
  BY <1>1 DEF BeginRelease, Quiet, Gentle, Frame, TypeInv, TypeOK
<1>4. HandleOfOwner(p)' /\ WriterHasData(p)'
  BY <1>3, WritersKeep DEF Quiet, OwnerInv
<1>5. ReleaseOfOwner(p)'
  BY <1>1, <1>2 DEF ReleaseOfOwner, OwnerInv, ProcInv, HandleOfOwner, Base
<1>6. Called(p)' /\ FolderStays(p)' /\ UnlinkHasNoWriter(p)'
  BY <1>2 DEF Called, FolderStays, FileOp, UnlinkHasNoWriter
<1>7. DropsCopy(p)' /\ RemovesUnregistered(p)' /\ RegistersData(p)'
  BY <1>2 DEF DropsCopy, RemovesUnregistered, RegistersData, Creating
<1>8. ProcInv(p)'
  BY <1>4, <1>5, <1>6, <1>7 DEF ProcInv
<1>. QED  BY <1>3, <1>8, StepKeeps, GentleGuarantee DEF Quiet

LEMMA MountKeeps == ASSUME OwnerInv, NEW n \in Node, Mount(n) PROVE OwnerInv'
<1>1. UNCHANGED <<addr, disk, fd, pc, call>>
  BY DEF Mount
<1>2. ASSUME NEW p \in Proc PROVE ProcInv(p)'
  <2>1. ProcInv(p)
    BY DEF OwnerInv
  <2>. QED  BY <1>1, <2>1 DEF ProcInv, Called, Busy, HandleOfOwner, ReleaseOfOwner, FolderStays,
              HasFolder, UnlinkHasNoWriter, DropsCopy, RemovesUnregistered, RegistersData,
              Creating, WriterHasData, Target, Base, disk
<1>3. ASSUME NEW f \in File PROVE AddrIsBase(f)'
  BY <1>1 DEF OwnerInv, AddrIsBase, Base, disk
<1>. QED  BY <1>2, <1>3 DEF OwnerInv

LEMMA CrashKeeps == ASSUME TypeInv, OwnerInv, NEW n \in Node, Crash(n) PROVE OwnerInv'
<1>1. UNCHANGED <<addr, list, store, ldir, clock>>
  BY DEF Crash, zht, disk
<1>2. ASSUME NEW p \in Proc PROVE ProcInv(p)'
  <2>1. CASE Home[p] = n
    <3>1. fd'[p] = NoHandle /\ pc'[p] = "idle"
      BY <2>1 DEF Crash
    <3>. QED  BY <3>1 DEF ProcInv, Called, Busy, HandleOfOwner, ReleaseOfOwner, FolderStays,
                UnlinkHasNoWriter, DropsCopy, RemovesUnregistered, RegistersData, Creating, WriterHasData
  <2>2. CASE Home[p] # n
    <3>1. fd'[p] = fd[p] /\ pc'[p] = pc[p] /\ call'[p] = call[p] /\ ProcInv(p)
      BY <2>2 DEF Crash, OwnerInv
    <3>. QED  BY <1>1, <3>1 DEF ProcInv, Called, Busy, HandleOfOwner, ReleaseOfOwner, FolderStays,
                HasFolder, UnlinkHasNoWriter, DropsCopy, RemovesUnregistered, RegistersData,
                Creating, WriterHasData, Target, Base
  <2>. QED  BY <2>1, <2>2
<1>3. ASSUME NEW f \in File PROVE AddrIsBase(f)'
  BY <1>1 DEF OwnerInv, AddrIsBase, Base
<1>. QED  BY <1>2, <1>3 DEF OwnerInv

LEMMA InitOwnerInv == Init => OwnerInv
<1>. QED  BY OwnerNode DEF Init, OwnerInv, ProcInv, Called, Busy, HandleOfOwner, ReleaseOfOwner,
       FolderStays, UnlinkHasNoWriter, DropsCopy, RemovesUnregistered, RegistersData, Creating,
       WriterHasData, AddrIsBase

LEMMA NextOwnerInv == TypeInv /\ OwnerInv /\ [Next]_vars => OwnerInv'
<1>. SUFFICES ASSUME TypeInv, OwnerInv, [Next]_vars PROVE OwnerInv'
  OBVIOUS
<1>1. TypeInv'
  BY NextTypeInv
<1>2. ASSUME NEW n \in Node, Mount(n) \/ Crash(n) PROVE OwnerInv'
  BY <1>2, MountKeeps, CrashKeeps
<1>3. ASSUME NEW p \in Proc, Begin(p) \/ Write(p) \/ BeginRelease(p) \/ Step(p) PROVE OwnerInv'
  BY <1>1, <1>3, BeginKeeps, WriteKeeps, BeginReleaseKeeps, StepOfHandler
<1>4. CASE UNCHANGED vars
  <2>1. UNCHANGED <<addr, store, ldir, fd, pc, call>>
    BY <1>4 DEF vars, zht, disk
  <2>2. ASSUME NEW p \in Proc PROVE ProcInv(p)'
    <3>1. ProcInv(p)
      BY DEF OwnerInv
    <3>. QED  BY <2>1, <3>1 DEF ProcInv, Called, Busy, HandleOfOwner, ReleaseOfOwner, FolderStays,
                HasFolder, UnlinkHasNoWriter, DropsCopy, RemovesUnregistered, RegistersData,
                Creating, WriterHasData, Target, Base
  <2>3. ASSUME NEW f \in File PROVE AddrIsBase(f)'
    BY <2>1 DEF OwnerInv, AddrIsBase, Base
  <2>. QED  BY <2>2, <2>3 DEF OwnerInv
<1>. QED  BY <1>2, <1>3, <1>4 DEF Next

LEMMA OwnerInvHolds == Spec => [](TypeInv /\ OwnerInv)
<1>. QED  BY InitTypeInv, NextTypeInv, InitOwnerInv, NextOwnerInv, PTL DEF Spec
-----------------------------------------------------------------------------
(* A registered address is good: unlink takes the key before the data, and  *)
(* nobody but the owner changes either.                                     *)
THEOREM AddressesAreGood == Spec => []OwnerHoldsData
<1>1. OwnerInv => OwnerHoldsData
  BY DEF OwnerInv, AddrIsBase, OwnerHoldsData
<1>. QED  BY <1>1, OwnerInvHolds, PTL

(* The read-only close of fusion_release never removes the primary copy.    *)
THEOREM OnlyCopiesAreDropped == Spec => []DropsOnlyCopies
<1>1. OwnerInv => DropsOnlyCopies
  BY DEF OwnerInv, ProcInv, DropsCopy, DropsOnlyCopies
<1>. QED  BY <1>1, OwnerInvHolds, PTL
-----------------------------------------------------------------------------
(* Every step is one of PrimaryCopy's, or changes nothing there.            *)
Idle == UNCHANGED <<addr, store, clock>>

LEMMA IdlePC == Idle => UNCHANGED PC!pcvars
<1>. QED  BY DEF Idle, PC!pcvars

LEMMA WritePC ==
    ASSUME NEW f \in File, clock' = clock + 1, Put(Base(f), f, clock + 1), addr' = addr
    PROVE  PC!Next
<1>1. PC!Write(f)
  BY DEF PC!Write, Put
<1>. QED  BY <1>1 DEF PC!Next

LEMMA RegisterPC ==
    ASSUME NEW f \in File, NEW n, n # NoNode, store[Base(f)][f] # 0, addr \in [File -> Node \union {NoNode}],
           addr' = [addr EXCEPT ![f] = n], store' = store, clock' = clock
    PROVE  PC!Next
<1>1. {g \in File : addr'[g] # NoNode} = {g \in File : addr[g] # NoNode} \union {f}
  OBVIOUS
<1>2. PC!Register(f)
  BY <1>1 DEF PC!Register
<1>. QED  BY <1>2 DEF PC!Next

LEMMA UnregisterPC ==
    ASSUME NEW f \in File, addr \in [File -> Node \union {NoNode}],
           addr' = [addr EXCEPT ![f] = NoNode], store' = store, clock' = clock
    PROVE  PC!Next
<1>1. {g \in File : addr'[g] # NoNode} = {g \in File : addr[g] # NoNode} \ {f}
  OBVIOUS
<1>2. PC!Unregister(f)
  BY <1>1 DEF PC!Unregister
<1>. QED  BY <1>2 DEF PC!Next

LEMMA CopyPC ==
    ASSUME NEW n \in Node, NEW f \in File, store[Base(f)][f] # 0, Put(n, f, store[Base(f)][f]),
           clock' = clock, addr' = addr
    PROVE  PC!Next
<1>1. PC!Copy(n, f)
  BY DEF PC!Copy, Put
<1>. QED  BY <1>1 DEF PC!Next

LEMMA RemovePC ==
    ASSUME NEW n \in Node, NEW S, RemoveFiles(n, S), clock' = clock, addr' = addr,
           \A f \in File : f \in S /\ Base(f) = n => addr[f] = NoNode
    PROVE  PC!Next
<1>. DEFINE T == S \intersect File
<1>1. PC!Remove(n, T)
  <2>1. \A f \in File : f \in T <=> f \in S
    OBVIOUS
  <2>2. [f \in File |-> IF f \in T THEN 0 ELSE store[n][f]]
        = [f \in File |-> IF f \in S THEN 0 ELSE store[n][f]]
    BY <2>1
  <2>3. store' = [store EXCEPT ![n] = [f \in File |-> IF f \in T THEN 0 ELSE store[n][f]]]
    BY <2>2 DEF RemoveFiles
  <2>. QED  BY <2>3 DEF PC!Remove
<1>2. T \in SUBSET File
  OBVIOUS
<1>. QED  BY <1>1, <1>2 DEF PC!Next

LEMMA StepPC ==
    ASSUME TypeInv, OwnerInv, FetchesFromBase, NEW p \in Proc, Step(p)
    PROVE  [PC!Next]_(PC!pcvars)
<1>1. CASE QuietStep(p)
  BY <1>1, IdlePC DEF Idle, QuietStep, Getattr, Lstat, AppendGet, AppendPut, DeleteGet, DeletePut,
       LookupOwner, MkdirLocal, NewListing, CheckEmpty, RemoveListing, Opendir, ReaddirGet, zht, disk
<1>2. CASE Open(p) \/ Close(p)
  BY <1>2, IdlePC DEF Idle, Open, Close, zht, disk
<1>3. CASE Fetch(p)
  <2>1. Target(p) \in File /\ Home[p] \in Node /\ pc[p] = "fetch"
    BY <1>3, TargetType, HomeAssumption DEF Fetch, At, Busy, OpsAt, FileOp
  <2>2. CASE Fetches(p)
    <3>1. got[p] = Base(Target(p)) /\ store[Base(Target(p))][Target(p)] # 0
      BY <2>1, <2>2 DEF Fetches, FetchesFromBase
    <3>. QED  BY <1>3, <2>1, <2>2, <3>1, CopyPC DEF Fetch, zht
  <2>3. CASE ~Fetches(p)
    BY <1>3, <2>3, IdlePC DEF Idle, Fetch, zht
  <2>. QED  BY <2>2, <2>3
<1>4. CASE Truncate(p)
  <2>1. /\ Busy(p) /\ Target(p) \in File /\ ProcInv(p) /\ call[p].op = "truncate"
    BY <1>4, TargetType DEF Truncate, At, Busy, OpsAt, FileOp, OwnerInv
  <2>2. Home[p] = Base(Target(p))
    BY <2>1, WhoChanges DEF ProcInv, Base
  <2>. QED  BY <1>4, <2>1, <2>2, WritePC, IdlePC DEF Truncate, Idle, zht
<1>5. CASE Creat(p)
  <2>1. /\ Busy(p) /\ Target(p) \in File /\ ProcInv(p) /\ call[p].op = "create"
    BY <1>5, TargetType DEF Creat, At, Busy, OpsAt, FileOp, OwnerInv
  <2>2. Home[p] = Base(Target(p))
    BY <2>1, WhoChanges DEF ProcInv, Base
  <2>. QED  BY <1>5, <2>1, <2>2, WritePC, IdlePC DEF Creat, Idle, zht
<1>6. CASE Register(p)
  <2>1. pc[p] = "register" /\ ProcInv(p) /\ Home[p] \in Node
    BY <1>6, HomeAssumption DEF Register, At, OwnerInv
  <2>2. Target(p) \in File /\ Home[p] = Base(Target(p)) /\ store[Home[p]][Target(p)] # 0
    BY <2>1, WhoRegisters DEF ProcInv, RegistersData
  <2>3. Home[p] # NoNode
    BY <2>1, NoneAssumption
  <2>. QED  BY <1>6, <2>2, <2>3, RegisterPC DEF Register, disk, TypeInv, TypeOK
<1>7. CASE RemoveEntry(p)
  <2>1. Target(p) \in File
    BY <1>7, TargetType DEF RemoveEntry, At, Busy, OpsAt, FileOp
  <2>. QED  BY <1>7, <2>1, UnregisterPC DEF RemoveEntry, disk, TypeInv, TypeOK
<1>8. CASE RemoveData(p)
  <2>1. addr[Target(p)] = NoNode
    BY <1>8 DEF RemoveData, At, OwnerInv, ProcInv, RemovesUnregistered
  <2>2. CASE got[p] = NoNode
    BY <1>8, <2>2, IdlePC DEF Idle, RemoveData, zht
  <2>3. CASE got[p] # NoNode
    <3>1. got[p] \in Node /\ RemoveFiles(got[p], {Target(p)})
      BY <1>8, <2>3 DEF RemoveData, TypeInv, TypeOK
    <3>. QED  BY <1>8, <2>1, <3>1, RemovePC DEF RemoveData, zht
  <2>. QED  BY <2>2, <2>3
<1>9. CASE DropCopy(p)
  <2>1. Target(p) \in File /\ Home[p] \in Node
    BY <1>9, TargetType, HomeAssumption DEF DropCopy, At, Busy, OpsAt
  <2>2. addr[Target(p)] # Home[p] /\ addr[Target(p)] \in {NoNode, Base(Target(p))}
    BY <1>9, <2>1 DEF DropCopy, At, OwnerInv, ProcInv, DropsCopy, AddrIsBase
  <2>. QED  BY <1>9, <2>1, <2>2, RemovePC DEF DropCopy, zht
<1>10. CASE RmdirLocal(p) \/ ReaddirScan(p)
  <2>1. Busy(p) /\ ProcInv(p) /\ call[p].op \in {"rmdir", "readdir"} /\ Home[p] \in Node
    BY <1>10, TargetType, HomeAssumption DEF RmdirLocal, ReaddirScan, At, Busy, OpsAt, OwnerInv
  <2>2. \A f \in File : Home[p] # Base(f)
    BY <2>1, WhoClears DEF ProcInv
  <2>3. clock' = clock /\ addr' = addr
    BY <1>10 DEF RmdirLocal, ReaddirScan, zht
  <2>4. store' = store \/ \E S : RemoveFiles(Home[p], S)
    BY <1>10 DEF RmdirLocal, ReaddirScan, RemoveTree
  <2>. QED  BY <2>1, <2>2, <2>3, <2>4, RemovePC, IdlePC DEF Idle
<1>. QED  BY <1>1, <1>2, <1>3, <1>4, <1>5, <1>6, <1>7, <1>8, <1>9, <1>10 DEF Step, QuietStep

LEMMA NextPC ==
    ASSUME TypeInv, OwnerInv, FetchesFromBase, [Next]_vars
    PROVE  [PC!Next]_(PC!pcvars)
<1>1. ASSUME NEW n \in Node, Mount(n) \/ Crash(n) PROVE [PC!Next]_(PC!pcvars)
  BY <1>1, IdlePC DEF Mount, Crash, Idle, zht, disk
<1>2. ASSUME NEW p \in Proc, Write(p) PROVE [PC!Next]_(PC!pcvars)
  <2>1. fd[p].file \in File /\ Home[p] = Base(fd[p].file)
    BY <1>2, WhoWrites DEF Write, OwnerInv
  <2>. QED  BY <1>2, <2>1, WritePC DEF Write, zht
<1>3. ASSUME NEW p \in Proc, Begin(p) \/ BeginRelease(p) PROVE [PC!Next]_(PC!pcvars)
  BY <1>3, IdlePC DEF Begin, BeginRelease, Idle, zht, disk
<1>4. ASSUME NEW p \in Proc, Step(p) PROVE [PC!Next]_(PC!pcvars)
  BY <1>4, StepPC
<1>5. CASE UNCHANGED vars
  BY <1>5, IdlePC DEF vars, Idle, zht, disk
<1>. QED  BY <1>1, <1>2, <1>3, <1>4, <1>5 DEF Next

(* Whatever getattr found in ZHT is still the primary's node at the fetch.  *)
LEMMA FetchesFromBaseKeeps ==
    ASSUME TypeInv, OwnerInv, FetchesFromBase, [Next]_vars
    PROVE  FetchesFromBase'
<1>. SUFFICES ASSUME NEW p \in Proc, pc'[p] = "fetch"
              PROVE  got'[p] \in {NoNode, Base(Target(p)')}
  BY DEF FetchesFromBase, Base
<1>1. CASE pc'[p] = pc[p] /\ call'[p] = call[p] /\ got'[p] = got[p]
  BY <1>1 DEF FetchesFromBase, Target
<1>2. CASE Getattr(p)
  <2>1. Target(p) \in File /\ addr[Target(p)] \in {NoNode, Base(Target(p))}
    BY <1>2, TargetType DEF Getattr, At, Busy, OpsAt, FileOp, OwnerInv, AddrIsBase
  <2>2. got'[p] = addr[Target(p)] /\ Target(p)' = Target(p) /\ Base(Target(p))' = Base(Target(p))
    BY <1>2 DEF Getattr, Goto, Target, Base, TypeInv, TypeOK
  <2>. QED  BY <2>1, <2>2 DEF Base
<1>3. ASSUME NEW n \in Node, Mount(n) \/ Crash(n)
      PROVE  pc'[p] = pc[p] /\ call'[p] = call[p] /\ got'[p] = got[p]
  BY <1>3 DEF Mount, Crash, mine
<1>4. ASSUME NEW q \in Proc, Begin(q) \/ Write(q) \/ BeginRelease(q)
      PROVE  pc'[p] = pc[p] /\ call'[p] = call[p] /\ got'[p] = got[p]
  <2>1. \A op : Entry(op) # "fetch"
    BY DEF Entry
  <2>. QED  BY <1>4, <2>1 DEF Begin, Write, BeginRelease, mine, TypeInv, TypeOK
<1>5. ASSUME NEW q \in Proc, Step(q)
      PROVE  (pc'[p] = pc[p] /\ call'[p] = call[p] /\ got'[p] = got[p]) \/ Getattr(p)
  <2>1. CASE q # p
    <3>1. pc'[p] = pc[p] /\ call'[p] = call[p]
      <4>1. Return(q) \/ \E l : Goto(q, l)
        BY <1>5 DEF Step, Getattr, Fetch, Lstat, Open, Truncate, Creat, AppendGet, AppendPut, Register,
             DeleteGet, DeletePut, LookupOwner, RemoveEntry, RemoveData, Close, DropCopy, MkdirLocal,
             NewListing, CheckEmpty, RmdirLocal, RemoveListing, Opendir, ReaddirGet, ReaddirScan
      <4>. QED  BY <2>1, <4>1 DEF Return, Goto, TypeInv, TypeOK
    <3>2. got' = got \/ \E v : got' = [got EXCEPT ![q] = v]
      BY <1>5 DEF Step, Getattr, Fetch, Lstat, Open, Truncate, Creat, AppendGet, AppendPut, Register,
           DeleteGet, DeletePut, LookupOwner, RemoveEntry, RemoveData, Close, DropCopy, MkdirLocal,
           NewListing, CheckEmpty, RmdirLocal, RemoveListing, Opendir, ReaddirGet, ReaddirScan,
           Return, mine
    <3>. QED  BY <2>1, <3>1, <3>2 DEF TypeInv, TypeOK
  <2>2. CASE q = p
    <3>1. Getattr(p) \/ Return(p)
          \/ \E l \in Label \ {"fetch"} : Goto(p, l)
      BY <1>5, <2>2 DEF Step, Fetch, Lstat, Open, Truncate, Creat, AppendGet, AppendPut, Register,
           DeleteGet, DeletePut, LookupOwner, RemoveEntry, RemoveData, Close, DropCopy, MkdirLocal,
           NewListing, CheckEmpty, RmdirLocal, RemoveListing, Opendir, ReaddirGet, ReaddirScan,
           Label, AfterDelete
    <3>. QED  BY <3>1 DEF Return, Goto, TypeInv, TypeOK
  <2>. QED  BY <2>1, <2>2
<1>6. CASE UNCHANGED vars
  BY <1>1, <1>6 DEF vars, mine
<1>. QED  BY <1>1, <1>2, <1>3, <1>4, <1>5, <1>6 DEF Next

LEMMA FetchesFromBaseHolds == Spec => [](TypeInv /\ OwnerInv /\ FetchesFromBase)
<1>1. Init => FetchesFromBase
  BY DEF Init, FetchesFromBase
<1>2. TypeInv /\ OwnerInv /\ FetchesFromBase /\ [Next]_vars => FetchesFromBase'
  BY FetchesFromBaseKeeps
<1>. QED  BY <1>1, <1>2, OwnerInvHolds, PTL DEF Spec

(* FusionFS implements PrimaryCopy.                                         *)
THEOREM Implements == Spec => KeepsPrimaryCopies
<1>1. Init => PC!Init
  BY DEF Init, PC!Init
<1>2. TypeInv /\ OwnerInv /\ FetchesFromBase /\ [Next]_vars => [PC!Next]_(PC!pcvars)
  BY NextPC
<1>. QED  BY <1>1, <1>2, FetchesFromBaseHolds, PTL DEF Spec, KeepsPrimaryCopies, PC!Spec

(* What PrimaryCopy allows never makes contents older, nor newer than the   *)
(* primary copy.                                                            *)
NoneOlder ==
    \A n \in Node, f \in File :
        store[n][f] # 0 /\ store'[n][f] # 0 => store'[n][f] >= store[n][f]

LEMMA LatestKeeps ==
    ASSUME TypeOK, BaseIsLatest, [PC!Next]_(PC!pcvars)
    PROVE  BaseIsLatest' /\ NoneOlder
<1>1. /\ store \in [Node -> [File -> Nat]] /\ clock \in Nat
      /\ \A f \in File : Base(f) \in Node
  BY OwnerNode DEF TypeOK
<1>2. \A n \in Node, f \in File :
         /\ store[n][f] \in Nat /\ store[n][f] <= clock
         /\ store[Base(f)][f] # 0 => store[n][f] <= store[Base(f)][f]
  BY <1>1 DEF BaseIsLatest
<1>3. ASSUME NEW g \in File, PC!Write(g) PROVE BaseIsLatest' /\ NoneOlder
  <2>1. clock' = clock + 1 /\ store' = [store EXCEPT ![Base(g)][g] = clock + 1]
    BY <1>3 DEF PC!Write
  <2>2. \A n \in Node, f \in File :
          store'[n][f] = IF n = Base(g) /\ f = g THEN clock + 1 ELSE store[n][f]
    BY <1>1, <2>1
  <2>3. BaseIsLatest'
    BY <1>1, <1>2, <2>1, <2>2 DEF BaseIsLatest, Base
  <2>4. NoneOlder
    BY <1>1, <1>2, <2>2 DEF NoneOlder
  <2>. QED  BY <2>3, <2>4
<1>4. ASSUME NEW m \in Node, NEW g \in File, PC!Copy(m, g) PROVE BaseIsLatest' /\ NoneOlder
  <2>1. /\ clock' = clock /\ store' = [store EXCEPT ![m][g] = store[Base(g)][g]]
        /\ store[Base(g)][g] # 0
    BY <1>4 DEF PC!Copy
  <2>2. \A n \in Node, f \in File :
          store'[n][f] = IF n = m /\ f = g THEN store[Base(g)][g] ELSE store[n][f]
    BY <1>1, <2>1
  <2>3. BaseIsLatest'
    BY <1>1, <1>2, <2>1, <2>2 DEF BaseIsLatest, Base
  <2>4. NoneOlder
    BY <1>1, <1>2, <2>1, <2>2 DEF NoneOlder
  <2>. QED  BY <2>3, <2>4
<1>5. ASSUME NEW m \in Node, NEW S \in SUBSET File, PC!Remove(m, S) PROVE BaseIsLatest' /\ NoneOlder
  <2>1. /\ clock' = clock
        /\ store' = [store EXCEPT ![m] = [f \in File |-> IF f \in S THEN 0 ELSE store[m][f]]]
    BY <1>5 DEF PC!Remove
  <2>2. \A n \in Node, f \in File :
          store'[n][f] = IF n = m /\ f \in S THEN 0 ELSE store[n][f]
    BY <1>1, <2>1
  <2>3. BaseIsLatest'
    BY <1>1, <1>2, <2>1, <2>2 DEF BaseIsLatest, Base
  <2>4. NoneOlder
    BY <1>1, <1>2, <2>2 DEF NoneOlder
  <2>. QED  BY <2>3, <2>4
<1>6. ASSUME store' = store, clock' = clock PROVE BaseIsLatest' /\ NoneOlder
  BY <1>2, <1>6 DEF BaseIsLatest, NoneOlder, Base
<1>7. ASSUME NEW f \in File, PC!Register(f) \/ PC!Unregister(f) PROVE BaseIsLatest' /\ NoneOlder
  BY <1>6, <1>7 DEF PC!Register, PC!Unregister
<1>8. CASE UNCHANGED PC!pcvars
  BY <1>6, <1>8 DEF PC!pcvars
<1>. QED  BY <1>3, <1>4, <1>5, <1>7, <1>8 DEF PC!Next

LEMMA VersionInvHolds == Spec => [](TypeInv /\ OwnerInv /\ FetchesFromBase /\ BaseIsLatest)
<1>1. Init => BaseIsLatest
  BY OwnerNode DEF Init, BaseIsLatest
<1>2. TypeInv /\ OwnerInv /\ FetchesFromBase /\ BaseIsLatest /\ [Next]_vars => BaseIsLatest'
  BY NextPC, LatestKeeps DEF TypeInv
<1>. QED  BY <1>1, <1>2, FetchesFromBaseHolds, PTL DEF Spec

(* A fetch, a write or a create never replaces contents by older ones.      *)
THEOREM ContentsNeverGoBack == Spec => CopiesNeverGoBack
<1>1. TypeInv /\ OwnerInv /\ FetchesFromBase /\ BaseIsLatest /\ [Next]_vars => [NoneOlder]_vars
  BY NextPC, LatestKeeps DEF TypeInv
<1>. QED  BY <1>1, VersionInvHolds, PTL DEF Spec, CopiesNeverGoBack, NoneOlder
=============================================================================
