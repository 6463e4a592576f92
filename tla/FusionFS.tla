------------------------------- MODULE FusionFS -------------------------------
(***************************************************************************)
(* The FusionFS client: the FUSE handlers of fusionfs.c, running on every  *)
(* node, over the two services they share: the ZHT key-value store (util.c *)
(* and the ZHT client) and the ffsnetd transfer daemons.                   *)
(*                                                                         *)
(* Metadata.  ZHT maps the path of a file to the address of the node that  *)
(* holds its primary copy, and the path of a folder to one string, its     *)
(* listing: every name followed by a blank, after a leading blank.  The    *)
(* wrappers of util.c return 0 whatever happened and leave the caller's    *)
(* buffer "" when the key is missing, so a missing key is the value "".    *)
(*                                                                         *)
(* Data.  Every node has a physical directory (rootdir) with the primary   *)
(* copies it owns and copies fetched from other nodes.  The contents of a  *)
(* file are numbered in the order they were written; 0 is "no such file".  *)
(*                                                                         *)
(* A handler is a sequence of remote calls and local system calls; each of *)
(* them is one step here, and the steps of different processes interleave. *)
(* The namespace has one level of directories below the root.              *)
(***************************************************************************)
EXTENDS Integers, FiniteSets, SequencesExt

CONSTANTS
    Node,             \* machines: a FUSE client, a ZHT server and a ffsnetd each
    Proc,             \* application processes (one FUSE request at a time each)
    Home,             \* Home[p]: the node whose mount the process p uses
    File, Dir, Root,  \* paths: files, directories below the root, the root
    Folder,           \* Folder[f]: the directory a file is in
    Prefix,           \* Prefix[d]: the paths the shell expands rootdir/d* to
    Calls,            \* <<process, system call, path>>: what the programs do
    Crashing,         \* nodes whose client may be killed
    LateJoin,         \* may a client (re)start once the programs run?
    UnlinkOpenFiles,  \* do programs unlink files still open for writing?
    ShareWrites,      \* may a file be open for writing more than once?
    MaxInFlight,      \* bound on the handlers running at once
    MaxNames,         \* bound on the names of a listing that may still grow
    MaxClock,         \* bound on the contents written
    NoNode, NoHandle, NoCall

Folders == Dir \union {Root}
Path    == File \union Folders
Op      == {"stat", "read", "write", "create", "truncate", "unlink",
            "mkdir", "rmdir", "readdir"}
FileOp  == {"stat", "read", "write", "create", "truncate", "unlink"}

ASSUME HomeAssumption   == Home \in [Proc -> Node]
ASSUME FolderAssumption == Folder \in [File -> Folders]
ASSUME PrefixAssumption == /\ Prefix \in [Dir -> SUBSET (File \union Dir)]
                           /\ \A d \in Dir : d \in Prefix[d]
ASSUME PathAssumption   == /\ File \intersect Folders = {}
                           /\ Root \notin Dir
ASSUME CallsAssumption  ==
    \A c \in Calls : /\ c \in Proc \X Op \X Path
                     /\ c[2] \in FileOp => c[3] \in File
                     /\ c[2] \in {"mkdir", "rmdir"} => c[3] \in Dir
                     /\ c[2] = "readdir" => c[3] \in Folders
ASSUME BoundAssumption  == /\ MaxInFlight \in Nat /\ MaxNames \in Nat
                           /\ MaxClock \in Nat
                           /\ {LateJoin, UnlinkOpenFiles, ShareWrites} \subseteq BOOLEAN
ASSUME NoneAssumption   ==
    /\ NoNode \notin Node
    /\ NoHandle \notin [file : File, write : BOOLEAN, linked : BOOLEAN]
    /\ NoCall \notin [op : Op \union {"release"}, path : Path]

VARIABLES
    addr,   \* ZHT: addr[f] is the node registered for file f
    list,   \* ZHT: list[d] is the listing of folder d
    store,  \* store[n][f]: the contents of n's physical copy of f, 0 if absent
    ldir,   \* ldir[n]: the directories that physically exist on n
    clock,  \* number of the latest contents written anywhere
    up,     \* up[n]: "new" | "up" | "down", the state of n's client
    fd,     \* fd[p]: the file p has open
    pc,     \* pc[p]: the next step of the handler serving p, or "idle"
    call,   \* call[p]: the system call being served
    got,    \* got[p]: the address the handler looked up
    old     \* old[p]: the listing the handler looked up

zht  == <<addr, list>>
disk == <<store, ldir, clock>>
mine == <<got, old>>
vars == <<zht, disk, up, fd, pc, call, mine>>
-----------------------------------------------------------------------------
(* Listings.  "" has no leading blank and no names, " " is the empty folder. *)
Listing   == [lead : BOOLEAN, names : Seq(Path)]
NoList    == [lead |-> FALSE, names |-> <<>>]
EmptyList == [lead |-> TRUE,  names |-> <<>>]

Handle == [file : File, write : BOOLEAN, linked : BOOLEAN]
Call   == [op : Op \union {"release"}, path : Path]
Label  == {"idle", "getattr", "fetch", "lstat", "open", "trunc", "creat",
           "app_get", "app_put", "register", "del_get", "del_put", "oldaddr",
           "rmaddr", "rmdata", "close", "drop", "mkdir", "newlist", "rmcheck",
           "rmtree", "rmkey", "opendir", "rd_get", "rd_scan"}

Named(l) == ToSet(l.names)

\* zht_append: the old value, the name and a blank.
Appended(l, x) == [l EXCEPT !.names = Append(@, x)]

\* Mutant of Findable: the leading blank is taken for a part of the first name.
Findable_NeverFirst(l, x) == {i \in DOMAIN l.names : l.names[i] = x /\ i > 1}

\* strstr(oldval, " name "): a name counts only with a blank before it, so the
\* first name of a listing without the leading blank is never found.
Findable(l, x) ==
    {i \in DOMAIN l.names : l.names[i] = x /\ (l.lead \/ i > 1)}

\* zht_delete: the match and its two blanks become one blank.
Without(l, i) == [l EXCEPT !.names = RemoveAt(@, i)]
-----------------------------------------------------------------------------
(* The physical directory of a node. *)
HasFolder(n, d) == d = Root \/ d \in ldir[n]

\* Handles keep an unlinked inode open: what they write is lost with it.
Unlinked(n, gone) ==
    [q \in Proc |->
        IF fd[q] # NoHandle /\ Home[q] = n /\ fd[q].file \in gone
        THEN [fd[q] EXCEPT !.linked = FALSE] ELSE fd[q]]

RemoveFiles(n, gone) ==
    /\ store' = [store EXCEPT ![n] = [f \in File |-> IF f \in gone THEN 0 ELSE @[f]]]
    /\ fd' = Unlinked(n, gone)

\* rm -r: the paths and, for a directory, what is below it.
FilesUnder(S)   == {f \in File : f \in S \/ Folder[f] \in S}
RemoveTree(n, S) ==
    /\ RemoveFiles(n, FilesUnder(S))
    /\ ldir' = [ldir EXCEPT ![n] = @ \ S]

Put(n, f, c) == store' = [store EXCEPT ![n][f] = c]
-----------------------------------------------------------------------------
(* Control of a handler. *)
At(p, l)   == pc[p] = l
Goto(p, l) == pc' = [pc EXCEPT ![p] = l] /\ UNCHANGED call
Return(p)  == /\ pc'   = [pc   EXCEPT ![p] = "idle"]
              /\ call' = [call EXCEPT ![p] = NoCall]
              /\ got'  = [got  EXCEPT ![p] = NoNode]
              /\ old'  = [old  EXCEPT ![p] = NoList]

Target(p) == call[p].path
\* zht_append and zht_delete work on the listing of the folder a path is in.
Parent(x) == IF x \in File THEN Folder[x] ELSE Root

Init ==
    /\ addr  = [f \in File |-> NoNode]
    /\ list  = [d \in Folders |-> NoList]
    /\ store = [n \in Node |-> [f \in File |-> 0]]
    /\ ldir  = [n \in Node |-> {}]
    /\ clock = 0
    /\ up    = [n \in Node |-> "new"]
    /\ fd    = [p \in Proc |-> NoHandle]
    /\ pc    = [p \in Proc |-> "idle"]
    /\ call  = [p \in Proc |-> NoCall]
    /\ got   = [p \in Proc |-> NoNode]
    /\ old   = [p \in Proc |-> NoList]
-----------------------------------------------------------------------------
(* A client starts, a client is killed, a program makes a system call. *)

\* main: zht_insert("/", " ") and then fuse_main, on every start.
Mount(n) ==
    /\ up[n] = "new" \/ (LateJoin /\ up[n] = "down")
    /\ up' = [up EXCEPT ![n] = "up"]
    /\ list' = [list EXCEPT ![Root] = EmptyList]
    /\ UNCHANGED <<addr, disk, fd, pc, call, mine>>

\* The client process dies between two steps: its handlers and descriptors go,
\* the physical directory, ZHT and the transfer daemon stay.
Crash(n) ==
    LET gone == {p \in Proc : Home[p] = n}
        Reset(v, none) == [p \in Proc |-> IF p \in gone THEN none ELSE v[p]]
    IN  /\ n \in Crashing
        /\ up[n] = "up"
        /\ up'   = [up EXCEPT ![n] = "down"]
        /\ fd'   = Reset(fd, NoHandle)
        /\ pc'   = Reset(pc, "idle")
        /\ call' = Reset(call, NoCall)
        /\ got'  = Reset(got, NoNode)
        /\ old'  = Reset(old, NoList)
        /\ UNCHANGED <<zht, disk>>

\* The kernel holds the lock of a directory while it changes or reads it.
Locks(op, x) ==
    CASE op \in {"create", "unlink"} -> {Folder[x]}
      [] op = "mkdir"   -> {Root}
      [] op = "rmdir"   -> {Root, x}
      [] op = "readdir" -> {x}
      [] OTHER          -> {}

Busy(p) == pc[p] # "idle"

MayServe(p) ==
    /\ pc[p] = "idle"
    /\ up[Home[p]] = "up"
    /\ LateJoin \/ \A n \in Node : up[n] # "new"
    /\ Cardinality({q \in Proc : Busy(q)}) < MaxInFlight

OpenForWriting(f) ==
    \E q \in Proc : fd[q] # NoHandle /\ fd[q].file = f /\ fd[q].write

\* What the kernel has checked before it calls the handler (for a directory
\* fusion_getattr is a look at the physical directory), and the bounds.
Permitted(p, op, x) ==
    /\ op \in FileOp => HasFolder(Home[p], Folder[x])
    /\ op \in {"read", "write", "create"} => fd[p] = NoHandle
    /\ op \in {"write", "create", "truncate"} =>
           clock < MaxClock /\ (ShareWrites \/ ~OpenForWriting(x))
    /\ op = "unlink" => UnlinkOpenFiles \/ ~OpenForWriting(x)
    /\ op = "mkdir" => ~HasFolder(Home[p], x)
    /\ op \in {"rmdir", "readdir"} => HasFolder(Home[p], x)
    /\ op \in {"create", "mkdir"} => Len(list[Parent(x)].names) < MaxNames
    /\ \A q \in Proc : Home[q] = Home[p] /\ Busy(q) /\ call[q].op # "release" =>
           Locks(op, x) \intersect Locks(call[q].op, call[q].path) = {}

Entry(op) == CASE op \in FileOp -> "getattr"
               [] op = "mkdir"  -> "mkdir"
               [] op = "rmdir"  -> "rmcheck"
               [] OTHER         -> "opendir"

Begin(p) ==
    /\ MayServe(p)
    /\ \E c \in Calls :
         /\ c[1] = p
         /\ Permitted(p, c[2], c[3])
         /\ call' = [call EXCEPT ![p] = [op |-> c[2], path |-> c[3]]]
         /\ pc'   = [pc EXCEPT ![p] = Entry(c[2])]
    /\ UNCHANGED <<zht, disk, up, fd, mine>>

\* fusion_write (and ftruncate): local, and lost if the inode is unlinked.
Write(p) ==
    /\ pc[p] = "idle"
    /\ fd[p] # NoHandle
    /\ fd[p].write
    /\ fd[p].linked
    /\ clock < MaxClock
    /\ clock' = clock + 1
    /\ Put(Home[p], fd[p].file, clock')
    /\ UNCHANGED <<zht, ldir, up, fd, pc, call, mine>>

\* The last close of the descriptor: the kernel sends RELEASE.
BeginRelease(p) ==
    /\ MayServe(p)
    /\ fd[p] # NoHandle
    /\ call' = [call EXCEPT ![p] = [op |-> "release", path |-> fd[p].file]]
    /\ pc'   = [pc EXCEPT ![p] = "close"]
    /\ UNCHANGED <<zht, disk, up, fd, mine>>
-----------------------------------------------------------------------------
(* fusion_getattr, which precedes every system call on a file. *)
Getattr(p) ==
    /\ At(p, "getattr")
    /\ got' = [got EXCEPT ![p] = addr[Target(p)]]
    /\ Goto(p, "fetch")
    /\ UNCHANGED <<zht, disk, up, fd, old>>

\* Mutant of Fetches: a copy that is there is never refreshed.
Fetches_OnlyMissing(p) ==
    /\ store[Home[p]][Target(p)] = 0
    /\ IF got[p] = NoNode THEN FALSE ELSE store[got[p]][Target(p)] # 0

\* It is asked for when the file is not here or another node is registered, and
\* it comes only if that node has it.
Fetches(p) ==
    /\ store[Home[p]][Target(p)] = 0 \/ got[p] # Home[p]
    /\ IF got[p] = NoNode THEN FALSE ELSE store[got[p]][Target(p)] # 0

\* Mutants of Fetch: the negative size of a missing file is not checked; a copy
\* that is there already is sent to the peer; the fetch is tried until the peer
\* has the file.
Fetch_NoSizeCheck(p) ==
    /\ At(p, "fetch")
    /\ IF got[p] # NoNode /\ got[p] # Home[p] /\ ~Fetches(p)
       THEN Put(Home[p], Target(p), -1) ELSE UNCHANGED store
    /\ Goto(p, "lstat")
    /\ UNCHANGED <<zht, ldir, clock, up, fd, mine>>
Fetch_PushesBack(p) ==
    LET n == Home[p]
        f == Target(p)
    IN  /\ At(p, "fetch")
        /\ \/ ~Fetches(p) /\ UNCHANGED store
           \/ Fetches(p) /\ store[n][f] = 0 /\ Put(n, f, store[got[p]][f])
           \/ Fetches(p) /\ store[n][f] # 0 /\ Put(got[p], f, store[n][f])
        /\ Goto(p, "lstat")
        /\ UNCHANGED <<zht, ldir, clock, up, fd, mine>>
Fetch_Waits(p) ==
    /\ At(p, "fetch")
    /\ Fetches(p) \/ got[p] = Home[p] \/ call[p].op = "create"
    /\ Goto(p, "lstat")
    /\ UNCHANGED <<zht, disk, up, fd, mine>>

\* ffs_recvfile: nothing changes unless the peer has the file; a copy replaces
\* the contents of the local inode and creates the missing folder.
Fetch(p) ==
    LET n == Home[p]
        f == Target(p)
    IN  /\ At(p, "fetch")
        /\ IF Fetches(p)
           THEN /\ Put(n, f, store[got[p]][f])
                /\ ldir' = [ldir EXCEPT ![n] = @ \union ({Folder[f]} \ {Root})]
           ELSE UNCHANGED <<store, ldir>>
        /\ Goto(p, "lstat")
        /\ UNCHANGED <<zht, clock, up, fd, mine>>

\* lstat of the local copy decides what the kernel does next.
Present(p) == store[Home[p]][Target(p)] # 0

Lstat(p) ==
    /\ At(p, "lstat")
    /\ LET op == call[p].op IN
       \/ /\ Present(p)
          /\ \/ op = "stat" /\ Return(p)
             \/ op \in {"read", "write", "create"} /\ Goto(p, "open") /\ UNCHANGED mine
             \/ op = "truncate" /\ Goto(p, "trunc") /\ UNCHANGED mine
             \/ op = "unlink" /\ Goto(p, "del_get") /\ UNCHANGED mine
       \/ /\ ~Present(p)
          /\ \/ op = "create" /\ Goto(p, "creat") /\ UNCHANGED mine
             \/ op # "create" /\ Return(p)
    /\ UNCHANGED <<zht, disk, up, fd>>

\* fusion_open: open(2) of the local copy and nothing else.
Open(p) ==
    /\ At(p, "open")
    /\ fd' = IF Present(p)
             THEN [fd EXCEPT ![p] = [file |-> Target(p), linked |-> TRUE,
                                     write |-> call[p].op # "read"]]
             ELSE fd
    /\ Return(p)
    /\ UNCHANGED <<zht, disk, up>>

\* fusion_truncate by path: local, and the ZHT entry is not touched.
Truncate(p) ==
    /\ At(p, "trunc")
    /\ IF Present(p) THEN clock' = clock + 1 /\ Put(Home[p], Target(p), clock')
                     ELSE UNCHANGED <<clock, store>>
    /\ Return(p)
    /\ UNCHANGED <<zht, ldir, up, fd>>
-----------------------------------------------------------------------------
(* zht_append: look the listing up, then write it back longer. *)
AppendGet(p) ==
    /\ At(p, "app_get")
    /\ old' = [old EXCEPT ![p] = list[Parent(Target(p))]]
    /\ Goto(p, "app_put")
    /\ UNCHANGED <<zht, disk, up, fd, got>>

AppendPut(p) ==
    /\ At(p, "app_put")
    /\ list' = [list EXCEPT ![Parent(Target(p))] = Appended(old[p], Target(p))]
    /\ \/ call[p].op = "create" /\ Goto(p, "register") /\ UNCHANGED mine
       \/ call[p].op = "mkdir"  /\ Return(p)
    /\ UNCHANGED <<addr, disk, up, fd>>

(* zht_delete: look the listing up, then write it back without the name; a   *)
(* name that is not found ends it.                                           *)
AfterDelete(p) ==
    IF call[p].op = "unlink" THEN "oldaddr" ELSE "rmkey"

DeleteGet(p) ==
    /\ At(p, "del_get")
    /\ LET l == list[Parent(Target(p))] IN
         /\ old' = [old EXCEPT ![p] = l]
         /\ Goto(p, IF Findable(l, Target(p)) = {} THEN AfterDelete(p) ELSE "del_put")
    /\ UNCHANGED <<zht, disk, up, fd, got>>

DeletePut(p) ==
    /\ At(p, "del_put")
    /\ \E i \in Findable(old[p], Target(p)) :
         /\ \A k \in Findable(old[p], Target(p)) : i <= k
         /\ list' = [list EXCEPT ![Parent(Target(p))] = Without(old[p], i)]
    /\ Goto(p, AfterDelete(p))
    /\ UNCHANGED <<addr, disk, up, fd, mine>>
-----------------------------------------------------------------------------
(* fusion_create: creat(2) locally, append the name, register the address.  *)
(* The lookups before it lead to branches that are never taken.  When the   *)
(* local creat fails the handler still goes on to change ZHT.               *)
Creat(p) ==
    LET n == Home[p]
        f == Target(p)
    IN  /\ At(p, "creat")
        /\ IF HasFolder(n, Folder[f])
           THEN /\ clock' = clock + 1
                /\ Put(n, f, clock')
                /\ fd' = [fd EXCEPT ![p] = [file |-> f, write |-> TRUE, linked |-> TRUE]]
           ELSE UNCHANGED <<clock, store, fd>>
        /\ Goto(p, "app_get")
        /\ UNCHANGED <<zht, ldir, up, mine>>

\* zht_insert(path, myip) of fusion_create, zht_update(path, myip) of
\* fusion_release: the node is now the owner.
Register(p) ==
    /\ At(p, "register")
    /\ addr' = [addr EXCEPT ![Target(p)] = Home[p]]
    /\ Return(p)
    /\ UNCHANGED <<list, disk, up, fd>>

\* Mutant of LookupOwner: the data goes before the key.
LookupOwner_DataFirst(p) ==
    /\ At(p, "oldaddr")
    /\ got' = [got EXCEPT ![p] = addr[Target(p)]]
    /\ IF addr[Target(p)] = NoNode THEN UNCHANGED <<store, fd>>
                                   ELSE RemoveFiles(addr[Target(p)], {Target(p)})
    /\ Goto(p, "rmaddr")
    /\ UNCHANGED <<zht, ldir, clock, up, old>>

(* fusion_unlink, after zht_delete: the address, the key, then the data. *)
LookupOwner(p) ==
    /\ At(p, "oldaddr")
    /\ got' = [got EXCEPT ![p] = addr[Target(p)]]
    /\ Goto(p, "rmaddr")
    /\ UNCHANGED <<zht, disk, up, fd, old>>

RemoveEntry(p) ==
    /\ At(p, "rmaddr")
    /\ addr' = [addr EXCEPT ![Target(p)] = NoNode]
    /\ Goto(p, "rmdata")
    /\ UNCHANGED <<list, disk, up, fd, mine>>

\* unlink here, or ffs_rmfile at the node the address named; "" is no node.
RemoveData(p) ==
    /\ At(p, "rmdata")
    /\ IF got[p] = NoNode THEN UNCHANGED <<store, fd>>
                          ELSE RemoveFiles(got[p], {Target(p)})
    /\ Return(p)
    /\ UNCHANGED <<zht, ldir, clock, up>>
-----------------------------------------------------------------------------
\* Mutant of Close: the owner is not spared.
Close_NoOwnerCheck(p) ==
    /\ At(p, "close")
    /\ fd' = [fd EXCEPT ![p] = NoHandle]
    /\ Goto(p, IF fd[p].write THEN "register" ELSE "drop")
    /\ UNCHANGED <<zht, disk, up, mine>>

(* fusion_release. *)
\* close(2), then the address decides: the owner is done, a writer registers
\* its node (its second lookup never fails), a reader drops its copy.
Close(p) ==
    LET owner == addr[Target(p)]
    IN  /\ At(p, "close")
        /\ fd' = [fd EXCEPT ![p] = NoHandle]
        /\ \/ owner = Home[p] /\ Return(p)
           \/ /\ owner # Home[p]
              /\ Goto(p, IF fd[p].write THEN "register" ELSE "drop")
              /\ UNCHANGED mine
        /\ UNCHANGED <<zht, disk, up>>

DropCopy(p) ==
    /\ At(p, "drop")
    /\ RemoveFiles(Home[p], {Target(p)})
    /\ Return(p)
    /\ UNCHANGED <<zht, ldir, clock, up>>
-----------------------------------------------------------------------------
(* fusion_mkdir: the local directory (an error is kept and does not stop    *)
(* the handler), an empty listing for it, its name in the parent's listing. *)
MkdirLocal(p) ==
    /\ At(p, "mkdir")
    /\ ldir' = [ldir EXCEPT ![Home[p]] = @ \union {Target(p)}]
    /\ Goto(p, "newlist")
    /\ UNCHANGED <<zht, store, clock, up, fd, mine>>

NewListing(p) ==
    /\ At(p, "newlist")
    /\ list' = [list EXCEPT ![Target(p)] = EmptyList]
    /\ Goto(p, "app_get")
    /\ UNCHANGED <<addr, disk, up, fd, mine>>

\* Mutant of CheckEmpty: the listing is not looked at.
CheckEmpty_Never(p) ==
    /\ At(p, "rmcheck")
    /\ Goto(p, "rmtree")
    /\ UNCHANGED <<zht, disk, up, fd, mine>>

(* fusion_rmdir: refuse unless the listing is " ", rm -r the local directory, *)
(* take the name from the parent's listing, remove the key.                   *)
CheckEmpty(p) ==
    /\ At(p, "rmcheck")
    /\ \/ list[Target(p)] = EmptyList /\ Goto(p, "rmtree") /\ UNCHANGED mine
       \/ list[Target(p)] # EmptyList /\ Return(p)
    /\ UNCHANGED <<zht, disk, up, fd>>

RmdirLocal(p) ==
    /\ At(p, "rmtree")
    /\ RemoveTree(Home[p], {Target(p)})
    /\ Goto(p, "del_get")
    /\ UNCHANGED <<zht, clock, up, mine>>

RemoveListing(p) ==
    /\ At(p, "rmkey")
    /\ list' = [list EXCEPT ![Target(p)] = NoList]
    /\ Return(p)
    /\ UNCHANGED <<addr, disk, up, fd>>
-----------------------------------------------------------------------------
(* fusion_opendir and fusion_readdir: make the local directory, look the     *)
(* listing up, then rm -r <path>* if it is " ", or else make a local         *)
(* directory for every directory that is listed.                             *)
Opendir(p) ==
    /\ At(p, "opendir")
    /\ ldir' = [ldir EXCEPT ![Home[p]] = @ \union ({Target(p)} \ {Root})]
    /\ Goto(p, "rd_get")
    /\ UNCHANGED <<zht, store, clock, up, fd, mine>>

ReaddirGet(p) ==
    /\ At(p, "rd_get")
    /\ old' = [old EXCEPT ![p] = list[Target(p)]]
    /\ Goto(p, "rd_scan")
    /\ UNCHANGED <<zht, disk, up, fd, got>>

\* What the shell expands <path>* to: rootdir/* for the root, and for another
\* directory the directory itself with every name that begins like its own.
Glob(d) == IF d = Root THEN Dir \union {f \in File : Folder[f] = Root} ELSE Prefix[d]

ReaddirScan(p) ==
    /\ At(p, "rd_scan")
    /\ IF old[p] = EmptyList
       THEN RemoveTree(Home[p], Glob(Target(p)))
       ELSE /\ ldir' = [ldir EXCEPT ![Home[p]] = @ \union (Named(old[p]) \intersect Dir)]
            /\ UNCHANGED <<store, fd>>
    /\ Return(p)
    /\ UNCHANGED <<zht, clock, up>>
-----------------------------------------------------------------------------
\* The steps that only the process's own handler takes.
Step(p) ==
    \/ Getattr(p) \/ Fetch(p) \/ Lstat(p) \/ Open(p) \/ Truncate(p)
    \/ Creat(p) \/ AppendGet(p) \/ AppendPut(p) \/ Register(p)
    \/ DeleteGet(p) \/ DeletePut(p)
    \/ LookupOwner(p) \/ RemoveEntry(p) \/ RemoveData(p)
    \/ Close(p) \/ DropCopy(p)
    \/ MkdirLocal(p) \/ NewListing(p)
    \/ CheckEmpty(p) \/ RmdirLocal(p) \/ RemoveListing(p)
    \/ Opendir(p) \/ ReaddirGet(p) \/ ReaddirScan(p)

Next == \/ \E n \in Node : Mount(n) \/ Crash(n)
        \/ \E p \in Proc : Begin(p) \/ Write(p) \/ BeginRelease(p) \/ Step(p)

Spec == Init /\ [][Next]_vars

\* A handler that was called runs to its end: no step of it waits for another
\* process, and FUSE runs a thread for every request.
Fairness == \A p \in Proc : WF_vars(Step(p))
FairSpec == Spec /\ Fairness
-----------------------------------------------------------------------------
TypeOK ==
    /\ addr  \in [File -> Node \union {NoNode}]
    /\ list  \in [Folders -> Listing]
    /\ store \in [Node -> [File -> Nat]]
    /\ ldir  \in [Node -> SUBSET Dir]
    /\ clock \in Nat
    /\ up    \in [Node -> {"new", "up", "down"}]
    /\ fd    \in [Proc -> Handle \union {NoHandle}]
    /\ pc    \in [Proc -> Label]
    /\ call  \in [Proc -> Call \union {NoCall}]
    /\ got   \in [Proc -> Node \union {NoNode}]
    /\ old   \in [Proc -> Listing]
-----------------------------------------------------------------------------
(* A registered address is good: the node ZHT names for a file has the file. *)
(* fusion_create registers after creat and fusion_unlink takes the key away  *)
(* before the data, so it should survive a crash between any two steps.      *)
OwnerHoldsData ==
    \A f \in File : addr[f] # NoNode => store[addr[f]][f] # 0

(* The copy that the read-only close of fusion_release removes is redundant: *)
(* the node that drops it is not the one ZHT names.                          *)
DropsOnlyCopies ==
    \A p \in Proc : pc[p] = "drop" => addr[Target(p)] # Home[p]

(* The contents of a node's copy never go back to something older, whatever  *)
(* fusion_getattr fetches into it.                                           *)
CopiesNeverGoBack ==
    [][\A n \in Node, f \in File :
          store[n][f] # 0 /\ store'[n][f] # 0 => store'[n][f] >= store[n][f]]_vars

(* A folder and the files ZHT knows agree, but for a file whose create or    *)
(* unlink is running: a name is listed if and only if an address is          *)
(* registered under the path, so zht_append and zht_delete lose nothing.     *)
Changing(f) ==
    \E p \in Proc : Busy(p) /\ Target(p) = f /\ call[p].op \in {"create", "unlink"}

ListedIffRegistered ==
    \A f \in File : Changing(f) \/ (addr[f] # NoNode <=> f \in Named(list[Folder[f]]))

(* fusion_rmdir looks at the listing once and then removes the directory in  *)
(* four more steps: no file is registered below it while it does.            *)
RmdirOnlyEmpty ==
    \A p \in Proc :
        Busy(p) /\ call[p].op = "rmdir" /\ pc[p] # "rmcheck" =>
            \A f \in File : Folder[f] = Target(p) => addr[f] = NoNode

(* The discipline under which the two hold: one process makes and removes    *)
(* files and directories, alone on a node whose client is not killed, it     *)
(* lists only the root, and no program writes from elsewhere.                *)
OneWriter(w) ==
    /\ ~LateJoin /\ ~UnlinkOpenFiles /\ Home[w] \notin Crashing
    /\ \A c \in Calls : IF c[1] = w THEN c[2] = "readdir" => c[3] = Root
                      ELSE c[2] \in {"stat", "read", "truncate", "readdir"} /\ Home[c[1]] # Home[w]

(* Close-to-open: whoever opens a file that nobody has open for writing gets *)
(* the latest contents any node has, wherever they were written.             *)
OpensLatest ==
    \A p \in Proc :
        /\ pc[p] = "open" /\ fd'[p] # fd[p]
        /\ ~OpenForWriting(Target(p))
        => \A n \in Node : store[n][Target(p)] <= store[Home[p]][Target(p)]

(* The discipline of close-to-open: programs on nodes of their own, which do  *)
(* not crash, make files and read and write them by opening them, one writer *)
(* of a file at a time; and no two handlers work on one file at once.        *)
Sharing ==
    /\ ~ShareWrites /\ Crashing = {}
    /\ \A c \in Calls : c[2] \in {"stat", "read", "write", "create", "mkdir"}
    /\ \A p, q \in Proc : Home[p] = Home[q] => p = q

OneAtATime ==
    \A p, q \in Proc : Busy(p) /\ Busy(q) /\ Target(p) = Target(q) => p = q

(* Every handler that is called returns, unless its client is killed.        *)
CallsReturn == \A p \in Proc : Busy(p) ~> ~Busy(p)
=============================================================================
