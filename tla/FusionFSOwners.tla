---------------------------- MODULE FusionFSOwners ----------------------------
(***************************************************************************)
(* FusionFS under the discipline of single ownership: every file is        *)
(* changed by one process, on a node where nobody else uses that file and  *)
(* nobody lists or removes directories.  ZHT and the daemons take no lock, *)
(* so this is what the programs must keep to; any number of other          *)
(* processes on other nodes may read the files and list the directories,   *)
(* and clients may be killed and restarted.                                *)
(***************************************************************************)
EXTENDS FusionFS

CONSTANT Owner      \* Owner[f]: the process that changes file f

ASSUME OwnerType      == Owner \in [File -> Proc]
ASSUME OwnerChanges   ==
    \A c \in Calls : c[2] \in {"write", "create", "truncate", "unlink"} => c[1] = Owner[c[3]]
ASSUME OwnerAlone     ==
    \A c \in Calls : c[2] \in FileOp /\ Home[c[1]] = Home[Owner[c[3]]] => c[1] = Owner[c[3]]
ASSUME OwnerUndisturbed ==
    \A c \in Calls : c[2] \in {"rmdir", "readdir"} =>
        \A f \in File : Home[Owner[f]] # Home[c[1]]
ASSUME OwnerCloses    == UnlinkOpenFiles = FALSE

\* The node of the owner: the only one that ZHT ever names.
Base(f) == Home[Owner[f]]
-----------------------------------------------------------------------------
(* The parts of an inductive invariant.  First, who does what.              *)

Called(p) ==
    Busy(p) /\ call[p].op # "release" => <<p, call[p].op, call[p].path>> \in Calls

\* A handle that writes, or that is on the node of the owner, is the owner's.
HandleOfOwner(p) ==
    fd[p] # NoHandle /\ (fd[p].write \/ Home[p] = Base(fd[p].file)) => p = Owner[fd[p].file]

\* So is a close that registers, or that runs on the node of the owner.
ReleaseOfOwner(p) ==
    /\ Busy(p) /\ call[p].op = "release"
    /\ pc[p] = "register" \/ Home[p] = Base(Target(p))
    => p = Owner[Target(p)]

\* The folder of the owner's file stays where it was when the call began.
FolderStays(p) ==
    Busy(p) /\ call[p].op \in FileOp /\ Owner[Target(p)] = p => HasFolder(Home[p], Folder[Target(p)])

\* What a handler relies on at the steps that register or remove.
UnlinkHasNoWriter(p) ==
    Busy(p) /\ call[p].op = "unlink" => fd[p] = NoHandle \/ fd[p].file # Target(p) \/ ~fd[p].write

DropsCopy(p) == pc[p] = "drop" => fd[p] = NoHandle /\ addr[Target(p)] # Home[p]

RemovesUnregistered(p) == pc[p] = "rmdata" => addr[Target(p)] = NoNode

Creating(p) == pc[p] \in {"app_get", "app_put"} /\ call[p].op = "create"

RegistersData(p) == pc[p] = "register" \/ Creating(p) => store[Home[p]][Target(p)] # 0

WriterHasData(p) == fd[p] # NoHandle /\ fd[p].write => store[Home[p]][fd[p].file] # 0

ProcInv(p) ==
    /\ Called(p) /\ HandleOfOwner(p) /\ ReleaseOfOwner(p) /\ FolderStays(p)
    /\ UnlinkHasNoWriter(p) /\ DropsCopy(p) /\ RemovesUnregistered(p)
    /\ RegistersData(p) /\ WriterHasData(p)

\* ZHT names the owner's node or none, and that node has the file.
AddrIsBase(f) == addr[f] \in {NoNode, Base(f)} /\ (addr[f] # NoNode => store[Base(f)][f] # 0)

OwnerInv == (\A p \in Proc : ProcInv(p)) /\ (\A f \in File : AddrIsBase(f))

(* Versions: no copy is newer than the owner's, nor than the last write.    *)
FetchesFromBase ==
    \A p \in Proc : pc[p] = "fetch" => got[p] \in {NoNode, Base(Target(p))}

BaseIsLatest ==
    \A n \in Node, f \in File :
        /\ store[n][f] <= clock
        /\ store[Base(f)][f] # 0 => store[n][f] <= store[Base(f)][f]

(* What a step of p guarantees to the others: it changes only what its own  *)
(* files have at their node and in ZHT, and no folder goes there.           *)
Guarantee(p) ==
    /\ \A f \in File : ldir[Base(f)] \subseteq ldir'[Base(f)]
    /\ \A f \in File : addr'[f] # addr[f] => p = Owner[f] /\ addr'[f] \in {NoNode, Base(f)}
    /\ \A f \in File : store[Base(f)][f] # 0 /\ store'[Base(f)][f] = 0 => p = Owner[f]
-----------------------------------------------------------------------------
PC == INSTANCE PrimaryCopy WITH Primary    <- [f \in File |-> Base(f)],
                                registered <- {f \in File : addr[f] # NoNode}

(* FusionFS keeps a primary copy of every file at its owner's node: every    *)
(* step of every handler writes, copies, removes, registers or unregisters   *)
(* as PrimaryCopy allows, or changes nothing of that.                        *)
KeepsPrimaryCopies == PC!Spec
=============================================================================
