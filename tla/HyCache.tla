------------------------------ MODULE HyCache ------------------------------
(***************************************************************************)
(* HyCache (hycache/schfs.c, util.c): a FUSE file system over a fast disk     *)
(* (ssd) and a slow one (hdd) that hold the same tree.  A file is on the ssd, *)
(* or it is on the hdd and a symbolic link stands in its place.  The files    *)
(* created or opened since the mount are in a queue, and the first of them    *)
(* are moved to the hdd while the ssd is over its limit.  The handlers run    *)
(* one at a time, as with the option -s of schfs.c:15.  The disks are two     *)
(* devices: mv copies, and a handle stays with the copy that mv removes.      *)
(***************************************************************************)
EXTENDS Integers, FiniteSets, FiniteSetsExt, SequencesExt

CONSTANTS Names,       \* paths of files
          InDir,       \* those in the one directory there is; the others are in /
          Ids,         \* numbers of files
          Handles,     \* open files
          Total,       \* SSD_TOT, in files that are not empty
          MaxVersion,  \* bound: writes to one file
          Modes,       \* modes of files, from 0
          MaxFreq,     \* bound: uses of a file that are counted
          Careless     \* what applications do although it goes wrong

ASSUME NamesAssumption == IsFiniteSet(Names) /\ InDir \subseteq Names
ASSUME IdsAssumption   == IsFiniteSet(Ids) /\ Ids \subseteq Nat
ASSUME SizeAssumption  == Total \in Nat /\ MaxVersion \in Nat /\ MaxFreq \in Nat
ASSUME ModesAssumption == Modes \subseteq {0, 1}

Hazards == {"evictOpen",     \* have a file open while others push it out
            "renameOver",    \* rename a file over another
            "rmdirFilled",   \* remove a directory that has files
            "chmodMoved",    \* change the mode of a file renamed on the hdd
            "readCreated"}   \* read through the handle with which a file was created

VARIABLES
    fs,        \* the two disks and the open files
    sdir, hdir,\* whether the directory is on the ssd, on the hdd
    queue,     \* the entries of the LRU or LFU queue
    mounted,   \* FALSE after a crash
    known,     \* names created or opened since the mount
    seen,      \* what a call that read returned
    limited,   \* whether ssd_is_full looks, or returns 0 at once as in this version
    lru        \* MODE_LRU: or else the queue is LFU

vars == <<fs, sdir, hdir, queue, mounted, known, seen, limited, lru>>

None == -1
Away == -2     \* a symbolic link in place of a file
Ebadf == -3    \* what a read fails with

Init ==
    /\ fs = [ssd |-> [n \in Names |-> None], hdd |-> [n \in Names |-> None],
             target |-> [n \in Names |-> n],          \* where a link on the ssd leads
             content |-> [i \in Ids |-> 0], mode |-> [i \in Ids |-> 0],
             handle |-> [h \in Handles |-> None],
             own |-> [h \in Handles |-> None],        \* the copy an evicted handle has
             wronly |-> {}]                           \* the handles that creat gave
    /\ sdir = FALSE /\ hdir = FALSE /\ queue = <<>> /\ mounted = TRUE
    /\ known = {} /\ seen = 0 /\ limited \in BOOLEAN /\ lru \in BOOLEAN
-----------------------------------------------------------------------------
(* The queue: entries [fname, freq], of which the first is moved out first.   *)

\* Where the first entry of that name is, or 0.
At(s, n) == SelectInSeq(s, LAMBDA x : x.fname = n)

Without(s, n) == IF At(s, n) = 0 THEN s ELSE RemoveAt(s, At(s, n))

\* LRU: a file that is used goes to the end.
Used(s, n) == Append(Without(s, n), [fname |-> n, freq |-> 0])

\* LFU: a file that is used goes before the first that was used more often.
Counted(s, n) ==
    LET x == [fname |-> n, freq |-> IF At(s, n) = 0 THEN 1 ELSE s[At(s, n)].freq + 1]
        r == Without(s, n)
        i == SelectInSeq(r, LAMBDA y : y.freq > x.freq)
    IN IF i = 0 THEN Append(r, x) ELSE InsertAt(r, i, x)

Inserted(s, n) == IF lru THEN Used(s, n) ELSE Counted(s, n)

Renamed(s, n, m) == IF At(s, n) = 0 THEN s ELSE [s EXCEPT ![At(s, n)].fname = m]

Ascending(s) == \A i \in 1..(Len(s) - 1) : s[i].freq <= s[i + 1].freq
-----------------------------------------------------------------------------
(* Operators on the disks f. *)

is_symlink_ssd(f, n) == f.ssd[n] = Away /\ f.hdd[n] \in Ids

\* The file a user has under the name n.
FileOf(f, n) == IF is_symlink_ssd(f, n) THEN f.hdd[n] ELSE IF f.ssd[n] \in Ids THEN f.ssd[n] ELSE None

\* opendir and readdir: what is on the ssd, links too.
readdir == {n \in Names : fs.ssd[n] # None}

\* get_used_ssd: the sizes of what is on the ssd; links count for nothing.
get_used_ssd(f) == Cardinality({n \in Names : f.ssd[n] \in Ids /\ f.content[f.ssd[n]] > 0})

\* Mutant: a full disk is not yet over its limit with one more file.
ssd_is_full_Late(f) == limited /\ get_used_ssd(f) > Total + 1
ssd_is_full(f) == limited /\ get_used_ssd(f) > Total

\* A file number that nothing leads to is empty.
Reachable(f) == {f.ssd[n] : n \in Names} \cup {f.hdd[n] : n \in Names} \cup {f.handle[h] : h \in Handles}
Tidy(f) == [f EXCEPT !.content = [i \in Ids |-> IF i \in Reachable(f) THEN @[i] ELSE 0],
                     !.mode = [i \in Ids |-> IF i \in Reachable(f) THEN @[i] ELSE 0],
                     !.target = [n \in Names |-> IF f.ssd[n] = Away THEN @[n] ELSE n]]

\* mv, then symlink.  What is open keeps the copy that mv removes.  A link that
\* stands on the ssd is moved as a link; without the directory nothing moves, and
\* the link is made only where nothing stands.
move_file_ssd(f, n) ==
    IF f.ssd[n] # None /\ (n \in InDir => hdir)
    THEN [f EXCEPT !.hdd[n] = f.ssd[n], !.ssd[n] = Away, !.target[n] = n,
                   !.own = [h \in Handles |-> IF f.handle[h] # None /\ f.handle[h] = f.ssd[n] /\ @[h] = None
                                              THEN f.content[f.ssd[n]] ELSE @[h]]]
    ELSE IF f.ssd[n] = None THEN [f EXCEPT !.ssd[n] = Away, !.target[n] = n] ELSE f

\* Mutant: an empty file is made where the link was.
move_file_hdd_Bare(f, n) ==
    [f EXCEPT !.ssd[n] = f.hdd[n], !.hdd[n] = None, !.content[f.hdd[n]] = 0]

\* unlink, then mv.
move_file_hdd(f, n) == [f EXCEPT !.ssd[n] = f.hdd[n], !.hdd[n] = None]

\* While the ssd is full and the queue has entries, the first one is moved.
After(f) == LET e[k \in 0..Len(queue)] ==
                    IF k = 0 THEN f ELSE move_file_ssd(e[k - 1], queue[k].fname)
            IN e
Rounds(f) == Min({k \in 0..Len(queue) : k = Len(queue) \/ ~ssd_is_full(After(f)[k])})
MadeRoom(f) == After(f)[Rounds(f)]
Kept(f) == SubSeq(queue, Rounds(f) + 1, Len(queue))

MayCount(n) == At(queue, n) # 0 => queue[At(queue, n)].freq < MaxFreq

MayMake == ~(Ids \subseteq Reachable(fs))   \* bound: files at the same time

TakesNoOpen(f) == "evictOpen" \in Careless \/ \A h \in Handles : f.own[h] = None
-----------------------------------------------------------------------------
(* The handlers.  The kernel looks a name up before it calls them. *)

Call == seen' = 0 /\ UNCHANGED <<sdir, hdir, mounted, limited, lru>>

\* creat opens the file for writing only, whatever flags the caller has.
create(n, h) ==
    /\ mounted /\ fs.ssd[n] = None /\ fs.handle[h] = None /\ (n \in InDir => sdir) /\ MayMake
    /\ LET f == MadeRoom(fs)
           i == Min(Ids \ Reachable(fs))
       IN /\ TakesNoOpen(f)
          /\ fs' = Tidy([f EXCEPT !.ssd[n] = i, !.handle[h] = i, !.wronly = @ \cup {h}])
    /\ queue' = Inserted(Kept(fs), n)
    /\ known' = known \cup {n} /\ Call

\* mknod of a regular file makes no room and no entry.
mknod(n) ==
    /\ mounted /\ fs.ssd[n] = None /\ (n \in InDir => sdir)
    /\ MayMake
    /\ fs' = [fs EXCEPT !.ssd[n] = Min(Ids \ Reachable(fs))]
    /\ UNCHANGED <<queue, known>> /\ Call

\* A link whose file is gone cannot be opened; the entry is made all the same.  A handle
\* reads and writes here: the kernel refuses what its flags exclude before it calls.
open(n, h) ==
    /\ mounted /\ fs.ssd[n] # None /\ fs.handle[h] = None /\ MayCount(n)
    /\ LET away == is_symlink_ssd(fs, n)
           f == IF away THEN move_file_hdd(MadeRoom(fs), n) ELSE fs
       IN /\ TakesNoOpen(f)
          /\ fs' = Tidy(IF f.ssd[n] \in Ids THEN [f EXCEPT !.handle[h] = f.ssd[n]] ELSE f)
          /\ queue' = Inserted(IF away THEN Kept(fs) ELSE queue, n)
    /\ known' = known \cup {n} /\ Call

write(h) ==
    /\ mounted /\ fs.handle[h] # None /\ fs.content[fs.handle[h]] < MaxVersion
    /\ fs' = IF fs.own[h] = None THEN [fs EXCEPT !.content[fs.handle[h]] = @ + 1]
                                 ELSE [fs EXCEPT !.own[h] = @ + 1]
    /\ UNCHANGED <<queue, known>> /\ Call

\* pread fails on a handle for writing only.
read(h) ==
    /\ mounted /\ fs.handle[h] # None
    /\ "readCreated" \in Careless \/ h \notin fs.wronly
    /\ seen' = IF h \in fs.wronly THEN Ebadf
               ELSE IF fs.own[h] = None THEN fs.content[fs.handle[h]] ELSE fs.own[h]
    /\ UNCHANGED <<fs, queue, known, sdir, hdir, mounted, limited, lru>>

release(h) ==
    /\ mounted /\ fs.handle[h] # None
    /\ fs' = Tidy([fs EXCEPT !.handle[h] = None, !.own[h] = None, !.wronly = @ \ {h}])
    /\ UNCHANGED <<queue, known>> /\ Call

truncate(n) ==
    /\ mounted /\ FileOf(fs, n) # None
    /\ fs' = [fs EXCEPT !.content[FileOf(fs, n)] = 0]
    /\ UNCHANGED <<queue, known>> /\ Call

ftruncate(h) ==
    /\ mounted /\ fs.handle[h] # None
    /\ fs' = IF fs.own[h] = None THEN [fs EXCEPT !.content[fs.handle[h]] = 0]
                                 ELSE [fs EXCEPT !.own[h] = 0]
    /\ UNCHANGED <<queue, known>> /\ Call

\* getattr, fgetattr by a path: what it tells of the file.
getattr(n) ==
    /\ mounted /\ fs.ssd[n] # None
    /\ seen' = IF is_symlink_ssd(fs, n) THEN fs.content[fs.hdd[n]]
               ELSE IF fs.ssd[n] = Away THEN Away ELSE fs.content[fs.ssd[n]]
    /\ UNCHANGED <<fs, queue, known, sdir, hdir, mounted, limited, lru>>

\* chmod, chown and utime: the file on the hdd, then what the path on the ssd leads to.
chmod(n) ==
    /\ mounted /\ FileOf(fs, n) # None
    /\ "chmodMoved" \in Careless \/ fs.target[n] = n
    /\ \A i \in Ids : fs.mode[i] # 0 => i = FileOf(fs, n)   \* bound: one file has another mode
    /\ LET i == FileOf(fs, n)
           j == IF fs.ssd[n] = Away THEN fs.hdd[fs.target[n]] ELSE i
       IN \E v \in Modes \ {fs.mode[i]} :
             fs' = [fs EXCEPT !.mode = [k \in Ids |-> IF k \in {i, j} THEN v ELSE @[k]]]
    /\ UNCHANGED <<queue, known>> /\ Call

\* setxattr and removexattr, which follow no link: an attribute of one file, kept
\* with its mode.
setxattr(n) ==
    /\ mounted /\ FileOf(fs, n) # None
    /\ \A i \in Ids : fs.mode[i] # 0 => i = FileOf(fs, n)   \* bound: as for chmod
    /\ \E v \in Modes \ {fs.mode[FileOf(fs, n)]} : fs' = [fs EXCEPT !.mode[FileOf(fs, n)] = v]
    /\ UNCHANGED <<queue, known>> /\ Call

\* Mutant: the file on the hdd stays.
unlink_Link(n) ==
    /\ mounted /\ fs.ssd[n] # None
    /\ fs' = Tidy([fs EXCEPT !.ssd[n] = None])
    /\ queue' = Without(queue, n)
    /\ known' = known \ {n} /\ Call

unlink(n) ==
    /\ mounted /\ fs.ssd[n] # None
    /\ fs' = Tidy([fs EXCEPT !.ssd[n] = None, !.hdd[n] = IF is_symlink_ssd(fs, n) THEN None ELSE @])
    /\ queue' = Without(queue, n)
    /\ known' = known \ {n} /\ Call

\* Bound: hard links are made only where no file is moved.  A file on the hdd
\* cannot be linked into the ssd.
link(n, m) ==
    /\ mounted /\ ~limited /\ fs.ssd[n] \in Ids /\ fs.ssd[m] = None /\ (m \in InDir => sdir)
    /\ fs' = [fs EXCEPT !.ssd[m] = fs.ssd[n]]
    /\ UNCHANGED <<queue, known>> /\ Call

\* A file on the hdd is renamed there, and its link on the ssd is renamed as it is.
\* A file on the ssd gets a new name in its entry; without one the mount crashes.
rename(n, m) ==
    /\ mounted /\ fs.ssd[n] # None /\ n # m /\ (m \in InDir => sdir)
    /\ "renameOver" \in Careless \/ fs.ssd[m] = None
    /\ IF is_symlink_ssd(fs, n)
       THEN /\ fs' = Tidy([fs EXCEPT !.ssd = [@ EXCEPT ![m] = Away, ![n] = None],
                                     !.hdd = [@ EXCEPT ![m] = fs.hdd[n], ![n] = None],
                                     !.target[m] = fs.target[n]])
            /\ UNCHANGED <<queue, mounted>>
       ELSE IF At(queue, n) # 0
       THEN /\ fs' = Tidy([fs EXCEPT !.ssd = [@ EXCEPT ![m] = fs.ssd[n], ![n] = None],
                                     !.target[m] = fs.target[n]])
            /\ queue' = Renamed(queue, n, m) /\ UNCHANGED mounted
       ELSE mounted' = FALSE /\ UNCHANGED <<fs, queue>>
    /\ known' = IF mounted' THEN (known \ {n}) \cup (IF n \in known THEN {m} ELSE {}) ELSE known
    /\ seen' = 0 /\ UNCHANGED <<sdir, hdir, limited, lru>>

\* rename of the directory: it has no entry.
renameDir ==
    /\ mounted /\ sdir /\ mounted' = FALSE
    /\ seen' = 0 /\ UNCHANGED <<fs, sdir, hdir, queue, known, limited, lru>>

mkdir ==
    /\ mounted /\ ~sdir /\ sdir' = TRUE /\ hdir' = TRUE
    /\ UNCHANGED <<fs, queue, mounted, known, limited, lru>> /\ seen' = 0

\* Both directories are removed if they can be.
rmdir ==
    /\ mounted /\ sdir
    /\ "rmdirFilled" \in Careless \/ \A n \in InDir : fs.ssd[n] = None
    /\ sdir' = (\E n \in InDir : fs.ssd[n] # None)
    /\ hdir' = (hdir /\ \E n \in InDir : fs.hdd[n] # None)
    /\ UNCHANGED <<fs, queue, mounted, known, limited, lru>> /\ seen' = 0

\* The end of the process, wanted or not, and main once more: the disks stay.
Remount ==
    /\ fs' = Tidy([fs EXCEPT !.handle = [h \in Handles |-> None], !.own = [h \in Handles |-> None],
                         !.wronly = {}])
    /\ mounted' = TRUE /\ queue' = <<>> /\ known' = {}
    /\ seen' = 0 /\ UNCHANGED <<sdir, hdir, limited, lru>>

Next == \/ Remount \/ mkdir \/ rmdir \/ renameDir
        \/ \E h \in Handles : write(h) \/ read(h) \/ ftruncate(h) \/ release(h)
        \/ \E n \in Names, h \in Handles : create(n, h) \/ open(n, h)
        \/ \E n \in Names : \/ mknod(n) \/ getattr(n) \/ truncate(n)
                          \/ chmod(n) \/ setxattr(n) \/ unlink(n)
        \/ \E n, m \in Names : link(n, m) \/ rename(n, m)

Spec == Init /\ [][Next]_vars
-----------------------------------------------------------------------------
P == INSTANCE PlainFiles WITH
        tree <- [n \in Names |-> FileOf(fs, n)], content <- fs.content, mode <- fs.mode,
        opened <- fs.handle

\* Moving files between the disks (move_file_ssd, move_file_hdd) is never seen: each
\* handler does to names, contents, modes and handles what a file system of one
\* disk does in its place.
KeepsFiles ==
    /\ \A h \in Handles :
          /\ write(h) => P!Write(h)
          /\ read(h) => P!Read(h)
          /\ ftruncate(h) => P!Empty(h)
          /\ release(h) => P!Release(h)
          /\ \A n \in Names : /\ create(n, h) => P!Create(n, h)
                             /\ open(n, h) => P!Open(n, h)
    /\ \A n \in Names :
          /\ truncate(n) => P!Truncate(n)
          /\ mknod(n) => P!Mknod(n)
          /\ getattr(n) => P!Getattr(n)
          /\ chmod(n) \/ setxattr(n) => P!Chmod(n)
          /\ unlink(n) => P!Unlink(n)
          /\ \A m \in Names : /\ link(n, m) => P!Link(n, m)
                             /\ rename(n, m) /\ mounted' => P!Rename(n, m)
    /\ Remount => P!Remount
    /\ mkdir \/ rmdir => P!Other

OneDisk == [][KeepsFiles]_vars

\* A file is in one place (schfs.c unlink, rename, open): what is on the hdd has its
\* link on the ssd, and a link has its file.
\* What schfs_readdir lists is what users can open.
OnePlace == /\ \A n \in Names : (fs.hdd[n] # None) <=> (fs.ssd[n] = Away)
            /\ readdir = {n \in Names : FileOf(fs, n) # None}

\* Every file created or opened since the mount can be moved out, and what can be
\* moved is a file on the ssd (insque and rmelem in every handler).
Evictable == /\ \A i \in DOMAIN queue : fs.ssd[queue[i].fname] \in Ids
             /\ \A n \in known : fs.ssd[n] \in Ids => At(queue, n) # 0

\* schfs_create leaves no more on the ssd than its limit, and schfs_open of a file
\* on the hdd the limit and that file, unless there is nothing left to move out.
KeepsLimit ==
    limited => \A n \in Names, h \in Handles :
        /\ create(n, h) => get_used_ssd(fs') <= Total \/ Len(queue') = 1
        /\ is_symlink_ssd(fs, n) /\ open(n, h)
               => get_used_ssd(fs') <= Total + 1 \/ Len(queue') = 1
LimitHolds == [][KeepsLimit]_vars

\* copy_dir_ssd and schfs_rmdir: the trees on the two disks are the same.
TreesInStep == sdir = hdir
=============================================================================
