------------------------------ MODULE MCHyCache ------------------------------
\* HyCache three times: three files and a queue of three, two files open at once,
\* two files with modes in an LFU queue; and the queue with the links of util.c.
\* part says which one runs, and what the others are for.
EXTENDS HyCache

CONSTANT Elems   \* entries of the ring

ASSUME ElemsAssumption == IsFiniteSet(Elems) /\ Elems \subseteq Nat \ {0}

VARIABLES part, q

Ring == INSTANCE HyQueue

HyInit == /\ part \in {"files", "opened", "attrs", "ring"}
          /\ Init /\ Ring!Init
          /\ part = "files"  => lru /\ limited
          /\ part = "opened" => lru
          /\ part = "attrs"  => ~lru
          /\ part = "ring"   => ~limited

\* Bounds: what each part does without.
OneHandle == \A h \in Handles : h # 1 => fs'.handle[h] = None
TwoNames  == \A n \in Names : n > 2 => fs'.ssd[n] = None
OneMode   == fs'.mode = fs.mode
MadeThenClosed == fs.wronly = {} \/ fs'.wronly = {}
OneMade   == fs'.wronly \subseteq {1}

HyNext == /\ UNCHANGED part
          /\ \/ part # "ring" /\ Next /\ UNCHANGED q
             \/ part = "ring" /\ Ring!Next /\ UNCHANGED vars
          /\ part = "files"  => OneHandle /\ OneMode /\ MadeThenClosed
          /\ part = "opened" => TwoNames /\ OneMode /\ OneMade
          /\ part = "attrs"  => TwoNames /\ OneHandle

HySpec == HyInit /\ [][HyNext]_<<part, q, vars>>
-----------------------------------------------------------------------------
\* A file is in one place, to which its link leads, what was opened since the mount can be
\* moved out, both disks have the same directories (schfs.c, every handler), and the
\* entries are a ring (util.c, as in HyQueue).
DisksAgree == IF part = "ring" THEN Ring!RingIsWhole ELSE OnePlace /\ Evictable /\ TreesInStep

\* Every call of util.c does to the entries, in the order of the ring, what HyCache says
\* of the queue, and an LFU queue is in the order of the counts.
KeepsOrder ==
    LET s == Ring!Contents(q) t == Ring!Contents(q') IN
    /\ \A n \in Names : Ring!Insert(n) => t = Inserted(s, n)
    /\ \A n \in Names : Ring!Unlink(n) => t = Without(s, n)
    /\ Ring!Evict => t = Tail(s)
    /\ \A n, m \in Names : Ring!Rename(n, m) => t = Renamed(s, n, m)
    /\ Ascending(t)

QueueKeepsOrder == [][part = "ring" => KeepsOrder]_q
-----------------------------------------------------------------------------
\* A directory that has a file is removed.
RmdirSpec == HyInit /\ part = "attrs" /\ [][HyNext]_<<part, q, vars>>
=============================================================================
