-------------------------------- MODULE NoVoHT --------------------------------
(***************************************************************************)
(* The hash table of a ZHT server, novoht.cpp: an array of chains that     *)
(* doubles when it is full, and a file with one record per write.  A record *)
(* that is out of date is marked dead in place; the file is rewritten once  *)
(* enough keys were removed, when the table is opened and when it is closed. *)
(*                                                                         *)
(* The file is written through stdio: what an operation writes stays in a   *)
(* buffer until the next operation moves the position, and a crash loses    *)
(* it.  Keys and values are not empty and contain no tab, and the records   *)
(* are numbered, not measured in bytes.                                     *)
(***************************************************************************)
EXTENDS Integers, FiniteSets, SequencesExt

CONSTANTS
    Key, Val,        \* keys and values
    NoVal,           \* the value of a missing key
    Hash,            \* Hash[k]: the hash of a key
    FirstSize,       \* the size the table is constructed with
    LoadNum, LoadDen, \* resizeNum as a fraction; 0 for a table of fixed size
    MagicNumber,     \* removals before the file is rewritten
    MaxRecords       \* bound on the records of the file

ASSUME HashAssumption == Hash \in [Key -> Nat]
ASSUME SizeAssumption == FirstSize \in Nat \ {0} /\ LoadNum \in Nat /\ LoadDen \in Nat \ {0}
ASSUME FileAssumption == MagicNumber \in Nat \ {0} /\ MaxRecords \in Nat
ASSUME NoValAssumption == NoVal \notin Val

VARIABLES
    dbfile,   \* was it given the name of a file?  (the ZHT server gives it none)
    open,     \* is the table open?
    kvpairs,  \* the chains: a sequence of sequences of pairs
    numEl,    \* the count of elements the load is measured by
    nRem,     \* removals since the file was rewritten
    db,       \* the file: its records, and what is still in the buffer
    ret       \* what the last operation returned

vars == <<dbfile, open, kvpairs, numEl, nRem, db, ret>>

Pair   == [key : Key, val : Val, pos : Nat]
Record == [key : Key, val : Val, dead : BOOLEAN]

\* disk: what is in the file; mark: a record whose mark is in the buffer, or 0;
\* tail: the records in the buffer, that go to the end of the file.
File    == [disk : Seq(Record), mark : Nat, tail : Seq(Record)]
NoFile  == [disk |-> <<>>, mark |-> 0, tail |-> <<>>]
-----------------------------------------------------------------------------
(* The file.  Every operation on it moves the position first, which writes  *)
(* out what the buffer holds.                                               *)
Marked(recs, i) == IF i = 0 THEN recs ELSE [recs EXCEPT ![i].dead = TRUE]
Flushed(f)      == [disk |-> Marked(f.disk, f.mark) \o f.tail, mark |-> 0, tail |-> <<>>]

\* write: at the end; the pair remembers where.
End(f)          == Len(Flushed(f).disk) + 1
Written(f, k, v) == [Flushed(f) EXCEPT !.tail = <<[key |-> k, val |-> v, dead |-> FALSE]>>]

\* mark: a '~' over the first character of the record.
Mark(f, i)      == [Flushed(f) EXCEPT !.mark = i]

\* put of a key that is there: mark its record, write a new one.
Updated(f, i, k, v) == Written(Mark(f, i), k, v)

\* writeFile: truncate the file, write every pair, note the positions.
Records(pairs) == [i \in DOMAIN pairs |->
                      [key |-> pairs[i].key, val |-> pairs[i].val, dead |-> FALSE]]
Rewritten(pairs) == [disk |-> <<>>, mark |-> 0, tail |-> Records(pairs)]
-----------------------------------------------------------------------------
(* The table. *)
EmptyTable(n) == [i \in 1 .. n |-> <<>>]
Slot(k, n)    == (Hash[k] % n) + 1
Find(chain, k) == SelectInSeq(chain, LAMBDA p : p.key = k)

\* The pairs in the order writeFile and resize go through them.
PairsOf(table) == FlattenSeq(table)

\* resize: every pair is put in front of its new chain.
Resized(table, n) ==
    LET pairs == PairsOf(table)
        moved[j \in 0 .. Len(pairs)] ==
            IF j = 0 THEN EmptyTable(n)
            ELSE [moved[j - 1] EXCEPT ![Slot(pairs[j].key, n)] = <<pairs[j]>> \o @]
    IN  moved[Len(pairs)]

\* writeFile gives every pair the position it was written at.
Repositioned(table) ==
    [s \in DOMAIN table |->
        [j \in DOMAIN table[s] |->
            [table[s][j] EXCEPT !.pos =
                SelectInSeq(PairsOf(table), LAMBDA p : p.key = table[s][j].key)]]]

\* Mutant of Compacted: the positions are not noted.
Compacted_OldPositions(table) ==
    /\ kvpairs' = table
    /\ db' = IF dbfile THEN Rewritten(PairsOf(table)) ELSE db
Compacted(table) ==
    /\ kvpairs' = IF dbfile THEN Repositioned(table) ELSE table
    /\ db' = IF dbfile THEN Rewritten(PairsOf(table)) ELSE db
-----------------------------------------------------------------------------
Init ==
    /\ dbfile \in BOOLEAN
    /\ open = TRUE
    /\ kvpairs = EmptyTable(FirstSize)
    /\ numEl = 0
    /\ nRem = 0
    /\ db = NoFile
    /\ ret = NoVal

\* The load is checked before every put, and a resize leaves the count at 0.
Full == LoadNum # 0 /\ numEl * LoadDen >= Len(kvpairs) * LoadNum

put(k, v) ==
    LET table == IF Full THEN Resized(kvpairs, 2 * Len(kvpairs)) ELSE kvpairs
        count == IF Full THEN 0 ELSE numEl
        s     == Slot(k, Len(table))
        i     == Find(table[s], k)
        at    == IF dbfile THEN End(db) ELSE 0
    IN  /\ open
        /\ End(db) <= MaxRecords
        /\ \/ /\ i # 0
              /\ kvpairs' = [table EXCEPT ![s][i] = [key |-> k, val |-> v, pos |-> at]]
              /\ numEl' = count
              /\ db' = IF dbfile THEN Updated(db, table[s][i].pos, k, v) ELSE db
           \/ /\ i = 0
              /\ kvpairs' = [table EXCEPT ![s] = Append(@, [key |-> k, val |-> v, pos |-> at])]
              /\ numEl' = count + 1
              /\ db' = IF dbfile THEN Written(db, k, v) ELSE db
        /\ ret' = "done"
        /\ UNCHANGED <<dbfile, open, nRem>>

get(k) ==
    LET s == Slot(k, Len(kvpairs))
        i == Find(kvpairs[s], k)
    IN  /\ open
        /\ ret' = IF i = 0 THEN NoVal ELSE kvpairs[s][i].val
        /\ UNCHANGED <<dbfile, open, kvpairs, numEl, nRem, db>>

\* Mutant of remove: the rest of the chain goes with the pair.
remove_CutsChain(k) ==
    LET s == Slot(k, Len(kvpairs))
        i == Find(kvpairs[s], k)
    IN  /\ open
        /\ i # 0
        /\ numEl' = numEl - 1
        /\ nRem' = (nRem + 1) % MagicNumber
        /\ kvpairs' = [kvpairs EXCEPT ![s] = SubSeq(@, 1, i - 1)]
        /\ db' = IF dbfile THEN Mark(db, kvpairs[s][i].pos) ELSE db
        /\ ret' = "done"
        /\ UNCHANGED <<dbfile, open>>

remove(k) ==
    LET s     == Slot(k, Len(kvpairs))
        i     == Find(kvpairs[s], k)
        table == [kvpairs EXCEPT ![s] = RemoveAt(@, i)]
    IN  /\ open
        /\ \/ /\ i = 0
              /\ ret' = "missing"
              /\ UNCHANGED <<kvpairs, numEl, nRem, db>>
           \/ /\ i # 0
              /\ numEl' = numEl - 1
              /\ \/ /\ nRem + 1 < MagicNumber
                    /\ nRem' = nRem + 1
                    /\ kvpairs' = table
                    /\ db' = IF dbfile THEN Mark(db, kvpairs[s][i].pos) ELSE db
                 \/ /\ nRem + 1 = MagicNumber
                    /\ nRem' = 0
                    /\ Compacted(table)
              /\ ret' = "done"
        /\ UNCHANGED <<dbfile, open>>
-----------------------------------------------------------------------------
(* Close, crash and open.                                                   *)
Gone == /\ open' = FALSE
        /\ kvpairs' = EmptyTable(FirstSize)
        /\ numEl' = 0
        /\ nRem' = 0
        /\ UNCHANGED <<dbfile, ret>>

\* ~NoVoHT: write the file again and close it.
Close ==
    /\ dbfile /\ open
    /\ db' = Flushed(Rewritten(PairsOf(kvpairs)))
    /\ Gone

\* The process dies between two operations or while it writes the file again:
\* the buffer is lost, or was written in part.
Crash ==
    /\ dbfile /\ open
    /\ \E f \in {db, Rewritten(PairsOf(kvpairs))}, marked \in BOOLEAN :
       \E n \in 0 .. Len(f.tail) :
          db' = [NoFile EXCEPT !.disk = (IF marked THEN Marked(f.disk, f.mark) ELSE f.disk)
                                           \o SubSeq(f.tail, 1, n)]
    /\ Gone

Live(recs)  == {i \in DOMAIN recs : ~recs[i].dead}
FirstLive(recs) == recs[CHOOSE i \in Live(recs) : \A j \in Live(recs) : i <= j]

\* readFile: every live record is put, and put writes it at the end of the
\* file that is being read.  So the first live record is the last that is read;
\* then the file is rewritten with what was read.
Open ==
    LET first == FirstLive(db.disk)
        found == Live(db.disk) # {}
        table == IF ~found THEN EmptyTable(FirstSize)
                 ELSE [EmptyTable(FirstSize) EXCEPT ![Slot(first.key, FirstSize)] =
                          <<[key |-> first.key, val |-> first.val, pos |-> Len(db.disk) + 1]>>]
    IN  /\ ~open
        /\ open' = TRUE
        /\ numEl' = IF found THEN 1 ELSE 0
        /\ nRem' = 0
        /\ Compacted(table)
        /\ UNCHANGED <<dbfile, ret>>

\* The process dies while it opens the table, before the file is rewritten.
CrashOpening ==
    /\ ~open
    /\ Live(db.disk) # {} /\ Len(db.disk) < MaxRecords
    /\ db' = [db EXCEPT !.disk = Append(@, FirstLive(@))]
    /\ UNCHANGED <<dbfile, open, kvpairs, numEl, nRem, ret>>

Next ==
    \/ \E k \in Key : get(k) \/ remove(k) \/ \E v \in Val : put(k, v)
    \/ Close \/ Crash \/ Open \/ CrashOpening

Spec == Init /\ [][Next]_vars
-----------------------------------------------------------------------------
TypeOK ==
    /\ dbfile \in BOOLEAN
    /\ open \in BOOLEAN
    /\ kvpairs \in Seq(Seq(Pair)) /\ Len(kvpairs) > 0
    /\ numEl \in Int
    /\ nRem \in 0 .. MagicNumber - 1
    /\ db \in File
    /\ ret \in Val \union {NoVal, "done", "missing"}

Pairs == ToSet(PairsOf(kvpairs))

(* Every pair is in the chain of its hash, and no key has two pairs: what    *)
(* resize moves and remove unlinks is found again by get.                    *)
WellHashed ==
    /\ \A s \in DOMAIN kvpairs : \A j \in DOMAIN kvpairs[s] :
           Slot(kvpairs[s][j].key, Len(kvpairs)) = s
    /\ IsInjective([i \in DOMAIN PairsOf(kvpairs) |-> PairsOf(kvpairs)[i].key])

(* The file, with what the buffer will add to it, is the table: its live     *)
(* records are the pairs, and every pair knows the place of its record, so   *)
(* that mark hits the right one, also after the file was rewritten.          *)
FileIsTable ==
    open /\ dbfile =>
        LET recs == Flushed(db).disk IN
        /\ \A p \in Pairs : p.pos \in Live(recs) /\ recs[p.pos].key = p.key /\ recs[p.pos].val = p.val
        /\ Cardinality(Live(recs)) = Len(PairsOf(kvpairs))

(* Whenever the process dies, the file does not hold an old value of a key   *)
(* beside a new one: put marks the old record before it writes the new one,  *)
(* and the record that is read twice when the table is opened is the same.   *)
OneLiveValue ==
    \A i, j \in Live(db.disk) : db.disk[i].key = db.disk[j].key => db.disk[i] = db.disk[j]

(* Chains, records and counts agree in every state a caller or a crash can   *)
(* find the table in: put, remove, resize and the rewriting of the file keep *)
(* them together.                                                            *)
TableIsSound == TypeOK /\ WellHashed /\ FileIsTable /\ OneLiveValue

(* While it is open the table is a map: put, get and remove return and change *)
(* what they would on a map; resizing and rewriting the file change nothing.  *)
ValueOf(k) ==
    IF open
    THEN IF \E p \in Pairs : p.key = k THEN (CHOOSE p \in Pairs : p.key = k).val ELSE NoVal
    ELSE LET found == {i \in Live(db.disk) : db.disk[i].key = k}
         IN  IF found = {} THEN NoVal ELSE db.disk[CHOOSE i \in found : TRUE].val

KV == INSTANCE KeyValue WITH map <- [k \in Key |-> ValueOf(k)]
IsMap == KV!Init /\ [][open /\ open' => KV!Next]_vars

(* Opening the table reads back what the file holds, which is what makes it  *)
(* persistent.                                                             *)
OpenKeepsRecords ==
    [][~open /\ open' => \A k \in Key : ValueOf(k)' = ValueOf(k)]_vars
=============================================================================
