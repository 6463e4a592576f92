------------------------------ MODULE HyQueue ------------------------------
(***************************************************************************)
(* The cache queue of HyCache (hycache/util.c): inode_t entries in a doubly  *)
(* linked ring that insque and remque of the C library keep, with a head     *)
(* and a tail.  The queue is lru or lfu for the whole run (MODE_LRU).        *)
(***************************************************************************)
EXTENDS Integers, FiniteSets, FiniteSetsExt, SequencesExt

CONSTANTS Names,    \* paths of files
          Elems,    \* entries malloc may return
          MaxFreq   \* bound: uses of a file that are counted

VARIABLES q,        \* the ring: entries, head and tail
          lru       \* MODE_LRU

vars == <<q, lru>>

Null == 0

Init == /\ lru \in BOOLEAN
        /\ q = [next |-> [e \in Elems |-> Null], prev |-> [e \in Elems |-> Null],
                fname |-> [e \in Elems |-> Null], freq |-> [e \in Elems |-> 0],
                live |-> {}, head |-> Null, tail |-> Null]
-----------------------------------------------------------------------------
(* insque and remque of the C library, malloc and free. *)

insque(r, e, p) == [r EXCEPT !.next = [@ EXCEPT ![e] = r.next[p], ![p] = e],
                             !.prev = [@ EXCEPT ![e] = p, ![r.next[p]] = e]]

remque(r, e) == [r EXCEPT !.next[r.prev[e]] = r.next[e], !.prev[r.next[e]] = r.prev[e]]

free(r, e) == [r EXCEPT !.live = @ \ {e}, !.next[e] = Null, !.prev[e] = Null,
                        !.fname[e] = Null, !.freq[e] = 0]

malloc(r, e, n, f) == [r EXCEPT !.live = @ \cup {e}, !.fname[e] = n, !.freq[e] = f]
-----------------------------------------------------------------------------
(* The entries in the order of the list, as the searches walk it. *)

\* at[k] is k entries behind the head; the walk ends when it is there again.
Walk(r) ==
    LET c == Cardinality(Elems)
        at[k \in 0 .. c] == IF k = 0 THEN r.head ELSE r.next[at[k - 1]]
        n == Min({k \in 1 .. c : at[k] = r.head} \cup {c})
    IN IF r.head = Null THEN <<>> ELSE [i \in 1 .. n |-> at[i - 1]]

Contents(r) == [i \in DOMAIN Walk(r) |-> [fname |-> r.fname[Walk(r)[i]], freq |-> r.freq[Walk(r)[i]]]]

findelem(r, n) ==
    LET i == SelectInSeq(Walk(r), LAMBDA e : r.fname[e] = n)
    IN IF i = 0 THEN Null ELSE Walk(r)[i]

\* remque_lru, remque_lfu: the head leaves.
remqueHead(r) ==
    LET h == r.head IN
    IF r.next[h] = h THEN [free(r, h) EXCEPT !.head = Null, !.tail = Null]
                     ELSE free(remque([r EXCEPT !.head = r.next[h]], h), h)

rmelem(r, n) ==
    LET e == findelem(r, n) IN
    CASE e = Null             -> r
      [] e # Null /\ e = r.head -> remqueHead(r)
      [] e \notin {Null, r.head} /\ e = r.tail
                              -> free(remque([r EXCEPT !.tail = r.prev[e]], e), e)
      [] e \notin {Null, r.head, r.tail} -> free(remque(r, e), e)

\* The first entry of an empty queue.
Alone(r, e) == [insque([r EXCEPT !.next[e] = e, !.prev[e] = e], e, e) EXCEPT !.head = e, !.tail = e]

insque_lru(r, e) ==
    LET s == rmelem(r, r.fname[e]) IN
    IF s.head = Null THEN Alone(s, e) ELSE [insque(s, e, s.tail) EXCEPT !.tail = e]

\* Mutant: a file goes before those that were used as often.
get_pos_lfu_First(r, e) ==
    LET i == SelectInSeq(Walk(r), LAMBDA c : r.freq[e] <= r.freq[c])
    IN CASE i = 0 -> r.tail
         [] i = 1 -> Null
         [] OTHER -> r.prev[Walk(r)[i]]

\* The entry e is to come behind, or Null for the head.
get_pos_lfu(r, e) ==
    LET i == SelectInSeq(Walk(r), LAMBDA c : r.freq[e] < r.freq[c])
    IN CASE i = 0 -> r.tail
         [] i = 1 -> Null
         [] OTHER -> r.prev[Walk(r)[i]]

insque_lfu(r, e) ==
    LET f == findelem(r, r.fname[e])
        s == rmelem([r EXCEPT !.freq[e] = IF f = Null THEN @ ELSE r.freq[f] + 1], r.fname[e])
        p == get_pos_lfu(s, e)
    IN CASE s.head = Null -> Alone(s, e)
         [] s.head # Null /\ p = Null -> [insque(s, e, s.tail) EXCEPT !.head = e]
         [] s.head # Null /\ p # Null -> [insque(s, e, p) EXCEPT !.tail = IF p = s.tail THEN e ELSE @]
-----------------------------------------------------------------------------
(* The calls of the handlers in schfs.c. *)

\* schfs_open, schfs_create.  Entries are alike: malloc returns the least one.
Insert(n) ==
    \E e \in Elems \ q.live :
        /\ \A d \in Elems \ q.live : e <= d
        /\ findelem(q, n) # Null => q.freq[findelem(q, n)] < MaxFreq
        /\ q' = IF lru THEN insque_lru(malloc(q, e, n, 0), e) ELSE insque_lfu(malloc(q, e, n, 1), e)

\* schfs_unlink.
Unlink(n) == q' = rmelem(q, n)

\* schfs_open and schfs_create while the disk is full.
Evict == q.head # Null /\ q' = remqueHead(q)

\* schfs_rename of a file that has an entry.
Rename(n, m) ==
    /\ findelem(q, n) # Null
    /\ q' = [q EXCEPT !.fname[findelem(q, n)] = m]

Next == /\ UNCHANGED lru
        /\ \/ Evict
           \/ \E n \in Names : Insert(n) \/ Unlink(n)
           \/ \E n, m \in Names : n # m /\ Rename(n, m)

Spec == Init /\ [][Next]_vars
-----------------------------------------------------------------------------
\* The ring that head, tail and the links of util.c make holds every entry once,
\* is the same both ways, and ends at the tail; entries taken out leave no link.
RingIsWhole ==
    LET w == Walk(q) IN
    /\ q.live = {w[i] : i \in DOMAIN w} /\ Len(w) = Cardinality(q.live)
    /\ w # <<>> => /\ q.tail = w[Len(w)] /\ q.prev[w[1]] = q.tail
                   /\ \A i \in 1..(Len(w) - 1) : q.prev[w[i + 1]] = w[i]
=============================================================================
