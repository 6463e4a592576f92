--------------------------- MODULE UDTRcvLossList ---------------------------
(***************************************************************************)
(* CRcvLossList (udt/src/list.cpp): the numbers a receiver misses, as ranges *)
(* in a circular array with links both ways.  The receiver drives it as      *)
(* processData and the drop request of core.cpp do: una is the first number  *)
(* not acknowledged, cur the newest that arrived, and a packet is looked at  *)
(* when it falls in the window behind una.                                  *)
(***************************************************************************)
EXTENDS UDTSeqNo, Sequences

CONSTANTS Size,       \* m_iSize: the flight window
          DropAcross  \* whether a dropped message may span MaxSeqNo and 0

VARIABLES list, una, cur, ret

vars == <<list, una, cur, ret>>

Place == 0..(Size - 1)

\* start, end, next, prior: m_piData1, m_piData2, m_piNext, m_piPrior.
\* The links of a free place are never read and are None here.
Empty == [start |-> [p \in Place |-> None], end |-> [p \in Place |-> None],
          next |-> [p \in Place |-> None], prior |-> [p \in Place |-> None],
          head |-> None, tail |-> None, length |-> 0]

Init == list = Empty /\ una = 0 /\ cur = MaxSeqNo /\ ret = 0
-----------------------------------------------------------------------------
(* Operators on a list l. *)

Final(l, p) == IF l.end[p] = None THEN l.start[p] ELSE l.end[p]

Put(l, p, a, b) == [l EXCEPT !.start[p] = a, !.end[p] = IF b = a THEN @ ELSE b]

PlaceOf(l, s) == (l.head + SeqOff(l.start[l.head], s)) % Size

\* All numbers of the list come before a.
Inserted(l, a, b) ==
    IF l.length = 0
    THEN [Put(l, 0, a, b) EXCEPT !.head = 0, !.tail = 0, !.length = SeqLen(a, b)]
    ELSE LET p == PlaceOf(l, a)
             longer == [l EXCEPT !.length = @ + SeqLen(a, b)]
         IN IF l.end[l.tail] # None /\ IncSeq(l.end[l.tail]) = a
            THEN [longer EXCEPT !.end[l.tail] = b]
            ELSE [Put(longer, p, a, b) EXCEPT !.next[l.tail] = p, !.prior[p] = l.tail,
                                              !.tail = p]

\* The links f with the neighbour p, if there is one, led to q.
Linked(f, p, q) == IF p = None THEN f ELSE [f EXCEPT ![p] = q]

\* The range at p is one number: the place is given back.
Unlinked(l, p) ==
    [l EXCEPT !.head = IF @ = p THEN l.next[p] ELSE @,
              !.tail = IF @ = p /\ l.head # p THEN l.prior[p] ELSE @,
              !.next = [Linked(@, l.prior[p], l.next[p]) EXCEPT ![p] = None],
              !.prior = [Linked(@, l.next[p], l.prior[p]) EXCEPT ![p] = None],
              !.start[p] = None]

\* Mutant: the range behind is not linked back to the new place.
Shifted_OneWay(l, p) ==
    LET q == (p + 1) % Size IN
    [Put(l, q, IncSeq(l.start[p]), l.end[p]) EXCEPT
        !.start[p] = None, !.end[p] = None,
        !.next = [Linked(@, l.prior[p], q) EXCEPT ![q] = l.next[p], ![p] = None],
        !.prior = [@ EXCEPT ![q] = l.prior[p], ![p] = None],
        !.head = IF @ = p THEN q ELSE @, !.tail = IF @ = p THEN q ELSE @]

\* The first number of the range at p goes: the rest starts in the next place.
Shifted(l, p) ==
    LET q == (p + 1) % Size IN
    [Put(l, q, IncSeq(l.start[p]), l.end[p]) EXCEPT
        !.start[p] = None, !.end[p] = None,
        !.next = [Linked(@, l.prior[p], q) EXCEPT ![q] = l.next[p], ![p] = None],
        !.prior = [Linked(@, l.next[p], q) EXCEPT ![q] = l.prior[p], ![p] = None],
        !.head = IF @ = p THEN q ELSE @, !.tail = IF @ = p THEN q ELSE @]

\* The range at p without s and what follows it.
CutAt(l, p, s) == [l EXCEPT !.end[p] = IF s = IncSeq(l.start[p]) THEN None ELSE DecSeq(s)]

\* s inside the range at p: what follows s becomes a range of its own.
Split(l, p, s) ==
    LET q == (PlaceOf(l, s) + 1) % Size IN
    [Put(CutAt(l, p, s), q, IncSeq(s), l.end[p]) EXCEPT
        !.next = [@ EXCEPT ![q] = l.next[p], ![p] = q],
        !.prior = [Linked(@, l.next[p], q) EXCEPT ![q] = p],
        !.tail = IF @ = p THEN q ELSE @]

\* The nearest place before p that holds a range.
RECURSIVE Before(_, _)
Before(l, p) == LET q == (p - 1 + Size) % Size
                IN IF l.start[q] # None THEN q ELSE Before(l, q)

Removed(l, s) ==
    IF l.length = 0 \/ SeqOff(l.start[l.head], s) < 0 THEN l
    ELSE LET p == PlaceOf(l, s)
             less == [l EXCEPT !.length = @ - 1]
             q == Before(l, p)
         IN IF l.start[p] = s THEN IF l.end[p] = None THEN Unlinked(less, p) ELSE Shifted(less, p)
            ELSE IF l.end[q] = None \/ SeqCmp(s, l.end[q]) > 0 THEN l
            ELSE IF s = l.end[q] THEN CutAt(less, q, s)
            ELSE Split(less, q, s)

RECURSIVE RemovedAll(_, _, _)
RemovedAll(l, a, b) == IF a > b THEN l ELSE RemovedAll(Removed(l, a), a + 1, b)

\* Across the wrap the first loop stops before MaxSeqNo.
RemovedRange(l, a, b) ==
    IF a <= b THEN RemovedAll(l, a, b)
    ELSE RemovedAll(RemovedAll(l, a, MaxSeqNo - 1), 0, b)

RECURSIVE Nodes(_, _)
Nodes(l, p) == IF p = None THEN <<>> ELSE <<p>> \o Nodes(l, l.next[p])

NodesOf(l) == IF l.length = 0 THEN <<>> ELSE Nodes(l, l.head)
-----------------------------------------------------------------------------
(* The calls. *)

InWindow == {IncSeqBy(una, n) : n \in 0..(Size - 1)}

\* A packet behind the newest one: what lies between is missing.
insert(s) == /\ SeqOff(cur, s) > 0
             /\ list' = IF SeqOff(cur, s) > 1 THEN Inserted(list, IncSeq(cur), DecSeq(s)) ELSE list
             /\ ret' = list'.length - list.length
             /\ cur' = s /\ UNCHANGED una

\* A packet sent again.
remove(s) == /\ SeqOff(cur, s) <= 0
             /\ list' = Removed(list, s)
             /\ ret' = IF list'.length = list.length THEN 0 ELSE 1
             /\ UNCHANGED <<una, cur>>

\* The numbers of a message that the sender has given up.
removeRange(a, b) ==
    /\ list' = RemovedRange(list, a, b)
    /\ ret' = 1
    /\ cur' = IF SeqCmp(a, IncSeq(cur)) <= 0 /\ SeqCmp(b, cur) > 0 THEN b ELSE cur
    /\ UNCHANGED una

\* Mutant: a range that starts before the first number is not looked into.
find_Starts(a, b) ==
    /\ ret' = IF \E i \in DOMAIN NodesOf(list) : LET c == list.start[NodesOf(list)[i]] IN
                    SeqCmp(c, a) >= 0 /\ SeqCmp(c, b) <= 0
              THEN 1 ELSE 0
    /\ UNCHANGED <<list, una, cur>>

find(a, b) ==
    /\ ret' = IF \E p \in {NodesOf(list)[i] : i \in DOMAIN NodesOf(list)} :
                    LET c == list.start[p] IN
                    \/ SeqCmp(c, a) = 0
                    \/ SeqCmp(c, a) > 0 /\ SeqCmp(c, b) <= 0
                    \/ SeqCmp(c, a) < 0 /\ list.end[p] # None /\ SeqCmp(list.end[p], a) >= 0
              THEN 1 ELSE 0
    /\ UNCHANGED <<list, una, cur>>

getFirstLostSeq == /\ ret' = IF list.length = 0 THEN None ELSE list.start[list.head]
                   /\ UNCHANGED <<list, una, cur>>

\* An acknowledgement names the first number missing.
Acknowledge == /\ una' = IF list.length = 0 THEN IncSeq(cur) ELSE list.start[list.head]
               /\ UNCHANGED <<list, cur, ret>>

Next == \/ getFirstLostSeq \/ Acknowledge
        \/ \E s \in InWindow : insert(s) \/ remove(s)
        \/ \E a, b \in InWindow : /\ SeqOff(a, b) >= 0
                                  /\ \/ (DropAcross \/ a <= b) /\ removeRange(a, b)
                                     \/ find(a, b)

Spec == Init /\ [][Next]_vars
-----------------------------------------------------------------------------
\* getLossArray: the report of what is missing, a pair for a range and one
\* number for a single loss, as long as less than limit - 1 entries are used.
RECURSIVE Report(_, _, _)
Report(l, nodes, room) ==
    IF nodes = <<>> \/ room <= 1 THEN {}
    ELSE LET p == Head(nodes) IN
         {<<l.start[p], Final(l, p)>>}
             \cup Report(l, Tail(nodes), room - (IF l.end[p] = None THEN 1 ELSE 2))

getLossArray(limit) == Report(list, NodesOf(list), limit)

Numbers(l) == LET N == NodesOf(l) IN
              UNION {Between(l.start[N[i]], Final(l, N[i])) : i \in DOMAIN N}

\* The number of losses the receiver counts is the number in its ranges, the
\* ranges are apart, in order and linked both ways, each is where its number puts
\* it, nothing else is left in the arrays, and a report with room names them all.
ListIsSound ==
    LET N == NodesOf(list)
        Held == {N[i] : i \in DOMAIN N}
    IN /\ list.length = Cardinality(Numbers(list))
       /\ {p \in Place : list.start[p] # None} = Held
       /\ \A p \in Place \ Held : list.end[p] = None
       /\ N # <<>> => list.tail = N[Len(N)] /\ list.prior[list.head] = None
       /\ \A i \in DOMAIN N : /\ N[i] = PlaceOf(list, list.start[N[i]])
                              /\ i > 1 => /\ list.prior[N[i]] = N[i - 1]
                                          /\ SeqOff(Final(list, N[i - 1]), list.start[N[i]]) > 0
       /\ Numbers(list) = UNION {Between(r[1], r[2]) : r \in getLossArray(2 * Size + 2)}

\* To its callers it is a set of numbers: what each call adds, takes and returns is
\* what a set of the same numbers would.
L == INSTANCE LossSet WITH lost <- Numbers(list)

Skipped(s) == IF SeqOff(cur, s) > 1 THEN Between(IncSeq(cur), DecSeq(s)) ELSE {}

KeepsSet ==
    /\ getFirstLostSeq => L!First
    /\ \A s \in InWindow : /\ insert(s) => L!Insert(Skipped(s))
                           /\ remove(s) => L!RemoveOne(s)
    /\ \A a, b \in InWindow : SeqOff(a, b) >= 0 =>
         /\ (DropAcross \/ a <= b) /\ removeRange(a, b) => L!RemoveRange(Between(a, b))
         /\ find(a, b) => L!Find(Between(a, b))
=============================================================================
