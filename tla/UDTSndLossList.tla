--------------------------- MODULE UDTSndLossList ---------------------------
(***************************************************************************)
(* CSndLossList (udt/src/list.cpp): the numbers a sender must send again, as *)
(* ranges in a circular array; the place of a range is its distance from the *)
(* first one.  The sender drives it as core.cpp does: una is the oldest      *)
(* number not acknowledged, cur the newest one sent, and every call names    *)
(* numbers between them.                                                    *)
(***************************************************************************)
EXTENDS UDTSeqNo

CONSTANTS Size,    \* m_iSize: twice the flow window
          Window   \* m_iFlowWindowSize

VARIABLES list,    \* the arrays and the counters
          una,     \* m_iSndLastAck
          cur,     \* m_iSndCurrSeqNo
          ret      \* what the last call returned

vars == <<list, una, cur, ret>>

Place == 0..(Size - 1)

\* start, end, next: m_piData1, m_piData2, m_piNext; last: m_iLastInsertPos.
\* The next of a free place is never read and is None here.
Empty == [start |-> [p \in Place |-> None], end |-> [p \in Place |-> None],
          next |-> [p \in Place |-> None], head |-> None, length |-> 0, last |-> None]

Init == list = Empty /\ una = 0 /\ cur = MaxSeqNo /\ ret = 0
-----------------------------------------------------------------------------
(* Operators on a list l. *)

Final(l, p) == IF l.end[p] = None THEN l.start[p] ELSE l.end[p]

\* A new range at place p; a single number leaves end[p] as it was.
Put(l, p, a, b) == [l EXCEPT !.start[p] = a, !.end[p] = IF b = a THEN @ ELSE b]

PlaceOf(l, s) == (l.head + SeqOff(l.start[l.head], s) + Size) % Size

\* The last range that starts before s, walking from place p.
RECURSIVE PriorFrom(_, _, _)
PriorFrom(l, p, s) ==
    IF l.next[p] # None /\ SeqCmp(l.start[l.next[p]], s) < 0
    THEN PriorFrom(l, l.next[p], s) ELSE p

\* The range at p made to end at b, if that is later.
Extended(l, p, b) ==
    IF SeqCmp(b, Final(l, p)) > 0
    THEN [l EXCEPT !.end[p] = b, !.length = @ + SeqLen(Final(l, p), b) - 1]
    ELSE l

\* Every range that the one at p reaches joined with it.
RECURSIVE Coalesced(_, _)
Coalesced(l, p) ==
    LET q == l.next[p] IN
    IF q = None \/ l.end[p] = None \/ SeqCmp(l.start[q], IncSeq(l.end[p])) > 0 THEN l
    ELSE LET further == SeqCmp(Final(l, q), l.end[p]) > 0
             both == IF ~further THEN SeqLen(l.start[q], Final(l, q))
                     ELSE IF SeqCmp(l.end[p], l.start[q]) >= 0 THEN SeqLen(l.start[q], l.end[p])
                     ELSE 0
         IN Coalesced([l EXCEPT !.length = @ - both,
                                !.end = [@ EXCEPT ![p] = IF further THEN Final(l, q) ELSE @,
                                                  ![q] = None],
                                !.start[q] = None,
                                !.next = [@ EXCEPT ![p] = l.next[q], ![q] = None]], p)

InsertedBefore(l, a, b) ==
    LET p == PlaceOf(l, a) IN
    Coalesced([Put(l, p, a, b) EXCEPT !.next[p] = l.head, !.head = p, !.last = p,
                                      !.length = @ + SeqLen(a, b)], p)

InsertedAt(l, p, b) ==
    LET x == Extended([l EXCEPT !.last = p], p, b) IN
    IF x.end = l.end THEN x ELSE Coalesced(x, p)

InsertedAfter(l, a, b) ==
    LET p == PlaceOf(l, a)
        from == IF l.last # None /\ SeqCmp(l.start[l.last], a) < 0 THEN l.last ELSE l.head
        i == PriorFrom(l, from, a)
    IN IF l.end[i] = None \/ SeqCmp(l.end[i], a) < 0
       THEN Coalesced([Put(l, p, a, b) EXCEPT
                         !.next = [@ EXCEPT ![p] = l.next[i], ![i] = p], !.last = p,
                         !.length = @ + SeqLen(a, b)], p)
       ELSE InsertedAt(l, i, b)

Inserted(l, a, b) ==
    IF l.length = 0
    THEN [Put(l, 0, a, b) EXCEPT !.head = 0, !.next[0] = None, !.last = 0,
                                 !.length = SeqLen(a, b)]
    ELSE LET off == SeqOff(l.start[l.head], a) IN
         IF off < 0 THEN InsertedBefore(l, a, b)
         ELSE IF l.start[PlaceOf(l, a)] = a THEN InsertedAt(l, PlaceOf(l, a), b)
         ELSE InsertedAfter(l, a, b)

\* Every range before the new head given back.
RECURSIVE Freed(_, _)
Freed(l, p) ==
    IF p = l.head THEN l
    ELSE Freed([l EXCEPT !.length = @ - SeqLen(l.start[p], Final(l, p)),
                         !.start[p] = None, !.end[p] = None, !.next[p] = None,
                         !.last = IF @ = p THEN None ELSE @], l.next[p])

\* The numbers up to s gone.  The range that holds s is cut behind s, and what
\* is left of it starts in the next place.
RemovedUpTo(l, s) ==
    IF l.length = 0 \/ SeqOff(l.start[l.head], s) < 0 THEN l
    ELSE LET p == PlaceOf(l, s)
             i == IF l.start[p] = s THEN p ELSE PriorFrom(l, l.head, s)
             rest == (p + 1) % Size
         IN IF l.end[i] # None /\ SeqCmp(l.end[i], s) > 0
            THEN Freed([Put(l, rest, IncSeq(s), l.end[i]) EXCEPT
                          !.end[i] = IF l.start[i] = s THEN None ELSE s,
                          !.next = [@ EXCEPT ![rest] = l.next[i], ![i] = rest],
                          !.head = rest], l.head)
            ELSE Freed([l EXCEPT !.head = l.next[i]], l.head)
-----------------------------------------------------------------------------
(* The calls. *)

\* A new packet is sent; numbers of a whole window may be under way.
SendNew == /\ SeqLen(una, IncSeq(cur)) <= Window
           /\ cur' = IncSeq(cur)
           /\ UNCHANGED <<list, una, ret>>

\* A loss report, or a timeout that takes everything for lost.
insert(a, b) == /\ list' = Inserted(list, a, b)
                /\ ret' = list'.length - list.length
                /\ UNCHANGED <<una, cur>>

\* An acknowledgement up to s, or a message up to s that is dropped.
Acked(s) == una' = IncSeq(s) /\ list' = RemovedUpTo(list, s) /\ UNCHANGED <<cur, ret>>
Dropped(s) == list' = RemovedUpTo(list, s) /\ UNCHANGED <<una, cur, ret>>

\* The first number is taken, as remove takes it.
getLostSeq == /\ IF list.length = 0 THEN ret' = None /\ UNCHANGED list
                 ELSE ret' = list.start[list.head] /\ list' = RemovedUpTo(list, ret')
              /\ UNCHANGED <<una, cur>>

InFlight == Between(una, cur)

Next == \/ SendNew \/ getLostSeq
        \/ \E s \in InFlight : Acked(s) \/ Dropped(s)
        \/ \E a, b \in InFlight : SeqOff(a, b) >= 0 /\ insert(a, b)

Spec == Init /\ [][Next]_vars
-----------------------------------------------------------------------------
RECURSIVE Nodes(_, _)
Nodes(l, p) == IF p = None THEN {} ELSE {p} \cup Nodes(l, l.next[p])

Numbers(l) == UNION {Between(l.start[p], Final(l, p)) : p \in Nodes(l, l.head)}

\* The counter the sender reads to see whether anything is lost is the number of
\* sequence numbers in the list, the ranges are apart and in order, each is where
\* its number puts it, and nothing else is left in the arrays.
ListIsSound ==
    LET N == IF list.length = 0 THEN {} ELSE Nodes(list, list.head) IN
    /\ list.length = IF N = {} THEN 0 ELSE Cardinality(Numbers(list))
    /\ {p \in Place : list.start[p] # None} = N
    /\ \A p \in Place \ N : list.end[p] = None
    /\ \A p \in N : /\ p = PlaceOf(list, list.start[p])
                    /\ Numbers(list) \subseteq InFlight
                    /\ list.next[p] # None => SeqOff(Final(list, p), list.start[list.next[p]]) > 0
    /\ list.last # None => list.length = 0 \/ list.last \in N

\* To its callers it is a set of numbers: what each call adds, takes and returns is
\* what a set of the same numbers would.
Lost == IF list.length = 0 THEN {} ELSE Numbers(list)
L == INSTANCE LossSet WITH lost <- Lost

KeepsSet ==
    /\ getLostSeq => L!TakeFirst
    /\ \A s \in InFlight : Acked(s) \/ Dropped(s) => L!RemoveUpTo(s)
    /\ \A a, b \in InFlight : SeqOff(a, b) >= 0 /\ insert(a, b) => L!Insert(Between(a, b))
=============================================================================
