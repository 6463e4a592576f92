---------------------------- MODULE UDTUnitQueue ----------------------------
(***************************************************************************)
(* CUnitQueue (udt/src/queue.cpp): the units packets are received into, in a *)
(* ring of entries.  The worker that receives looks for a free unit and      *)
(* fills it; the callers that read give units back.  Both change m_iCount,   *)
(* each by a load and a store and without a lock, so updates get lost.       *)
(***************************************************************************)
EXTENDS Integers, FiniteSets

CONSTANTS EntrySize,  \* units of an entry: 32 in the code
          MaxEntries, \* bound: the memory is exhausted with so many entries
          MaxDrift,   \* bound: how far below zero the count gets
          Num, Den    \* the queue grows when Num/Den of it is used: 9/10 in the code

VARIABLES entries,  \* entries of the ring
          used,     \* the units with m_iFlag # 0
          curr, avail, \* m_pCurrQueue, and m_pAvailUnit within it
          count,    \* m_iCount
          wload, rload, \* what the worker and the reader have loaded of m_iCount
          got,      \* the unit the last call returned, or NoUnit
          searching \* within getNextAvailUnit, behind the check of the count

vars == <<entries, used, curr, avail, count, wload, rload, got, searching>>

None == -100
NoUnit == <<-1, -1>>
Units == (0..(entries - 1)) \X (0..(EntrySize - 1))
Size == entries * EntrySize

\* Units the search ever looks at: it stops short of the last of each entry.
Reachable == {u \in Units : u[2] # EntrySize - 1}

Init == /\ entries = 1 /\ used = {} /\ curr = 0 /\ avail = 0 /\ count = 0
        /\ wload = None /\ rload = None /\ got = NoUnit /\ searching = FALSE

\* increase corrects the count before it decides.
Corrected == Cardinality(used)

Grown == IF Corrected * Den >= Size * Num /\ entries < MaxEntries
         THEN entries + 1 ELSE entries

\* The free units from the place of the last call to the end of the ring, in the order
\* of the search: the rest of the current entry, its first unit, the entries behind.
Candidates == {u \in Reachable : u \notin used /\ (u[1] # curr \/ u[2] >= avail \/ u[2] = 0)}
Rank(u) == << (u[1] - curr + entries) % entries,
              IF u[1] = curr THEN (IF u[2] >= avail THEN u[2] ELSE EntrySize) ELSE u[2] >>
Found == CHOOSE u \in Candidates :
           \A v \in Candidates \ {u} : \/ Rank(u)[1] < Rank(v)[1]
                                       \/ Rank(u)[1] = Rank(v)[1] /\ Rank(u)[2] < Rank(v)[2]

\* The two steps of getNextAvailUnit.
CheckCount == /\ got = NoUnit /\ ~searching /\ searching' = TRUE
              /\ IF count * Den > Size * Num
                 THEN count' = Corrected /\ entries' = Grown ELSE UNCHANGED <<count, entries>>
              /\ UNCHANGED <<used, curr, avail, wload, rload, got>>

Search == /\ searching /\ searching' = FALSE
          /\ IF count >= Size THEN UNCHANGED <<entries, curr, avail, count, got>>
             ELSE IF Candidates # {}
             THEN /\ got' = Found /\ curr' = Found[1] /\ avail' = Found[2]
                  /\ UNCHANGED <<entries, count>>
             ELSE /\ avail' = 0 /\ count' = Corrected /\ entries' = Grown
                  /\ UNCHANGED <<curr, got>>
          /\ UNCHANGED <<used, wload, rload>>

getNextAvailUnit == CheckCount \/ Search

\* CRcvBuffer::addData keeps the unit; a packet that is not for a buffer leaves it free.
addData == \/ /\ got # NoUnit /\ wload = None
              /\ used' = used \cup {got} /\ wload' = count
              /\ UNCHANGED <<entries, curr, avail, count, rload, got, searching>>
           \/ /\ wload # None
              /\ count' = wload + 1 /\ wload' = None /\ got' = NoUnit
              /\ UNCHANGED <<entries, used, curr, avail, rload, searching>>

Leave == /\ got # NoUnit /\ wload = None /\ got' = NoUnit
         /\ UNCHANGED <<entries, used, curr, avail, count, wload, rload, searching>>

\* readBuffer, readMsg: a unit is free again.
readBuffer == \/ /\ rload = None /\ count > -MaxDrift /\ rload' = count
                 /\ \E u \in used : used' = used \ {u}
                 /\ UNCHANGED <<entries, curr, avail, count, wload, got, searching>>
              \/ /\ rload # None
                 /\ count' = rload - 1 /\ rload' = None
                 /\ UNCHANGED <<entries, used, curr, avail, wload, got, searching>>

Next == getNextAvailUnit \/ addData \/ Leave \/ readBuffer

Fairness == /\ WF_vars(getNextAvailUnit) /\ WF_vars(addData \/ Leave)
            /\ WF_vars(rload # None /\ readBuffer)

Spec == Init /\ [][Next]_vars /\ Fairness
-----------------------------------------------------------------------------
\* However many updates of the count are lost, the worker finds a free unit after a while
\* as long as there is one: a wrong count never stops the reception.
FreeIsFound == []<>(Reachable \subseteq used \/ got # NoUnit)
=============================================================================
