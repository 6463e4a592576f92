----------------------------- MODULE UDTSchedule -----------------------------
(***************************************************************************)
(* CSndUList, the worker of CSndQueue and the part of CTimer they use        *)
(* (udt/src/queue.cpp, common.cpp): a heap of the sockets that have          *)
(* something to send, by the time of their next packet.  Callers and the     *)
(* worker that receives put sockets on the heap and wake the sender up.      *)
(* Times are what is left of them, so that the clock can go on for ever.     *)
(***************************************************************************)
EXTENDS Integers, Sequences, FiniteSetsExt

CONSTANTS Socks,    \* sockets of the multiplexer
          MaxDelay  \* bound: the time between two packets of a socket

\* What an instance must give.
Given == MaxDelay \in Nat

VARIABLES heap,     \* m_pHeap, up to m_iLastEntry
          loc,      \* m_iHeapLoc: a place of the heap, from 1 on, or 0
          due,      \* m_llTimeStamp less the time it is
          up,       \* "open", "broken" or "closed"
          lock,     \* m_ListLock: a thread is about to signal the first entry
          wpc, ahead, \* what the worker does, and the time it has read
          sched,    \* m_ullSchedTime less the time it is
          closing   \* m_bClosing

vars == <<heap, loc, due, up, lock, wpc, ahead, sched, closing>>

Init == /\ heap = <<>> /\ loc = [u \in Socks |-> 0] /\ due = [u \in Socks |-> 0]
        /\ up = [u \in Socks |-> "open"] /\ lock = FALSE
        /\ wpc = "top" /\ ahead = 0 /\ sched = 0 /\ closing = FALSE
-----------------------------------------------------------------------------
(* The heap with the places its sockets remember, x = [h, l]; d are the due times. *)

Heap == [h |-> heap, l |-> loc]

Swap(x, i, j) == [h |-> [x.h EXCEPT ![i] = x.h[j], ![j] = x.h[i]],
                  l |-> [x.l EXCEPT ![x.h[i]] = j, ![x.h[j]] = i]]

\* No place of the heap is further from its top.
Levels(x) == Len(x.h) \div 2

\* From place q up while the socket there is due before the one above it: what one step
\* does, and what as many as there are levels do, of which the last may do nothing.
Raised(y, d) ==
    IF y.at > 1 /\ d[y.x.h[y.at \div 2]] > d[y.x.h[y.at]]
    THEN [x |-> Swap(y.x, y.at \div 2, y.at), at |-> y.at \div 2] ELSE y

Up(x, d, q) == LET after[n \in 0..Levels(x)] ==
                     IF n = 0 THEN [x |-> x, at |-> q] ELSE Raised(after[n - 1], d)
               IN after[Levels(x)].x

\* And down while it is due after one of the two below it, to the place of the earlier one.
Lowered(y, d) ==
    LET kids == {2 * y.at, 2 * y.at + 1} \cap DOMAIN y.x.h
        least == CHOOSE k \in kids :
                   \A j \in kids : d[y.x.h[k]] < d[y.x.h[j]] + (IF k <= j THEN 1 ELSE 0)
    IN IF kids # {} /\ d[y.x.h[y.at]] > d[y.x.h[least]]
       THEN [x |-> Swap(y.x, y.at, least), at |-> least] ELSE y

Down(x, d, q) == LET after[n \in 0..Levels(x)] ==
                       IF n = 0 THEN [x |-> x, at |-> q] ELSE Lowered(after[n - 1], d)
                 IN after[Levels(x)].x

\* insert_ of a socket that is not on the heap.
insert_(x, d, u) == Up([h |-> Append(x.h, u), l |-> [x.l EXCEPT ![u] = Len(x.h) + 1]],
                       d, Len(x.h) + 1)

\* remove_ puts the last entry into the gap and moves it down, never up.
remove_(x, d, u) ==
    IF x.l[u] = 0 THEN x
    ELSE LET last == Len(x.h)
             gap == x.l[u]
             y == [h |-> SubSeq([x.h EXCEPT ![gap] = x.h[last]], 1, last - 1),
                   l |-> [x.l EXCEPT ![x.h[last]] = gap]]
             z == IF gap = last THEN y ELSE Down(y, d, gap)
         IN [z EXCEPT !.l[u] = 0]

Becomes(x) == heap' = x.h /\ loc' = x.l

\* interrupt: the timer of the worker runs out now.
interrupt(first) == sched' = IF first THEN 0 ELSE sched
-----------------------------------------------------------------------------
(* Callers of update and remove.  An update may come after the close: who makes it has
   looked at the state of the socket before. *)

update(u, reschedule) ==
    /\ ~lock /\ ~closing /\ (loc[u] = 0 \/ reschedule)
    /\ due' = [due EXCEPT ![u] = 0]
    /\ Becomes(IF loc[u] = 1 THEN Heap ELSE insert_(remove_(Heap, due, u), due', u))
    /\ interrupt(heap'[1] = u \/ (loc[u] = 2 /\ Len(heap) = 2))
    /\ lock' = (heap = <<>>)
    /\ UNCHANGED <<up, wpc, ahead, closing>>

\* Mutant: the first entry wakes nobody up.
Signal_None == /\ lock /\ lock' = FALSE
               /\ UNCHANGED <<heap, loc, due, up, wpc, ahead, sched, closing>>

\* The second step of insert_ for the first entry, with m_WindowLock.
Signal == /\ lock /\ lock' = FALSE
          /\ wpc' = IF wpc = "wait" THEN "top" ELSE wpc
          /\ UNCHANGED <<heap, loc, due, up, ahead, sched, closing>>

\* close takes the socket off the heap.
remove(u) == /\ ~lock /\ up[u] # "closed"
             /\ up' = [up EXCEPT ![u] = "closed"]
             /\ Becomes(remove_(Heap, due, u))
             /\ interrupt(Len(heap') = 1)
             /\ UNCHANGED <<due, lock, wpc, ahead, closing>>

break(u) == /\ up[u] = "open" /\ up' = [up EXCEPT ![u] = "broken"]
            /\ UNCHANGED <<heap, loc, due, lock, wpc, ahead, sched, closing>>

\* The destructor of CSndQueue joins the worker.  The last socket was deleted before, a
\* second after its close at the earliest: the worker has dropped late updates by then.
Close == /\ ~closing /\ ~lock /\ heap = <<>> /\ \A u \in Socks : up[u] = "closed"
         /\ closing' = TRUE /\ wpc' = IF wpc = "wait" THEN "top" ELSE wpc
         /\ UNCHANGED <<heap, loc, due, up, lock, ahead, sched>>
-----------------------------------------------------------------------------
(* The worker. *)

Exit == /\ wpc = "top" /\ closing /\ wpc' = "exited"
        /\ UNCHANGED <<heap, loc, due, up, lock, ahead, sched, closing>>

getNextProcTime == /\ wpc = "top" /\ ~closing /\ ~lock
                   /\ wpc' = IF heap = <<>> THEN "idle" ELSE "ask"
                   /\ ahead' = IF heap = <<>> THEN 0 ELSE due[heap[1]]
                   /\ UNCHANGED <<heap, loc, due, up, lock, sched, closing>>

\* m_WindowLock makes the check and the start of the wait one step.
Wait == /\ wpc = "idle"
        /\ wpc' = IF ~closing /\ heap = <<>> THEN "wait" ELSE "top"
        /\ UNCHANGED <<heap, loc, due, up, lock, ahead, sched, closing>>

\* An interrupt between the two steps is lost: the worker sleeps up to the time it read.
Sleep == /\ wpc = "ask"
         /\ IF ahead > 0 THEN wpc' = "sleep" /\ sched' = ahead ELSE wpc' = "pop" /\ UNCHANGED sched
         /\ UNCHANGED <<heap, loc, due, up, lock, ahead, closing>>

WakeUp == /\ wpc = "sleep" /\ sched = 0 /\ wpc' = "pop"
          /\ UNCHANGED <<heap, loc, due, up, lock, ahead, sched, closing>>

\* pop: packData sends a packet and names the time of the next, or has nothing to send and
\* the socket stays off the heap until someone updates it.
pop == /\ wpc = "pop" /\ ~lock /\ wpc' = "top" /\ ahead' = 0
       /\ IF heap = <<>> \/ due[heap[1]] > 0 THEN UNCHANGED <<heap, loc, due, sched>>
          ELSE LET u == heap[1]
                   rest == remove_(Heap, due, u)
               IN \/ /\ Becomes(rest) /\ UNCHANGED due
                     /\ interrupt(Len(rest.h) = 1)
                  \/ \E d \in 0..MaxDelay :
                       /\ up[u] = "open"
                       /\ due' = [due EXCEPT ![u] = d]
                       /\ Becomes(insert_(rest, due', u))
                       /\ interrupt(Len(rest.h) = 1 \/ heap'[1] = u)
       /\ UNCHANGED <<up, lock, closing>>

Worker == Exit \/ getNextProcTime \/ Wait \/ Sleep \/ WakeUp \/ pop

Less(n) == IF n = 0 THEN 0 ELSE n - 1

Tick == /\ due' = [u \in Socks |-> Less(due[u])] /\ ahead' = Less(ahead) /\ sched' = Less(sched)
        /\ \E u \in Socks : due[u] + ahead + sched > 0
        /\ UNCHANGED <<heap, loc, up, lock, wpc, closing>>

Next == \/ \E u \in Socks : update(u, TRUE) \/ update(u, FALSE) \/ remove(u) \/ break(u)
        \/ Signal \/ Close \/ Worker \/ Tick

Spec == /\ Init /\ [][Next]_vars
        /\ WF_vars(Worker) /\ WF_vars(Tick) /\ WF_vars(Signal)
-----------------------------------------------------------------------------
\* The heap and the places the sockets remember agree, through updates in the middle and
\* removals from it: a socket is never on the heap twice or lost from it.
PlacesAgree == /\ \A i \in DOMAIN heap : loc[heap[i]] = i
               /\ \A u \in Socks : loc[u] # 0 => loc[u] \in DOMAIN heap /\ heap[loc[u]] = u

\* No wake-up is lost for good: with a socket on the heap the worker comes to pop, though
\* interrupts hit it between reading the time and sleeping.
WorkerAwake == heap # <<>> ~> (wpc = "pop" \/ heap = <<>>)

\* The destructor gets its thread back.
WorkerExits == closing ~> wpc = "exited"
=============================================================================
