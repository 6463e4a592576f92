------------------------------ MODULE UDTSeqNo ------------------------------
(***************************************************************************)
(* CSeqNo of UDT (udt/src/common.h): sequence numbers wrap from MaxSeqNo to  *)
(* 0 and are compared by their distance.  The source has 2^31-1 and 2^30-1   *)
(* for the two constants.                                                   *)
(***************************************************************************)
EXTENDS Integers, FiniteSets

CONSTANTS MaxSeqNo,  \* m_iMaxSeqNo
          SeqNoTH    \* m_iSeqNoTH

ASSUME SeqNoAssumption ==
    /\ MaxSeqNo \in Nat /\ SeqNoTH \in Nat \ {0}
    /\ 2 * SeqNoTH <= MaxSeqNo + 1

SeqNo == 0..MaxSeqNo
None == -1

Distance(a, b) == IF a >= b THEN a - b ELSE b - a

SeqCmp(a, b) == IF Distance(a, b) < SeqNoTH THEN a - b ELSE b - a

SeqLen(a, b) == IF a <= b THEN b - a + 1 ELSE b - a + MaxSeqNo + 2

SeqOff(a, b) == IF Distance(a, b) < SeqNoTH THEN b - a
                ELSE IF a < b THEN b - a - MaxSeqNo - 1
                ELSE b - a + MaxSeqNo + 1

IncSeq(a) == IF a = MaxSeqNo THEN 0 ELSE a + 1

DecSeq(a) == IF a = 0 THEN MaxSeqNo ELSE a - 1

IncSeqBy(a, n) == IF MaxSeqNo - a >= n THEN a + n ELSE a - MaxSeqNo + n - 1

\* The numbers from a to b, both included; none if b comes before a.
Between(a, b) == {IncSeqBy(a, n) : n \in 0..SeqOff(a, b)}
=============================================================================
