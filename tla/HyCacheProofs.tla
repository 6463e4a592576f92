---------------------------- MODULE HyCacheProofs ----------------------------
(***************************************************************************)
(* Proofs about HyCache, for any files, handles, limit and calls.            *)
(***************************************************************************)
EXTENDS MCHyCache, SequenceTheorems, FiniteSetTheorems, WellFoundedInduction, TLAPS

\* The order of the natural numbers, as a relation.
Less == {ss \in Nat \X Nat : ss[1] < ss[2]}

\* The order of the natural numbers is well founded.
LEMMA LessWF == IsWellFoundedOn(Less, Nat)
<1>1. OpToRel(<, Nat) = Less
  BY DEF OpToRel, Less
<1> QED BY <1>1, NatLessThanWellFounded

\* So a set of them that is not empty has a smallest one.
LEMMA MinIs ==
    ASSUME NEW S \in SUBSET Nat, S # {}
    PROVE  Min(S) \in S /\ \A y \in S : Min(S) <= y
<1>1. PICK x \in S : \A y \in S : ~(<<y, x>> \in Less)
  BY LessWF, WFMin
<1>2. \A y \in S : x <= y
  <2> TAKE y \in S
  <2>1. y < x => <<y, x>> \in Less
    BY DEF Less
  <2> QED BY <1>1, <2>1
<1>3. \E z \in S : \A y \in S : z <= y
  BY <1>2
<1> QED BY <1>3 DEF Min

\* Induction on a set.
LEMMA Induct ==
    ASSUME NEW S, 0 \in S, \A n \in Nat : n \in S => n + 1 \in S
    PROVE  Nat \subseteq S
<1> SUFFICES ASSUME Nat \ S # {} PROVE FALSE
  OBVIOUS
<1> DEFINE D == Nat \ S
           x == Min(D)
<1>1. x \in D /\ \A y \in D : x <= y
  <2>1. D \in SUBSET Nat /\ D # {}
    OBVIOUS
  <2> HIDE DEF D
  <2> QED BY <2>1, MinIs
<1> HIDE DEF x
<1>2. x # 0 /\ x - 1 \in Nat
  BY <1>1
<1>3. x - 1 \in S
  BY <1>1, <1>2
<1> QED BY <1>1, <1>2, <1>3
-----------------------------------------------------------------------------
(* Sequences, element by element. *)

\* One sequence behind another.
Cat(s, t) == s \o t

IsCat(c, s, t) ==
    /\ Len(c) = Len(s) + Len(t)
    /\ \A j \in 1 .. Len(s) : c[j] = s[j]
    /\ \A j \in 1 .. Len(t) : c[Len(s) + j] = t[j]

\* What each element of it is.
LEMMA CatIs ==
    ASSUME NEW S, NEW s \in Seq(S), NEW t \in Seq(S)
    PROVE  Cat(s, t) \in Seq(S) /\ IsCat(Cat(s, t), s, t)
<1> DEFINE c == s \o t
<1>1. /\ c \in Seq(S) /\ Len(c) = Len(s) + Len(t)
      /\ \A j \in 1 .. Len(s) + Len(t) : c[j] = IF j <= Len(s) THEN s[j] ELSE t[j - Len(s)]
  BY ConcatProperties
<1>2. Len(s) \in Nat /\ Len(t) \in Nat
  BY LenProperties
<1>3. Cat(s, t) = c
  BY DEF Cat
<1> HIDE DEF c
<1>4. \A j \in 1 .. Len(s) : c[j] = s[j]
  BY <1>1, <1>2
<1>5. ASSUME NEW j \in 1 .. Len(t) PROVE c[Len(s) + j] = t[j]
  <2>1. Len(s) + j \in 1 .. Len(s) + Len(t) /\ ~(Len(s) + j <= Len(s)) /\ Len(s) + j - Len(s) = j
    BY <1>2
  <2> QED BY <1>1, <2>1
<1> QED BY <1>1, <1>3, <1>4, <1>5 DEF IsCat

\* A part of a sequence.
LEMMA PartIs ==
    ASSUME NEW S, NEW s \in Seq(S), NEW a \in Nat \ {0}, NEW b \in 0 .. Len(s), a <= b + 1
    PROVE  /\ SubSeq(s, a, b) \in Seq(S) /\ Len(SubSeq(s, a, b)) = b - a + 1
           /\ \A j \in 1 .. b - a + 1 : SubSeq(s, a, b)[j] = s[a + j - 1]
<1> DEFINE u == SubSeq(s, a, b)
           n == Len(s)
<1>0. n \in Nat /\ b \in 0 .. n /\ \A j \in 1 .. n : s[j] \in S
  BY LenProperties, ElementOfSeq
<1> HIDE DEF n
<1>1. \A j \in a .. b : s[j] \in S
  BY <1>0
<1>2. /\ u \in Seq(S) /\ Len(u) = IF a <= b THEN b - a + 1 ELSE 0
      /\ \A j \in 1 .. (b - a + 1) : u[j] = s[a + j - 1]
  BY <1>0, <1>1, SubSeqProperties
<1> HIDE DEF u
<1>3. Len(u) = b - a + 1
  BY <1>0, <1>2
<1> QED BY <1>2, <1>3 DEF u

\* Without the i-th element.
LEMMA RemoveIs ==
    ASSUME NEW S, NEW s \in Seq(S), NEW i \in 1 .. Len(s)
    PROVE  /\ RemoveAt(s, i) \in Seq(S) /\ Len(RemoveAt(s, i)) = Len(s) - 1
           /\ \A j \in 1 .. Len(s) - 1 : RemoveAt(s, i)[j] = IF j < i THEN s[j] ELSE s[j + 1]
<1> DEFINE a == SubSeq(s, 1, i - 1)
           b == SubSeq(s, i + 1, Len(s))
           n == Len(s)
           c == Cat(a, b)
<1>0. n \in Nat /\ i \in 1 .. n
  BY LenProperties
<1>1. a \in Seq(S) /\ Len(a) = i - 1 /\ \A j \in 1 .. i - 1 : a[j] = s[j]
  <2>1. i - 1 \in 0 .. Len(s) /\ 1 \in Nat \ {0} /\ 1 <= i - 1 + 1
    BY <1>0
  <2>2. /\ a \in Seq(S) /\ Len(a) = i - 1 - 1 + 1
        /\ \A j \in 1 .. i - 1 - 1 + 1 : a[j] = s[1 + j - 1]
    BY <2>1, PartIs
  <2> HIDE DEF a
  <2> QED BY <1>0, <2>2
<1>2. b \in Seq(S) /\ Len(b) = n - i /\ \A j \in 1 .. n - i : b[j] = s[i + j]
  <2>1. Len(s) \in 0 .. Len(s) /\ i + 1 \in Nat \ {0} /\ i + 1 <= Len(s) + 1
    BY <1>0
  <2>2. /\ b \in Seq(S) /\ Len(b) = Len(s) - (i + 1) + 1
        /\ \A j \in 1 .. Len(s) - (i + 1) + 1 : b[j] = s[i + 1 + j - 1]
    BY <2>1, PartIs
  <2>3. Len(b) = n - i /\ b \in Seq(S)
    BY <1>0, <2>2
  <2> HIDE DEF b
  <2>4. ASSUME NEW j \in 1 .. n - i PROVE b[j] = s[i + j]
    <3>1. j \in 1 .. Len(s) - (i + 1) + 1 /\ i + 1 + j - 1 = i + j
      BY <1>0
    <3> QED BY <2>2, <3>1
  <2> QED BY <2>3, <2>4
<1>3. RemoveAt(s, i) = c
  BY DEF RemoveAt, Cat
<1> HIDE DEF a, b, n
<1>4a. c \in Seq(S) /\ IsCat(c, a, b)
  BY <1>1, <1>2, CatIs
<1> HIDE DEF c
<1>4. /\ c \in Seq(S) /\ Len(c) = Len(a) + Len(b)
      /\ \A j \in 1 .. Len(a) : c[j] = a[j]
      /\ \A j \in 1 .. Len(b) : c[Len(a) + j] = b[j]
  BY <1>4a DEF IsCat
<1>6. Len(c) = n - 1
  BY <1>0, <1>1, <1>2, <1>4
<1>7. ASSUME NEW j \in 1 .. n - 1 PROVE c[j] = IF j < i THEN s[j] ELSE s[j + 1]
  <2>2. CASE j < i
    <3>1. j \in 1 .. i - 1
      BY <1>0, <2>2
    <3> QED BY <1>1, <1>4, <2>2, <3>1
  <2>3. CASE ~(j < i)
    <3>1. /\ j - (i - 1) \in 1 .. n - i /\ i + (j - (i - 1)) = j + 1
          /\ i - 1 + (j - (i - 1)) = j
      BY <1>0, <2>3
    <3>2. b[j - (i - 1)] = s[j + 1]
      BY <1>2, <3>1
    <3>3. c[j] = b[j - (i - 1)]
      BY <1>1, <1>2, <1>4, <3>1
    <3> QED BY <2>3, <3>2, <3>3
  <2> QED BY <2>2, <2>3
<1> QED BY <1>3, <1>4, <1>6, <1>7 DEF n

\* u is s with x as the i-th element.
IsPut(u, s, i, x) ==
    /\ Len(u) = Len(s) + 1
    /\ \A j \in 1 .. Len(s) + 1 : u[j] = IF j < i THEN s[j] ELSE IF j = i THEN x ELSE s[j - 1]

\* With x before the i-th element, or behind all.
LEMMA InsertIs ==
    ASSUME NEW S, NEW s \in Seq(S), NEW x \in S, NEW i \in 1 .. Len(s) + 1
    PROVE  /\ InsertAt(s, i, x) \in Seq(S) /\ Len(InsertAt(s, i, x)) = Len(s) + 1
           /\ \A j \in 1 .. Len(s) + 1 : InsertAt(s, i, x)[j] = IF j < i THEN s[j] ELSE IF j = i THEN x ELSE s[j - 1]
           /\ IsPut(InsertAt(s, i, x), s, i, x)
<1> DEFINE a == SubSeq(s, 1, i - 1)
           b == SubSeq(s, i, Len(s))
           n == Len(s)
           d == Cat(a, <<x>>)
           c == Cat(d, b)
<1>0. n \in Nat /\ i \in 1 .. n + 1
  BY LenProperties
<1>1. a \in Seq(S) /\ Len(a) = i - 1 /\ \A j \in 1 .. i - 1 : a[j] = s[j]
  <2>1. i - 1 \in 0 .. Len(s) /\ 1 \in Nat \ {0} /\ 1 <= i - 1 + 1
    BY <1>0
  <2>2. /\ a \in Seq(S) /\ Len(a) = i - 1 - 1 + 1
        /\ \A j \in 1 .. i - 1 - 1 + 1 : a[j] = s[1 + j - 1]
    BY <2>1, PartIs
  <2> HIDE DEF a
  <2> QED BY <1>0, <2>2
<1>2. b \in Seq(S) /\ Len(b) = n - i + 1 /\ \A j \in 1 .. n - i + 1 : b[j] = s[i + j - 1]
  <2>1. Len(s) \in 0 .. Len(s) /\ i \in Nat \ {0} /\ i <= Len(s) + 1
    BY <1>0
  <2> QED BY <2>1, PartIs
<1>3. InsertAt(s, i, x) = c
  BY DEF InsertAt, Cat
<1> HIDE DEF a, b, n
<1>4. /\ d \in Seq(S) /\ Len(d) = i
      /\ \A j \in 1 .. i - 1 : d[j] = s[j]
      /\ d[i] = x
  <2>1. <<x>> \in Seq(S) /\ Len(<<x>>) = 1 /\ <<x>>[1] = x
    OBVIOUS
  <2>2. /\ d \in Seq(S) /\ Len(d) = Len(a) + 1
        /\ \A j \in 1 .. Len(a) : d[j] = a[j]
        /\ \A j \in 1 .. 1 : d[Len(a) + j] = <<x>>[j]
    <3> DEFINE u == <<x>>
    <3>1. a \in Seq(S) /\ u \in Seq(S) /\ Len(u) = 1
      BY <1>1, <2>1
    <3> HIDE DEF u
    <3>2. d \in Seq(S) /\ IsCat(d, a, u)
      BY <3>1, CatIs DEF u
    <3> HIDE DEF d
    <3> QED BY <3>1, <3>2 DEF IsCat, u
  <2> HIDE DEF d
  <2>3. d[Len(a) + 1] = x
    BY <2>1, <2>2
  <2> QED BY <1>0, <1>1, <2>2, <2>3
<1> HIDE DEF d
<1>5. /\ c \in Seq(S) /\ Len(c) = Len(d) + Len(b)
      /\ \A j \in 1 .. Len(d) : c[j] = d[j]
      /\ \A j \in 1 .. Len(b) : c[Len(d) + j] = b[j]
  <2>1. c \in Seq(S) /\ IsCat(c, d, b)
    BY <1>2, <1>4, CatIs
  <2> HIDE DEF c
  <2> QED BY <2>1 DEF IsCat
<1> HIDE DEF c
<1>6. Len(c) = n + 1
  BY <1>0, <1>2, <1>4, <1>5
<1>7. ASSUME NEW j \in 1 .. n + 1 PROVE c[j] = IF j < i THEN s[j] ELSE IF j = i THEN x ELSE s[j - 1]
  <2>1. CASE j < i
    <3>1. j \in 1 .. i - 1 /\ j \in 1 .. i
      BY <1>0, <2>1
    <3> QED BY <1>4, <1>5, <2>1, <3>1
  <2>2. CASE j = i
    <3>1. i \in 1 .. i
      BY <1>0
    <3> QED BY <1>0, <1>4, <1>5, <2>2, <3>1
  <2>3. CASE j > i
    <3>1. j - i \in 1 .. n - i + 1 /\ i + (j - i) = j /\ i + (j - i) - 1 = j - 1
      BY <1>0, <2>3
    <3>2. c[j] = b[j - i]
      BY <1>2, <1>4, <1>5, <3>1
    <3>3. b[j - i] = s[j - 1]
      BY <1>2, <3>1
    <3> QED BY <1>0, <2>3, <3>2, <3>3
  <2> QED BY <1>0, <2>1, <2>2, <2>3
<1> QED BY <1>3, <1>5, <1>6, <1>7 DEF n, IsPut

\* One and the same: a name for an equality that the provers take as it is.
Same(j, k) == j = k

\* Where an element was before the i-th left.
WasAt(i, j) == IF j < i THEN j ELSE j + 1

\* They were in the order they are in.
LEMMA WasOrder ==
    ASSUME NEW i \in Int, NEW j \in Int, NEW k \in Int, j < k
    PROVE  WasAt(i, j) < WasAt(i, k)
BY DEF WasAt

\* Two were not in one place.
LEMMA WasApart ==
    ASSUME NEW i \in Int, NEW j \in Int, NEW k \in Int, Same(WasAt(i, j), WasAt(i, k))
    PROVE  Same(j, k)
<1>1. WasAt(i, j) \in Int /\ WasAt(i, k) \in Int
  BY DEF WasAt
<1>2. ~(j < k)
  BY <1>1, WasOrder DEF Same
<1>3. ~(k < j)
  BY <1>1, WasOrder DEF Same
<1> QED BY <1>2, <1>3 DEF Same

\* Where an element was before there was an i-th.
CameFrom(i, j) == IF j < i THEN j ELSE j - 1

\* They came in the order they are in.
LEMMA CameOrder ==
    ASSUME NEW i \in Int, NEW j \in Int, NEW k \in Int, j # i, k # i, j < k
    PROVE  CameFrom(i, j) < CameFrom(i, k)
BY DEF CameFrom

\* Two came from two places.
LEMMA CameApart ==
    ASSUME NEW i \in Int, NEW j \in Int, NEW k \in Int, j # i, k # i, Same(CameFrom(i, j), CameFrom(i, k))
    PROVE  Same(j, k)
<1>1. CameFrom(i, j) \in Int /\ CameFrom(i, k) \in Int
  BY DEF CameFrom
<1>2. ~(j < k)
  BY <1>1, CameOrder DEF Same
<1>3. ~(k < j)
  BY <1>1, CameOrder DEF Same
<1> QED BY <1>2, <1>3 DEF Same
-----------------------------------------------------------------------------
(* The queue: which files are in it. *)

Entry == [fname : Names, freq : Nat]

\* The files that have an entry.
Of(s) == {s[i].fname : i \in 1 .. Len(s)}

\* No file has two.
Once(s) == \A i, j \in 1 .. Len(s) : s[i].fname = s[j].fname => i = j

\* At finds an entry of the name if there is one.
LEMMA AtIs ==
    ASSUME NEW s \in Seq(Entry), NEW n
    PROVE  /\ At(s, n) \in 0 .. Len(s)
           /\ At(s, n) # 0 => s[At(s, n)].fname = n
           /\ At(s, n) # 0 <=> n \in Of(s)
<1> DEFINE I == {i \in 1 .. Len(s) : s[i].fname = n}
<1>1. At(s, n) = IF I # {} THEN Min(I) ELSE 0
  BY DEF At, SelectInSeq
<1>2. I \in SUBSET Nat /\ Len(s) \in Nat
  BY LenProperties
<1>3. I # {} => Min(I) \in I
  <2> HIDE DEF I
  <2> QED BY <1>2, MinIs
<1>4. I # {} <=> n \in Of(s)
  BY DEF Of
<1>5. I # {} => Min(I) \in 1 .. Len(s) /\ s[Min(I)].fname = n
  BY <1>3
<1> HIDE DEF I
<1> QED BY <1>1, <1>2, <1>4, <1>5

\* Without takes one name out.
LEMMA WithoutIs ==
    ASSUME NEW s \in Seq(Entry), Once(s), NEW n
    PROVE  /\ Without(s, n) \in Seq(Entry) /\ Once(Without(s, n))
           /\ Of(Without(s, n)) = Of(s) \ {n}
<1>1. CASE At(s, n) = 0
  BY <1>1, AtIs DEF Without
<1>2. CASE At(s, n) # 0
  <2> DEFINE i == At(s, n)
             r == RemoveAt(s, i)
             len == Len(s)
  <2>1. i \in 1 .. len /\ s[i].fname = n /\ len \in Nat
    BY <1>2, AtIs, LenProperties
  <2>2. Without(s, n) = r
    BY <1>2 DEF Without
  <2> HIDE DEF i
  <2>3. /\ r \in Seq(Entry) /\ Len(r) = len - 1
        /\ \A j \in 1 .. len - 1 : r[j] = IF j < i THEN s[j] ELSE s[j + 1]
    BY <2>1, RemoveIs
  <2> HIDE DEF r
  <2>4. \A j, k \in 1 .. len : s[j].fname = s[k].fname => j = k
    BY DEF Once
  <2> HIDE DEF len
  <2>5. \A j \in 1 .. len : s[j].fname = n => j = i
    BY <2>1, <2>4
  <2>6. Of(r) = {r[j].fname : j \in 1 .. len - 1} /\ Of(s) = {s[j].fname : j \in 1 .. len}
    BY <2>3 DEF Of, len
  <2>7. Of(r) \subseteq Of(s) \ {n}
    <3> SUFFICES ASSUME NEW j \in 1 .. len - 1 PROVE r[j].fname \in Of(s) \ {n}
      BY <2>6
    <3>1. CASE j < i
      BY <2>1, <2>3, <2>5, <2>6, <3>1
    <3>2. CASE ~(j < i)
      <4>1. j + 1 \in 1 .. len /\ j + 1 # i
        BY <2>1, <3>2
      <4> QED BY <2>3, <2>5, <2>6, <3>2, <4>1
    <3> QED BY <3>1, <3>2
  <2>8. ASSUME NEW k \in 1 .. len, s[k].fname # n PROVE s[k].fname \in Of(r)
    <3>1. CASE k < i
      <4>1. k \in 1 .. len - 1 /\ r[k] = s[k]
        BY <2>1, <2>3, <3>1
      <4> QED BY <2>6, <4>1
    <3>2. CASE k > i
      <4>1. k - 1 \in 1 .. len - 1 /\ r[k - 1] = s[k]
        BY <2>1, <2>3, <3>2
      <4> QED BY <2>6, <4>1
    <3> QED BY <2>1, <2>8, <3>1, <3>2
  <2>9. Once(r)
    <3> SUFFICES ASSUME NEW j \in 1 .. len - 1, NEW k \in 1 .. len - 1, r[j].fname = r[k].fname
                 PROVE  j = k
      BY <2>3 DEF Once
    <3> DEFINE a == WasAt(i, j)
               b == WasAt(i, k)
    <3>1. a \in 1 .. len /\ b \in 1 .. len /\ r[j] = s[a] /\ r[k] = s[b]
      BY <2>1, <2>3 DEF WasAt
    <3>2. i \in Int /\ j \in Int /\ k \in Int
      BY <2>1
    <3> HIDE DEF a, b
    <3>3. a = b
      BY <2>4, <3>1
    <3>4. Same(WasAt(i, j), WasAt(i, k))
      BY <3>3 DEF a, b, Same
    <3>5. Same(j, k)
      BY <3>2, <3>4, WasApart
    <3> QED BY <3>5 DEF Same
  <2>10. Of(s) \ {n} \subseteq Of(r)
    <3> HIDE DEF r
    <3> QED BY <2>6, <2>8
  <2>11. Of(r) = Of(s) \ {n}
    BY <2>7, <2>10
  <2> QED BY <2>2, <2>3, <2>9, <2>11
<1> QED BY <1>1, <1>2

\* An entry of another name is put somewhere.
LEMMA PutIs ==
    ASSUME NEW r \in Seq(Entry), Once(r), NEW x \in Entry, x.fname \notin Of(r),
           NEW i \in 1 .. Len(r) + 1
    PROVE  /\ InsertAt(r, i, x) \in Seq(Entry) /\ Once(InsertAt(r, i, x))
           /\ Of(InsertAt(r, i, x)) = Of(r) \cup {x.fname}
<1> DEFINE t == InsertAt(r, i, x)
           len == Len(r)
<1>1. /\ t \in Seq(Entry) /\ Len(t) = len + 1
      /\ \A j \in 1 .. len + 1 : t[j] = IF j < i THEN r[j] ELSE IF j = i THEN x ELSE r[j - 1]
  BY InsertIs
<1>2. len \in Nat /\ i \in 1 .. len + 1
  BY LenProperties
<1>3. /\ \A j, k \in 1 .. len : r[j].fname = r[k].fname => j = k
      /\ \A j \in 1 .. len : r[j].fname # x.fname
  BY DEF Once, Of
<1> HIDE DEF t
<1>4. Of(t) = {t[j].fname : j \in 1 .. len + 1} /\ Of(r) = {r[j].fname : j \in 1 .. len}
  BY <1>1 DEF Of
<1> HIDE DEF len
<1>5. ASSUME NEW j \in 1 .. len + 1
      PROVE  \/ j = i /\ t[j] = x
             \/ j < i /\ j \in 1 .. len /\ t[j] = r[j]
             \/ j > i /\ j - 1 \in 1 .. len /\ t[j] = r[j - 1]
  BY <1>1, <1>2
<1>6. Of(t) \subseteq Of(r) \cup {x.fname}
  <2> SUFFICES ASSUME NEW j \in 1 .. len + 1 PROVE t[j].fname \in Of(r) \cup {x.fname}
    BY <1>4
  <2> QED BY <1>4, <1>5
<1>7. x.fname \in Of(t)
  BY <1>1, <1>2, <1>4
<1>8. ASSUME NEW k \in 1 .. len PROVE r[k].fname \in Of(t)
  <2>1. CASE k < i
    <3>1. k \in 1 .. len + 1 /\ t[k] = r[k]
      BY <1>1, <1>2, <2>1
    <3> QED BY <1>4, <3>1
  <2>2. CASE ~(k < i)
    <3>1. k + 1 \in 1 .. len + 1 /\ t[k + 1] = r[k]
      BY <1>1, <1>2, <2>2
    <3> QED BY <1>4, <3>1
  <2> QED BY <2>1, <2>2
<1>9. Once(t)
  <2> SUFFICES ASSUME NEW j \in 1 .. len + 1, NEW k \in 1 .. len + 1, t[j].fname = t[k].fname
               PROVE  j = k
    BY <1>1 DEF Once
  <2>1. CASE j = i \/ k = i
    <3>1. ASSUME NEW a \in 1 .. len + 1, t[a].fname = x.fname PROVE a = i
      BY <1>3, <1>5, <3>1
    <3>2. t[i] = x
      BY <1>1, <1>2
    <3> QED BY <2>1, <3>1, <3>2
  <2>2. CASE j # i /\ k # i
    <3> DEFINE a == CameFrom(i, j)
               b == CameFrom(i, k)
    <3>1. a \in 1 .. len /\ t[j] = r[a]
      BY <1>5, <2>2 DEF CameFrom
    <3>2. b \in 1 .. len /\ t[k] = r[b]
      BY <1>5, <2>2 DEF CameFrom
    <3> HIDE DEF a, b
    <3>3. a = b
      BY <1>3, <3>1, <3>2
    <3>4. i \in Int /\ j \in Int /\ k \in Int
      BY <1>2
    <3>5. Same(CameFrom(i, j), CameFrom(i, k))
      BY <3>3 DEF a, b, Same
    <3>6. Same(j, k)
      BY <2>2, <3>4, <3>5, CameApart
    <3> QED BY <3>6 DEF Same
  <2> QED BY <2>1, <2>2
<1>10. Of(r) \subseteq Of(t)
  BY <1>4, <1>8
<1>11. Of(t) = Of(r) \cup {x.fname}
  BY <1>6, <1>7, <1>10
<1> QED BY <1>1, <1>9, <1>11 DEF t

\* Append is to put it behind all.
LEMMA AppendIs ==
    ASSUME NEW S, NEW r \in Seq(S), NEW x \in S
    PROVE  InsertAt(r, Len(r) + 1, x) = Append(r, x)
<1> DEFINE t == InsertAt(r, Len(r) + 1, x)
           u == Append(r, x)
           len == Len(r)
<1>1. len \in Nat /\ len + 1 \in 1 .. len + 1
  BY LenProperties
<1>2. /\ t \in Seq(S) /\ Len(t) = len + 1
      /\ \A j \in 1 .. len + 1 : t[j] = IF j < len + 1 THEN r[j] ELSE IF j = len + 1 THEN x ELSE r[j - 1]
  <2>1. t \in Seq(S) /\ IsPut(t, r, len + 1, x)
    BY <1>1, InsertIs
  <2> HIDE DEF t
  <2> QED BY <2>1 DEF IsPut
<1>3. /\ u \in Seq(S) /\ Len(u) = len + 1
      /\ \A j \in 1 .. len : u[j] = r[j]
      /\ u[len + 1] = x
  BY AppendProperties
<1> HIDE DEF t, u, len
<1>4. \A j \in 1 .. len + 1 : t[j] = u[j]
  BY <1>1, <1>2, <1>3
<1>5. t = u
  BY <1>2, <1>3, <1>4, SeqEqual
<1> QED BY <1>5 DEF t, u, len

\* A file that is used has an entry.
LEMMA InsertedIs ==
    ASSUME NEW s \in Seq(Entry), Once(s), NEW n \in Names
    PROVE  /\ Inserted(s, n) \in Seq(Entry) /\ Once(Inserted(s, n))
           /\ Of(Inserted(s, n)) = Of(s) \cup {n}
<1> DEFINE r == Without(s, n)
           Fine(t) == t \in Seq(Entry) /\ Once(t) /\ Of(t) = Of(s) \cup {n}
<1>1. r \in Seq(Entry) /\ Once(r) /\ Of(r) = Of(s) \ {n}
  BY WithoutIs
<1>2. Len(r) \in Nat /\ Len(r) + 1 \in 1 .. Len(r) + 1
  BY <1>1, LenProperties
<1>3. ASSUME NEW x \in Entry, x.fname = n, NEW i \in 1 .. Len(r) + 1
      PROVE  Fine(InsertAt(r, i, x))
  <2> HIDE DEF r
  <2>1. /\ InsertAt(r, i, x) \in Seq(Entry) /\ Once(InsertAt(r, i, x))
        /\ Of(InsertAt(r, i, x)) = Of(r) \cup {x.fname}
    BY <1>1, <1>3, PutIs
  <2> QED BY <1>1, <1>3, <2>1
<1>4. ASSUME NEW x \in Entry, x.fname = n PROVE Fine(Append(r, x))
  <2> HIDE DEF r
  <2>1. InsertAt(r, Len(r) + 1, x) = Append(r, x)
    BY <1>1, AppendIs
  <2>2. Fine(InsertAt(r, Len(r) + 1, x))
    <3> HIDE DEF Fine
    <3> QED BY <1>2, <1>3, <1>4
  <2> HIDE DEF Fine
  <2> QED BY <2>1, <2>2
<1>5. Fine(Used(s, n))
  <2> DEFINE x == [fname |-> n, freq |-> 0]
  <2>1. x \in Entry /\ x.fname = n
    BY DEF Entry
  <2>2. Used(s, n) = Append(r, x)
    BY DEF Used
  <2> HIDE DEF Fine, r, x
  <2> QED BY <1>4, <2>1, <2>2
<1>6. Fine(Counted(s, n))
  <2> DEFINE x == [fname |-> n, freq |-> IF At(s, n) = 0 THEN 1 ELSE s[At(s, n)].freq + 1]
             I == {i \in 1 .. Len(r) : r[i].freq > x.freq}
             i == IF I # {} THEN Min(I) ELSE 0
  <2>1. x \in Entry /\ x.fname = n
    <3>1. At(s, n) # 0 => s[At(s, n)] \in Entry
      BY AtIs, ElementOfSeq
    <3> QED BY <3>1 DEF Entry
  <2>2. Counted(s, n) = IF i = 0 THEN Append(r, x) ELSE InsertAt(r, i, x)
    BY DEF Counted, SelectInSeq
  <2>3. i # 0 => i \in 1 .. Len(r) + 1
    <3>1. I \in SUBSET Nat /\ I \subseteq 1 .. Len(r)
      BY <1>2
    <3> HIDE DEF I, r
    <3>2. I # {} => Min(I) \in I
      BY <3>1, MinIs
    <3>3. I # {} => Min(I) \in 1 .. Len(r)
      BY <3>1, <3>2
    <3> DEFINE k == Len(r)
    <3>4. k \in Nat /\ (I # {} => Min(I) \in 1 .. k)
      BY <1>2, <3>3
    <3> HIDE DEF k
    <3>5. i # 0 => i \in 1 .. k + 1
      BY <3>4
    <3> QED BY <3>5 DEF k
  <2> HIDE DEF Fine, r, x, i
  <2> QED BY <1>3, <1>4, <2>1, <2>2, <2>3
<1> QED BY <1>5, <1>6 DEF Inserted

\* A new name takes the place of the old one.
LEMMA RenamedIs ==
    ASSUME NEW s \in Seq(Entry), Once(s), NEW n, NEW m \in Names, m \notin Of(s), n \in Of(s)
    PROVE  /\ Renamed(s, n, m) \in Seq(Entry) /\ Once(Renamed(s, n, m))
           /\ Of(Renamed(s, n, m)) = (Of(s) \ {n}) \cup {m}
<1> DEFINE i == At(s, n)
           t == [s EXCEPT ![i].fname = m]
           len == Len(s)
<1>1. i \in 1 .. len /\ s[i].fname = n /\ len \in Nat
  BY AtIs, LenProperties
<1>2. Renamed(s, n, m) = t
  BY <1>1 DEF Renamed
<1> HIDE DEF i
<1>3. s \in [1 .. len -> Entry]
  BY ElementOfSeq, LenProperties, SeqDef
<1>4. /\ t \in [1 .. len -> Entry]
      /\ t[i].fname = m
      /\ \A j \in 1 .. len : j # i => t[j] = s[j]
  <2>1. s[i] \in Entry
    BY <1>1, <1>3
  <2>2. [s[i] EXCEPT !.fname = m] \in Entry /\ [s[i] EXCEPT !.fname = m].fname = m
    BY <2>1 DEF Entry
  <2>3. t = [s EXCEPT ![i] = [s[i] EXCEPT !.fname = m]]
    BY <1>1, <1>3
  <2> HIDE DEF t, len
  <2> QED BY <1>1, <1>3, <2>2, <2>3
<1> HIDE DEF t
<1>5. t \in Seq(Entry) /\ Len(t) = len
  BY <1>1, <1>4
<1>6. /\ \A j, k \in 1 .. len : s[j].fname = s[k].fname => j = k
      /\ \A j \in 1 .. len : s[j].fname # m
  BY DEF Once, Of
<1>7. Of(t) = {t[j].fname : j \in 1 .. len} /\ Of(s) = {s[j].fname : j \in 1 .. len}
  BY <1>5 DEF Of
<1> HIDE DEF len
<1>8. Once(t)
  <2> SUFFICES ASSUME NEW j \in 1 .. len, NEW k \in 1 .. len, t[j].fname = t[k].fname PROVE j = k
    BY <1>5 DEF Once
  <2> QED BY <1>4, <1>6
<1>9. Of(t) = (Of(s) \ {n}) \cup {m}
  <2>1. ASSUME NEW j \in 1 .. len PROVE t[j].fname \in (Of(s) \ {n}) \cup {m}
    BY <1>1, <1>4, <1>6, <1>7
  <2>2. ASSUME NEW j \in 1 .. len, s[j].fname # n PROVE s[j].fname \in Of(t)
    BY <1>1, <1>4, <1>7, <2>2
  <2>3. m \in Of(t)
    BY <1>1, <1>4, <1>7
  <2> QED BY <1>7, <2>1, <2>2, <2>3
<1> QED BY <1>2, <1>5, <1>8, <1>9
-----------------------------------------------------------------------------
(* The disks. *)

Disks == [ssd : [Names -> Ids \cup {None, Away}], hdd : [Names -> Ids \cup {None}],
          target : [Names -> Names], content : [Ids -> Nat], mode : [Ids -> {0, 1}],
          handle : [Handles -> Ids \cup {None}], own : [Handles -> Nat \cup {None}],
          wronly : SUBSET Handles]

\* What is on the hdd has its link on the ssd, and a link has its file.
Placed(f) == \A n \in Names : f.hdd[n] # None <=> f.ssd[n] = Away

\* A file that nothing leads to is empty.
Idle(f) == \A i \in Ids \ Reachable(f) : f.content[i] = 0 /\ f.mode[i] = 0

\* No file that is open was moved out.
NoneLeft(f) == \A h \in Handles : f.own[h] = None

\* Files are numbers, and None and Away are not.
LEMMA NoFile == None \notin Ids /\ Away \notin Ids /\ None # Away
BY IdsAssumption DEF None, Away

\* Tidy empties what nothing leads to, and leaves the rest.
LEMMA TidyIs ==
    ASSUME NEW f \in Disks
    PROVE  /\ Tidy(f) \in Disks /\ Tidy(f).ssd = f.ssd /\ Tidy(f).hdd = f.hdd
           /\ Tidy(f).handle = f.handle /\ Tidy(f).own = f.own
           /\ Tidy(f).content = [i \in Ids |-> IF i \in Reachable(f) THEN f.content[i] ELSE 0]
           /\ Tidy(f).mode = [i \in Ids |-> IF i \in Reachable(f) THEN f.mode[i] ELSE 0]
           /\ Tidy(f).target = [n \in Names |-> IF f.ssd[n] = Away THEN f.target[n] ELSE n]
           /\ Idle(Tidy(f))
<1> DEFINE c == [i \in Ids |-> IF i \in Reachable(f) THEN f.content[i] ELSE 0]
           m == [i \in Ids |-> IF i \in Reachable(f) THEN f.mode[i] ELSE 0]
           t == [n \in Names |-> IF f.ssd[n] = Away THEN f.target[n] ELSE n]
<1>1. c \in [Ids -> Nat] /\ m \in [Ids -> {0, 1}] /\ t \in [Names -> Names]
  BY DEF Disks
<1>2. Tidy(f) = [f EXCEPT !.content = c, !.mode = m, !.target = t]
  BY DEF Tidy, Disks
<1>3. \A i \in Ids \ Reachable(f) : c[i] = 0 /\ m[i] = 0
  OBVIOUS
<1> HIDE DEF c, m, t
<1>4. /\ Tidy(f) \in Disks /\ Tidy(f).ssd = f.ssd /\ Tidy(f).hdd = f.hdd
      /\ Tidy(f).handle = f.handle /\ Tidy(f).own = f.own
      /\ Tidy(f).content = c /\ Tidy(f).mode = m /\ Tidy(f).target = t
  BY <1>1, <1>2 DEF Disks
<1>5. Idle(Tidy(f))
  BY <1>3, <1>4 DEF Idle, Reachable
<1> QED BY <1>4, <1>5 DEF c, m, t

\* The disks f when the files M have been moved out.
Moved(f, M) ==
    [ssd |-> [n \in Names |-> IF n \in M THEN Away ELSE f.ssd[n]],
     hdd |-> [n \in Names |-> IF n \in M THEN f.ssd[n] ELSE f.hdd[n]],
     target |-> [n \in Names |-> IF n \in M THEN n ELSE f.target[n]],
     content |-> f.content, mode |-> f.mode, handle |-> f.handle,
     own |-> [h \in Handles |-> IF /\ f.handle[h] # None /\ f.own[h] = None
                                   /\ \E n \in M : f.handle[h] = f.ssd[n]
                                THEN f.content[f.handle[h]] ELSE f.own[h]],
     wronly |-> f.wronly]

\* They are disks.
LEMMA MovedIs ==
    ASSUME NEW f \in Disks, NEW M \in SUBSET Names, \A n \in M : f.ssd[n] \in Ids
    PROVE  Moved(f, M) \in Disks
<1> DEFINE s == [n \in Names |-> IF n \in M THEN Away ELSE f.ssd[n]]
           d == [n \in Names |-> IF n \in M THEN f.ssd[n] ELSE f.hdd[n]]
           t == [n \in Names |-> IF n \in M THEN n ELSE f.target[n]]
           o == [h \in Handles |-> IF /\ f.handle[h] # None /\ f.own[h] = None
                                      /\ \E n \in M : f.handle[h] = f.ssd[n]
                                   THEN f.content[f.handle[h]] ELSE f.own[h]]
<1>1. s \in [Names -> Ids \cup {None, Away}] /\ d \in [Names -> Ids \cup {None}] /\ t \in [Names -> Names]
  BY DEF Disks
<1>2. o \in [Handles -> Nat \cup {None}]
  BY DEF Disks
<1>3. Moved(f, M) = [ssd |-> s, hdd |-> d, target |-> t, content |-> f.content, mode |-> f.mode,
                     handle |-> f.handle, own |-> o, wronly |-> f.wronly]
  BY DEF Moved
<1> HIDE DEF s, d, t, o
<1> QED BY <1>1, <1>2, <1>3 DEF Disks

\* One more file is moved out.
LEMMA MoveIs ==
    ASSUME NEW f \in Disks, NEW M \in SUBSET Names, \A n \in M : f.ssd[n] \in Ids,
           NEW n \in Names \ M, f.ssd[n] \in Ids, n \in InDir => hdir
    PROVE  move_file_ssd(Moved(f, M), n) = Moved(f, M \cup {n})
<1> DEFINE g == Moved(f, M)
           u == Moved(f, M \cup {n})
           o == [h \in Handles |-> IF g.handle[h] # None /\ g.handle[h] = g.ssd[n] /\ g.own[h] = None
                                   THEN g.content[g.ssd[n]] ELSE g.own[h]]
<1>1. g \in Disks /\ g.ssd[n] = f.ssd[n] /\ g.content = f.content /\ g.handle = f.handle
  BY MovedIs DEF Moved
<1>2. u \in Disks
  <2>1. M \cup {n} \in SUBSET Names /\ \A k \in M \cup {n} : f.ssd[k] \in Ids
    OBVIOUS
  <2> QED BY <2>1, MovedIs
<1>3. move_file_ssd(g, n) = [g EXCEPT !.hdd[n] = g.ssd[n], !.ssd[n] = Away, !.target[n] = n, !.own = o]
  BY <1>1, NoFile DEF move_file_ssd, Disks
<1>4. u.ssd = [g.ssd EXCEPT ![n] = Away]
  BY DEF Moved
<1>5. u.hdd = [g.hdd EXCEPT ![n] = g.ssd[n]]
  BY <1>1 DEF Moved
<1>6. u.target = [g.target EXCEPT ![n] = n]
  BY DEF Moved
<1>7. u.own = o
  <2>1. \A h \in Handles : f.handle[h] # None => f.content[f.handle[h]] # None
    <3>1. \A h \in Handles : f.handle[h] # None => f.content[f.handle[h]] \in Nat
      BY DEF Disks
    <3> QED BY <3>1 DEF None
  <2>2. g.own = [h \in Handles |-> IF /\ f.handle[h] # None /\ f.own[h] = None
                                      /\ \E k \in M : f.handle[h] = f.ssd[k]
                                   THEN f.content[f.handle[h]] ELSE f.own[h]]
    BY DEF Moved
  <2>3. u.own = [h \in Handles |-> IF /\ f.handle[h] # None /\ f.own[h] = None
                                      /\ \E k \in M \cup {n} : f.handle[h] = f.ssd[k]
                                   THEN f.content[f.handle[h]] ELSE f.own[h]]
    BY DEF Moved
  <2> HIDE DEF g, u
  <2>4. ASSUME NEW h \in Handles PROVE u.own[h] = o[h]
    <3>1. CASE f.handle[h] # None /\ f.own[h] = None /\ f.handle[h] = f.ssd[n]
      BY <1>1, <2>1, <2>2, <2>3, <3>1
    <3>2. CASE ~(f.handle[h] # None /\ f.own[h] = None /\ f.handle[h] = f.ssd[n])
      BY <1>1, <2>1, <2>2, <2>3, <3>2
    <3> QED BY <3>1, <3>2
  <2> QED BY <2>3, <2>4
<1>8. u.content = g.content /\ u.mode = g.mode /\ u.handle = g.handle /\ u.wronly = g.wronly
  BY DEF Moved
<1> HIDE DEF g, u, o
<1>9. u = [g EXCEPT !.hdd[n] = g.ssd[n], !.ssd[n] = Away, !.target[n] = n, !.own = o]
  BY <1>1, <1>2, <1>4, <1>5, <1>6, <1>7, <1>8 DEF Disks
<1> QED BY <1>3, <1>9 DEF g, u

\* Files in a queue can be moved out: there is no other entry of their name, and the
\* slow disk has their directory.
Movable == /\ queue \in Seq(Entry) /\ Once(queue) /\ fs \in Disks
           /\ \A n \in Of(queue) : fs.ssd[n] \in Ids /\ (n \in InDir => hdir)

\* The files of the first k entries.
Out(k) == {queue[i].fname : i \in 1 .. k}

\* When the first k entries were moved out.
LEMMA AfterIs ==
    ASSUME Movable
    PROVE  \A k \in 0 .. Len(queue) : After(fs)[k] = Moved(fs, Out(k))
<1> DEFINE len == Len(queue)
           Step(g, k) == move_file_ssd(g, queue[k].fname)
           Made(e) == e = [k \in 0 .. len |-> IF k = 0 THEN fs ELSE Step(e[k - 1], k)]
           z == [k \in 0 .. len |-> Moved(fs, Out(k))]
<1>0. len \in Nat /\ \A i \in 1 .. len : queue[i].fname \in Names /\ queue[i].fname \in Of(queue)
  <2>1. len \in Nat /\ \A i \in 1 .. len : queue[i] \in Entry
    BY LenProperties, ElementOfSeq DEF Movable
  <2> QED BY <2>1 DEF Entry, Of
<1>1. After(fs) = CHOOSE e : Made(e)
  BY DEF After
<1>2. Moved(fs, Out(0)) = fs
  <2>1. Out(0) = {}
    BY DEF Out
  <2> QED BY <2>1 DEF Movable, Disks, Moved
<1>3. ASSUME NEW k \in 1 .. len PROVE Step(Moved(fs, Out(k - 1)), k) = Moved(fs, Out(k))
  <2> DEFINE n == queue[k].fname
  <2>1. Out(k - 1) \subseteq Of(queue) /\ \A i \in Of(queue) : i \in Names
    BY <1>0 DEF Out, Of
  <2>2. n \notin Out(k - 1)
    BY <1>0 DEF Out, Movable, Once
  <2>3. Out(k) = Out(k - 1) \cup {n}
    <3>1. 1 .. k = (1 .. (k - 1)) \cup {k}
      BY <1>0
    <3> QED BY <3>1 DEF Out
  <2>4. n \in Of(queue) /\ n \in Names \ Out(k - 1)
    BY <1>0, <2>2
  <2> HIDE DEF n
  <2>5. move_file_ssd(Moved(fs, Out(k - 1)), n) = Moved(fs, Out(k - 1) \cup {n})
    <3>1. Out(k - 1) \in SUBSET Names /\ \A i \in Out(k - 1) : fs.ssd[i] \in Ids
      BY <2>1 DEF Movable
    <3>2. fs \in Disks /\ fs.ssd[n] \in Ids /\ (n \in InDir => hdir)
      BY <2>4 DEF Movable
    <3> QED BY <2>4, <3>1, <3>2, MoveIs
  <2> QED BY <2>3, <2>5 DEF n
<1> HIDE DEF Step, len
<1>4. Made(z)
  <2>1. \A k \in 0 .. len : z[k] = IF k = 0 THEN fs ELSE Step(z[k - 1], k)
    BY <1>0, <1>2, <1>3
  <2> QED BY <2>1
<1>5. Made(After(fs))
  <2> HIDE DEF Made, z
  <2> QED BY <1>1, <1>4
<1> DEFINE e == After(fs)
<1>6. e = [k \in 0 .. len |-> IF k = 0 THEN fs ELSE Step(e[k - 1], k)]
  BY <1>5
<1> HIDE DEF e
<1>6a. \A k \in 0 .. len : e[k] = IF k = 0 THEN fs ELSE Step(e[k - 1], k)
  <2> DEFINE body == [k \in 0 .. len |-> IF k = 0 THEN fs ELSE Step(e[k - 1], k)]
  <2>1. \A k \in 0 .. len : body[k] = IF k = 0 THEN fs ELSE Step(e[k - 1], k)
    OBVIOUS
  <2>2. e = body
    BY <1>6
  <2> HIDE DEF body
  <2> QED BY <2>1, <2>2
<1> DEFINE S == {k \in Nat : k <= len => e[k] = Moved(fs, Out(k))}
<1>7. 0 \in S
  BY <1>0, <1>2, <1>6a
<1>8. ASSUME NEW k \in Nat, k \in S PROVE k + 1 \in S
  <2>1. ASSUME k + 1 <= len PROVE e[k + 1] = Moved(fs, Out(k + 1))
    <3>1. k + 1 \in 1 .. len /\ k + 1 \in 0 .. len /\ k + 1 - 1 = k /\ k <= len /\ k + 1 # 0
      BY <1>0, <2>1
    <3>2. e[k + 1] = Step(e[k], k + 1)
      BY <1>6a, <3>1
    <3>3. Step(Moved(fs, Out(k)), k + 1) = Moved(fs, Out(k + 1))
      BY <1>3, <3>1
    <3> QED BY <1>8, <3>1, <3>2, <3>3
  <2> QED BY <2>1
<1> HIDE DEF S
<1>9. Nat \subseteq S
  BY <1>7, <1>8, Induct
<1>10. \A k \in 0 .. len : e[k] = Moved(fs, Out(k))
  BY <1>0, <1>9 DEF S
<1> QED BY <1>10 DEF e, len

\* Room is made by moving the first entries out: all of them, or until the disk is no
\* longer full.
LEMMA RoomIs ==
    ASSUME Movable
    PROVE  /\ Rounds(fs) \in 0 .. Len(queue) /\ MadeRoom(fs) = Moved(fs, Out(Rounds(fs)))
           /\ Kept(fs) \in Seq(Entry) /\ Once(Kept(fs))
           /\ \A n \in Of(queue) : n \in Out(Rounds(fs)) <=> n \notin Of(Kept(fs))
           /\ Out(Rounds(fs)) \subseteq Of(queue) /\ Of(Kept(fs)) \subseteq Of(queue)
           /\ Kept(fs) = <<>> \/ ~ssd_is_full(MadeRoom(fs))
<1> DEFINE len == Len(queue)
           K == {k \in 0 .. len : k = len \/ ~ssd_is_full(After(fs)[k])}
           r == Min(K)
           u == SubSeq(queue, r + 1, len)
<1>0. len \in Nat /\ queue \in Seq(Entry)
  BY LenProperties DEF Movable
<1>1. Rounds(fs) = r /\ Kept(fs) = u /\ MadeRoom(fs) = After(fs)[r]
  BY DEF Rounds, Kept, MadeRoom
<1>2. r \in K
  <2>1. len \in K /\ K \in SUBSET Nat
    BY <1>0
  <2> HIDE DEF K
  <2> QED BY <2>1, MinIs
<1>3. r \in 0 .. len /\ (r = len \/ ~ssd_is_full(After(fs)[r]))
  BY <1>2
<1>4. After(fs)[r] = Moved(fs, Out(r))
  <2> HIDE DEF r
  <2> QED BY <1>3, AfterIs
<1> HIDE DEF r
<1>5. u \in Seq(Entry) /\ Len(u) = len - r /\ \A j \in 1 .. len - r : u[j] = queue[r + j]
  <2>1. len \in 0 .. len /\ r + 1 \in Nat \ {0} /\ r + 1 <= len + 1
    BY <1>0, <1>3
  <2>2. /\ u \in Seq(Entry) /\ Len(u) = len - (r + 1) + 1
        /\ \A j \in 1 .. len - (r + 1) + 1 : u[j] = queue[r + 1 + j - 1]
    BY <1>0, <2>1, PartIs
  <2>3. Len(u) = len - r /\ u \in Seq(Entry)
    BY <1>0, <1>3, <2>2
  <2> HIDE DEF u
  <2>4. ASSUME NEW j \in 1 .. len - r PROVE u[j] = queue[r + j]
    <3>1. j \in 1 .. len - (r + 1) + 1 /\ r + 1 + j - 1 = r + j
      BY <1>0, <1>3
    <3> QED BY <2>2, <3>1
  <2> QED BY <2>3, <2>4
<1> HIDE DEF u
<1>6. \A j, k \in 1 .. len : queue[j].fname = queue[k].fname => j = k
  BY DEF Movable, Once
<1>7. Of(u) = {u[j].fname : j \in 1 .. len - r}
  BY <1>5 DEF Of
<1>8. Of(queue) = {queue[i].fname : i \in 1 .. len}
  BY DEF Of
<1>9. r = len => u = <<>>
  <2>1. r = len => Len(u) = 0
    BY <1>0, <1>5
  <2> QED BY <1>5, <2>1, EmptySeq
<1> HIDE DEF len
<1>10. ASSUME NEW j \in 1 .. len - r PROVE r + j \in 1 .. len /\ u[j] = queue[r + j]
  BY <1>0, <1>3, <1>5
<1>11. Once(u)
  <2> SUFFICES ASSUME NEW j \in 1 .. len - r, NEW k \in 1 .. len - r, u[j].fname = u[k].fname
               PROVE  j = k
    BY <1>5 DEF Once
  <2>1. r + j = r + k
    BY <1>6, <1>10
  <2> QED BY <1>0, <1>3, <2>1
<1>12. Of(u) \subseteq Of(queue)
  BY <1>7, <1>8, <1>10
<1>13. Out(r) \subseteq Of(queue)
  <2>1. \A i \in 1 .. r : i \in 1 .. len
    BY <1>0, <1>3
  <2> QED BY <1>8, <2>1 DEF Out
<1>14. ASSUME NEW n \in Of(queue) PROVE n \in Out(r) <=> n \notin Of(u)
  <2>1. PICK i \in 1 .. len : queue[i].fname = n
    BY <1>8
  <2>2. n \in Out(r) <=> i <= r
    <3>1. ASSUME n \in Out(r) PROVE i <= r
      <4>1. PICK k \in 1 .. r : queue[k].fname = n
        BY <3>1 DEF Out
      <4>2. k \in 1 .. len
        BY <1>0, <1>3, <4>1
      <4> QED BY <1>6, <2>1, <4>1, <4>2
    <3>2. ASSUME i <= r PROVE n \in Out(r)
      <4>1. i \in 1 .. r
        BY <1>0, <1>3, <3>2
      <4> QED BY <2>1, <4>1 DEF Out
    <3> QED BY <3>1, <3>2
  <2>3. n \in Of(u) <=> i > r
    <3>1. ASSUME n \in Of(u) PROVE i > r
      <4>1. PICK j \in 1 .. len - r : u[j].fname = n
        BY <1>7, <3>1
      <4>2. i = r + j
        BY <1>6, <1>10, <2>1, <4>1
      <4> QED BY <1>0, <1>3, <4>2
    <3>2. ASSUME i > r PROVE n \in Of(u)
      <4>1. i - r \in 1 .. len - r /\ r + (i - r) = i
        BY <1>0, <1>3, <3>2
      <4>2. u[i - r] = queue[i]
        BY <1>10, <4>1
      <4> QED BY <1>7, <2>1, <4>1, <4>2
    <3> QED BY <3>1, <3>2
  <2> QED BY <1>0, <1>3, <2>2, <2>3
<1> QED BY <1>1, <1>3, <1>4, <1>5, <1>9, <1>11, <1>12, <1>13, <1>14 DEF len
-----------------------------------------------------------------------------
(* The invariant. *)

\* The disks, a queue and the names in use agree.
Agrees(f, s, k) ==
    /\ f \in Disks /\ Placed(f)
    /\ s \in Seq(Entry) /\ Once(s) /\ \A n \in Of(s) : n \in Names /\ f.ssd[n] \in Ids
    /\ k \in SUBSET Names /\ \A n \in k : f.ssd[n] # None /\ (f.ssd[n] \in Ids => n \in Of(s))
    /\ "evictOpen" \notin Careless => NoneLeft(f)

\* A file is in a directory there is.
Rooted(f, d) == \A n \in InDir : f.ssd[n] # None => d

HyInv ==
    /\ Agrees(fs, queue, known) /\ Idle(fs)
    /\ sdir \in BOOLEAN /\ hdir = sdir /\ Rooted(fs, sdir)
    /\ mounted \in BOOLEAN /\ limited \in BOOLEAN /\ lru \in BOOLEAN

\* What Tidy does is not against it.
LEMMA TidyAgrees ==
    ASSUME NEW f, NEW s, NEW k, NEW d, Agrees(f, s, k), Rooted(f, d)
    PROVE  Agrees(Tidy(f), s, k) /\ Rooted(Tidy(f), d) /\ Idle(Tidy(f))
<1>1. f \in Disks
  BY DEF Agrees
<1> DEFINE g == Tidy(f)
<1>2. g \in Disks /\ g.ssd = f.ssd /\ g.hdd = f.hdd /\ g.handle = f.handle /\ g.own = f.own /\ Idle(g)
  BY <1>1, TidyIs
<1> HIDE DEF g
<1>3. Agrees(g, s, k) /\ Rooted(g, d)
  BY <1>2 DEF Agrees, Rooted, Placed, NoneLeft
<1> QED BY <1>2, <1>3 DEF g

\* Nor what is written to files, nor a handle.
LEMMA SameAgrees ==
    ASSUME NEW f, NEW s, NEW k, NEW d, Agrees(f, s, k), Rooted(f, d),
           NEW g \in Disks, g.ssd = f.ssd, g.hdd = f.hdd,
           "evictOpen" \notin Careless => NoneLeft(g)
    PROVE  Agrees(g, s, k) /\ Rooted(g, d)
BY DEF Agrees, Rooted, Placed

\* When room is made, the files M that leave the queue are on the hdd.
LEMMA RoomAgrees ==
    ASSUME HyInv
    PROVE  /\ \E M \in SUBSET Of(queue) :
                 /\ MadeRoom(fs) = Moved(fs, M)
                 /\ \A n \in Of(queue) : n \in M <=> n \notin Of(Kept(fs))
           /\ Kept(fs) = <<>> \/ ~ssd_is_full(MadeRoom(fs))
           /\ MadeRoom(fs) \in Disks /\ Placed(MadeRoom(fs)) /\ Rooted(MadeRoom(fs), sdir)
           /\ Kept(fs) \in Seq(Entry) /\ Once(Kept(fs)) /\ Of(Kept(fs)) \subseteq Of(queue)
           /\ \A n \in Of(Kept(fs)) : n \in Names /\ MadeRoom(fs).ssd[n] \in Ids
           /\ \A n \in known : /\ MadeRoom(fs).ssd[n] # None
                               /\ MadeRoom(fs).ssd[n] \in Ids => n \in Of(Kept(fs))
           /\ \A n \in Names : n \notin Of(queue) => /\ MadeRoom(fs).ssd[n] = fs.ssd[n]
                                                    /\ MadeRoom(fs).hdd[n] = fs.hdd[n]
<1> DEFINE M == Out(Rounds(fs))
           g == MadeRoom(fs)
           u == Kept(fs)
<1>0. /\ fs \in Disks /\ Placed(fs) /\ \A n \in Of(queue) : n \in Names /\ fs.ssd[n] \in Ids
      /\ known \in SUBSET Names
      /\ \A n \in known : fs.ssd[n] # None /\ (fs.ssd[n] \in Ids => n \in Of(queue))
      /\ hdir = sdir /\ Rooted(fs, sdir)
  BY DEF HyInv, Agrees
<1>1. Movable
  BY NoFile DEF HyInv, Agrees, Movable, Rooted
<1>2. /\ g = Moved(fs, M) /\ M \subseteq Of(queue)
      /\ u \in Seq(Entry) /\ Once(u) /\ Of(u) \subseteq Of(queue)
      /\ \A n \in Of(queue) : n \in M <=> n \notin Of(u)
      /\ u = <<>> \/ ~ssd_is_full(g)
  BY <1>1, RoomIs
<1> HIDE DEF M, g, u
<1>3. M \in SUBSET Names /\ \A n \in M : fs.ssd[n] \in Ids
  BY <1>0, <1>2
<1>4. g \in Disks
  BY <1>0, <1>2, <1>3, MovedIs
<1>5. \A n \in Names : /\ g.ssd[n] = IF n \in M THEN Away ELSE fs.ssd[n]
                       /\ g.hdd[n] = IF n \in M THEN fs.ssd[n] ELSE fs.hdd[n]
  BY <1>2 DEF Moved
<1>6. Placed(g)
  BY <1>0, <1>3, <1>5, NoFile DEF Placed
<1>7. Rooted(g, sdir)
  BY <1>0, <1>3, <1>5, NoFile, NamesAssumption DEF Rooted
<1>8. \A n \in Of(u) : n \in Names /\ g.ssd[n] \in Ids
  BY <1>0, <1>2, <1>5
<1>9. \A n \in known : g.ssd[n] # None /\ (g.ssd[n] \in Ids => n \in Of(u))
  BY <1>0, <1>2, <1>5, NoFile
<1>10. \A n \in Names : n \notin Of(queue) => g.ssd[n] = fs.ssd[n] /\ g.hdd[n] = fs.hdd[n]
  BY <1>2, <1>5
<1> QED BY <1>2, <1>4, <1>6, <1>7, <1>8, <1>9, <1>10 DEF g, u

\* It holds at first.
LEMMA HyInitInv ==
    ASSUME Init
    PROVE  HyInv
<1>1. fs \in Disks
  BY DEF Init, Disks
<1>2. queue \in Seq(Entry) /\ Of(queue) = {} /\ Once(queue)
  BY DEF Init, Of, Once
<1>3. Placed(fs) /\ NoneLeft(fs) /\ Rooted(fs, sdir) /\ Idle(fs)
  BY NamesAssumption, NoFile DEF Init, Placed, NoneLeft, Rooted, Idle
<1> QED BY <1>1, <1>2, <1>3 DEF Init, HyInv, Agrees

\* The file of a name is on one of the disks.
LEMMA FileIs ==
    ASSUME NEW f \in Disks, Placed(f), NEW n \in Names
    PROVE  /\ FileOf(f, n) \in Ids \cup {None}
           /\ FileOf(f, n) = IF f.ssd[n] = Away THEN f.hdd[n] ELSE f.ssd[n]
           /\ FileOf(f, n) # None <=> f.ssd[n] # None
           /\ FileOf(f, n) \in Ids => FileOf(f, n) \in Reachable(f)
           /\ is_symlink_ssd(f, n) <=> f.ssd[n] = Away
<1>1. f.ssd[n] \in Ids \cup {None, Away} /\ f.hdd[n] \in Ids \cup {None}
  BY DEF Disks
<1>2. f.hdd[n] # None <=> f.ssd[n] = Away
  BY DEF Placed
<1>3. f.ssd[n] \in Reachable(f) /\ f.hdd[n] \in Reachable(f)
  BY DEF Reachable
<1> QED BY <1>1, <1>2, <1>3, NoFile DEF FileOf, is_symlink_ssd

\* What changes files, and neither names nor handles.
LEMMA HyWrites ==
    ASSUME HyInv, fs' \in Disks, fs'.ssd = fs.ssd, fs'.hdd = fs.hdd, fs'.handle = fs.handle,
           "evictOpen" \notin Careless => NoneLeft(fs'),
           \A i \in Ids \ Reachable(fs) : fs'.content[i] = 0 /\ fs'.mode[i] = 0,
           UNCHANGED <<queue, known, sdir, hdir, mounted, limited, lru>>
    PROVE  HyInv'
<1>1. Agrees(fs, queue, known) /\ Rooted(fs, sdir)
  BY DEF HyInv
<1>2. Agrees(fs', queue, known) /\ Rooted(fs', sdir)
  BY <1>1, SameAgrees
<1>3. Agrees(fs, queue, known)' /\ Rooted(fs, sdir)'
  BY <1>2
<1>4. Reachable(fs') = Reachable(fs)
  BY DEF Reachable
<1>5. Idle(fs)'
  BY <1>4 DEF Idle
<1> QED BY <1>3, <1>5 DEF HyInv

\* write
LEMMA HyWrite ==
    ASSUME HyInv, NEW h \in Handles, write(h)
    PROVE  HyInv'
<1>0. fs \in Disks /\ Idle(fs) /\ ("evictOpen" \notin Careless => NoneLeft(fs))
  BY DEF HyInv, Agrees
<1> DEFINE i == fs.handle[h]
<1>1. i \in Ids /\ i \in Reachable(fs) /\ UNCHANGED <<queue, known, sdir, hdir, mounted, limited, lru>>
  BY <1>0 DEF write, Disks, Reachable, Call
<1>2. CASE fs.own[h] = None
  <2> DEFINE v == fs.content[i] + 1
             c == [fs.content EXCEPT ![i] = v]
  <2>0. v \in Nat
    <3>1. fs.content[i] \in Nat
      BY <1>0, <1>1 DEF Disks
    <3> QED BY <3>1
  <2>2. fs' = [fs EXCEPT !.content = c]
    BY <1>0, <1>2 DEF write, Disks
  <2> HIDE DEF v
  <2>1. c \in [Ids -> Nat] /\ \A k \in Ids : k # i => c[k] = fs.content[k]
    BY <1>0, <1>1, <2>0 DEF Disks
  <2> HIDE DEF c, i
  <2>3. /\ fs' \in Disks /\ fs'.ssd = fs.ssd /\ fs'.hdd = fs.hdd /\ fs'.handle = fs.handle
        /\ fs'.own = fs.own /\ fs'.content = c /\ fs'.mode = fs.mode
    BY <1>0, <2>1, <2>2 DEF Disks
  <2>4. \A k \in Ids \ Reachable(fs) : fs'.content[k] = 0 /\ fs'.mode[k] = 0
    BY <1>0, <1>1, <2>1, <2>3 DEF Idle
  <2>5. "evictOpen" \notin Careless => NoneLeft(fs')
    BY <1>0, <2>3 DEF NoneLeft
  <2> QED BY <1>1, <2>3, <2>4, <2>5, HyWrites
<1>3. CASE fs.own[h] # None
  <2> DEFINE v == fs.own[h] + 1
             o == [fs.own EXCEPT ![h] = v]
  <2>0. v \in Nat
    <3>1. fs.own[h] \in Nat
      BY <1>0, <1>3 DEF Disks
    <3> QED BY <3>1
  <2>2. fs' = [fs EXCEPT !.own = o]
    BY <1>0, <1>3 DEF write, Disks
  <2> HIDE DEF v
  <2>1. o \in [Handles -> Nat \cup {None}]
    BY <1>0, <2>0 DEF Disks
  <2> HIDE DEF o, i
  <2>3. /\ fs' \in Disks /\ fs'.ssd = fs.ssd /\ fs'.hdd = fs.hdd /\ fs'.handle = fs.handle
        /\ fs'.content = fs.content /\ fs'.mode = fs.mode
    BY <1>0, <2>1, <2>2 DEF Disks
  <2>4. \A k \in Ids \ Reachable(fs) : fs'.content[k] = 0 /\ fs'.mode[k] = 0
    BY <1>0, <2>3 DEF Idle
  <2>5. "evictOpen" \in Careless
    BY <1>0, <1>3 DEF NoneLeft
  <2> QED BY <1>1, <2>3, <2>4, <2>5, HyWrites
<1> QED BY <1>2, <1>3

\* ftruncate
LEMMA HyFtruncate ==
    ASSUME HyInv, NEW h \in Handles, ftruncate(h)
    PROVE  HyInv'
<1>0. fs \in Disks /\ Idle(fs) /\ ("evictOpen" \notin Careless => NoneLeft(fs))
  BY DEF HyInv, Agrees
<1> DEFINE i == fs.handle[h]
<1>1. i \in Ids /\ UNCHANGED <<queue, known, sdir, hdir, mounted, limited, lru>>
  BY <1>0 DEF ftruncate, Disks, Call
<1>2. CASE fs.own[h] = None
  <2> DEFINE c == [fs.content EXCEPT ![i] = 0]
  <2>1. c \in [Ids -> Nat] /\ \A k \in Ids : c[k] = 0 \/ c[k] = fs.content[k]
    BY <1>0, <1>1 DEF Disks
  <2>2. fs' = [fs EXCEPT !.content = c]
    BY <1>0, <1>2 DEF ftruncate, Disks
  <2> HIDE DEF c, i
  <2>3. /\ fs' \in Disks /\ fs'.ssd = fs.ssd /\ fs'.hdd = fs.hdd /\ fs'.handle = fs.handle
        /\ fs'.own = fs.own /\ fs'.content = c /\ fs'.mode = fs.mode
    BY <1>0, <2>1, <2>2 DEF Disks
  <2>4. \A k \in Ids \ Reachable(fs) : fs'.content[k] = 0 /\ fs'.mode[k] = 0
    BY <1>0, <2>1, <2>3 DEF Idle
  <2>5. "evictOpen" \notin Careless => NoneLeft(fs')
    BY <1>0, <2>3 DEF NoneLeft
  <2> QED BY <1>1, <2>3, <2>4, <2>5, HyWrites
<1>3. CASE fs.own[h] # None
  <2> DEFINE o == [fs.own EXCEPT ![h] = 0]
  <2>1. o \in [Handles -> Nat \cup {None}]
    BY <1>0, <1>3 DEF Disks
  <2>2. fs' = [fs EXCEPT !.own = o]
    BY <1>0, <1>3 DEF ftruncate, Disks
  <2> HIDE DEF o, i
  <2>3. /\ fs' \in Disks /\ fs'.ssd = fs.ssd /\ fs'.hdd = fs.hdd /\ fs'.handle = fs.handle
        /\ fs'.content = fs.content /\ fs'.mode = fs.mode
    BY <1>0, <2>1, <2>2 DEF Disks
  <2>4. \A k \in Ids \ Reachable(fs) : fs'.content[k] = 0 /\ fs'.mode[k] = 0
    BY <1>0, <2>3 DEF Idle
  <2>5. "evictOpen" \in Careless
    BY <1>0, <1>3 DEF NoneLeft
  <2> QED BY <1>1, <2>3, <2>4, <2>5, HyWrites
<1> QED BY <1>2, <1>3

\* truncate
LEMMA HyTruncate ==
    ASSUME HyInv, NEW n \in Names, truncate(n)
    PROVE  HyInv'
<1>0. fs \in Disks /\ Placed(fs) /\ Idle(fs) /\ ("evictOpen" \notin Careless => NoneLeft(fs))
  BY DEF HyInv, Agrees
<1> DEFINE i == FileOf(fs, n)
<1>1. i \in Ids /\ UNCHANGED <<queue, known, sdir, hdir, mounted, limited, lru>>
  BY <1>0, FileIs DEF truncate, Call
<1>2. fs' = [fs EXCEPT !.content[i] = 0]
  BY DEF truncate
<1> DEFINE c == [fs.content EXCEPT ![i] = 0]
<1> HIDE DEF i
<1>3. c \in [Ids -> Nat] /\ \A k \in Ids : c[k] = 0 \/ c[k] = fs.content[k]
  BY <1>0, <1>1 DEF Disks
<1>4. fs' = [fs EXCEPT !.content = c]
  BY <1>0, <1>2 DEF Disks
<1> HIDE DEF c
<1>5. /\ fs' \in Disks /\ fs'.ssd = fs.ssd /\ fs'.hdd = fs.hdd /\ fs'.handle = fs.handle
      /\ fs'.own = fs.own /\ fs'.content = c /\ fs'.mode = fs.mode
  BY <1>0, <1>3, <1>4 DEF Disks
<1>6. \A k \in Ids \ Reachable(fs) : fs'.content[k] = 0 /\ fs'.mode[k] = 0
  BY <1>0, <1>3, <1>5 DEF Idle
<1>7. "evictOpen" \notin Careless => NoneLeft(fs')
  BY <1>0, <1>5 DEF NoneLeft
<1> QED BY <1>1, <1>5, <1>6, <1>7, HyWrites

\* chmod and setxattr
LEMMA HyModes ==
    ASSUME HyInv, NEW n \in Names, chmod(n) \/ setxattr(n)
    PROVE  HyInv'
<1>0. fs \in Disks /\ Placed(fs) /\ Idle(fs) /\ ("evictOpen" \notin Careless => NoneLeft(fs))
  BY DEF HyInv, Agrees
<1> DEFINE i == FileOf(fs, n)
           j == IF fs.ssd[n] = Away THEN fs.hdd[fs.target[n]] ELSE i
<1>1. /\ i \in Ids /\ i \in Reachable(fs)
      /\ UNCHANGED <<queue, known, sdir, hdir, mounted, limited, lru>>
  BY <1>0, FileIs DEF chmod, setxattr, Call
<1>2. j \in Reachable(fs)
  BY <1>0, <1>1 DEF Reachable, Disks
<1> HIDE DEF i, j
<1>3. \E m \in [Ids -> {0, 1}] :
         fs' = [fs EXCEPT !.mode = m] /\ \A k \in Ids \ Reachable(fs) : m[k] = fs.mode[k]
  <2>1. CASE chmod(n)
    <3>1. PICK v \in Modes : fs' = [fs EXCEPT !.mode = [k \in Ids |-> IF k \in {i, j} THEN v ELSE @[k]]]
      BY <2>1 DEF chmod, i, j
    <3> DEFINE m == [k \in Ids |-> IF k \in {i, j} THEN v ELSE fs.mode[k]]
    <3>2. m \in [Ids -> {0, 1}] /\ \A k \in Ids \ Reachable(fs) : m[k] = fs.mode[k]
      BY <1>0, <1>1, <1>2, ModesAssumption DEF Disks
    <3>3. fs' = [fs EXCEPT !.mode = m]
      BY <1>0, <3>1 DEF Disks
    <3> HIDE DEF m
    <3> QED BY <3>2, <3>3
  <2>2. CASE setxattr(n)
    <3>1. PICK v \in Modes : fs' = [fs EXCEPT !.mode[i] = v]
      BY <2>2 DEF setxattr, i
    <3> DEFINE m == [fs.mode EXCEPT ![i] = v]
    <3>2. m \in [Ids -> {0, 1}] /\ \A k \in Ids \ Reachable(fs) : m[k] = fs.mode[k]
      BY <1>0, <1>1, ModesAssumption DEF Disks
    <3>3. fs' = [fs EXCEPT !.mode = m]
      BY <1>0, <3>1 DEF Disks
    <3> HIDE DEF m
    <3> QED BY <3>2, <3>3
  <2> QED BY <2>1, <2>2
<1>4. PICK m \in [Ids -> {0, 1}] :
         fs' = [fs EXCEPT !.mode = m] /\ \A k \in Ids \ Reachable(fs) : m[k] = fs.mode[k]
  BY <1>3
<1>5. /\ fs' \in Disks /\ fs'.ssd = fs.ssd /\ fs'.hdd = fs.hdd /\ fs'.handle = fs.handle
      /\ fs'.own = fs.own /\ fs'.content = fs.content /\ fs'.mode = m
  BY <1>0, <1>4 DEF Disks
<1>6. \A k \in Ids \ Reachable(fs) : fs'.content[k] = 0 /\ fs'.mode[k] = 0
  BY <1>0, <1>4, <1>5 DEF Idle
<1>7. "evictOpen" \notin Careless => NoneLeft(fs')
  BY <1>0, <1>5 DEF NoneLeft
<1> QED BY <1>1, <1>5, <1>6, <1>7, HyWrites

\* A number that nothing has yet.
LEMMA FreshIs ==
    ASSUME MayMake
    PROVE  Min(Ids \ Reachable(fs)) \in Ids \ Reachable(fs)
<1> DEFINE I == Ids \ Reachable(fs)
<1>1. I \in SUBSET Nat /\ I # {}
  BY IdsAssumption DEF MayMake
<1> HIDE DEF I
<1>2. Min(I) \in I
  BY <1>1, MinIs
<1> QED BY <1>2 DEF I

\* A handler that changes the disks and then leaves no file behind.
LEMMA HyTidies ==
    ASSUME HyInv, NEW g, fs' = Tidy(g), Agrees(g, queue', known'), Rooted(g, sdir),
           mounted' \in BOOLEAN, UNCHANGED <<sdir, hdir, limited, lru>>
    PROVE  HyInv'
<1> DEFINE s == queue'
           k == known'
           d == sdir
<1>1. Agrees(Tidy(g), s, k) /\ Rooted(Tidy(g), d) /\ Idle(Tidy(g))
  <2>1. Agrees(g, s, k) /\ Rooted(g, d)
    OBVIOUS
  <2> HIDE DEF s, k, d
  <2> QED BY <2>1, TidyAgrees
<1>2. Agrees(fs', queue', known') /\ Rooted(fs', sdir') /\ Idle(fs')
  BY <1>1
<1>3. Agrees(fs, queue, known)' /\ Rooted(fs, sdir)' /\ Idle(fs)'
  BY <1>2
<1> QED BY <1>3 DEF HyInv

\* create
LEMMA HyCreate ==
    ASSUME HyInv, NEW n \in Names, NEW h \in Handles, create(n, h)
    PROVE  HyInv'
<1> DEFINE f == MadeRoom(fs)
           i == Min(Ids \ Reachable(fs))
           u == Kept(fs)
           g == [f EXCEPT !.ssd[n] = i, !.handle[h] = i, !.wronly = @ \cup {h}]
           t == Inserted(u, n)
<1>0. /\ fs.ssd[n] = None /\ (n \in InDir => sdir) /\ MayMake /\ TakesNoOpen(f)
      /\ fs' = Tidy(g) /\ queue' = t /\ known' = known \cup {n}
      /\ UNCHANGED <<sdir, hdir, mounted, limited, lru>>
  BY DEF create, Call
<1>1. i \in Ids
  BY <1>0, FreshIs
<1>2. n \notin Of(queue) /\ known \in SUBSET Names
  BY <1>0, NoFile DEF HyInv, Agrees
<1>3. /\ f \in Disks /\ Placed(f) /\ Rooted(f, sdir)
      /\ u \in Seq(Entry) /\ Once(u) /\ Of(u) \subseteq Of(queue)
      /\ \A m \in Of(u) : m \in Names /\ f.ssd[m] \in Ids
      /\ \A m \in known : f.ssd[m] # None /\ (f.ssd[m] \in Ids => m \in Of(u))
      /\ f.ssd[n] = None
  BY <1>0, <1>2, RoomAgrees
<1> HIDE DEF f, i, u
<1>4. t \in Seq(Entry) /\ Once(t) /\ Of(t) = Of(u) \cup {n}
  BY <1>3, InsertedIs
<1> HIDE DEF t
<1>5. /\ g \in Disks /\ g.own = f.own /\ g.hdd = f.hdd /\ g.ssd[n] = i
      /\ \A m \in Names : m # n => g.ssd[m] = f.ssd[m]
  BY <1>1, <1>3 DEF Disks
<1> HIDE DEF g
<1>6. Placed(g) /\ Rooted(g, sdir)
  BY <1>0, <1>1, <1>3, <1>5, NoFile, NamesAssumption DEF Placed, Rooted
<1>7. \A m \in Of(t) : m \in Names /\ g.ssd[m] \in Ids
  BY <1>1, <1>3, <1>4, <1>5
<1>8. \A m \in known \cup {n} : m \in Names /\ g.ssd[m] # None /\ (g.ssd[m] \in Ids => m \in Of(t))
  BY <1>1, <1>2, <1>3, <1>4, <1>5, NoFile
<1>9. "evictOpen" \notin Careless => NoneLeft(g)
  BY <1>0, <1>5 DEF TakesNoOpen, NoneLeft
<1>10. Agrees(g, queue', known')
  BY <1>0, <1>4, <1>5, <1>6, <1>7, <1>8, <1>9 DEF Agrees
<1>11. mounted' \in BOOLEAN
  BY <1>0 DEF HyInv
<1> QED BY <1>0, <1>6, <1>10, <1>11, HyTidies

\* mknod
LEMMA HyMknod ==
    ASSUME HyInv, NEW n \in Names, mknod(n)
    PROVE  HyInv'
<1> DEFINE i == Min(Ids \ Reachable(fs))
<1>0. /\ fs.ssd[n] = None /\ (n \in InDir => sdir) /\ MayMake
      /\ fs' = [fs EXCEPT !.ssd[n] = i]
      /\ UNCHANGED <<queue, known, sdir, hdir, mounted, limited, lru>>
  BY DEF mknod, Call
<1>1. i \in Ids
  BY <1>0, FreshIs
<1> HIDE DEF i
<1>2. /\ fs \in Disks /\ Placed(fs) /\ Rooted(fs, sdir) /\ Idle(fs)
      /\ queue \in Seq(Entry) /\ Once(queue) /\ \A m \in Of(queue) : m \in Names /\ fs.ssd[m] \in Ids
      /\ known \in SUBSET Names
      /\ \A m \in known : fs.ssd[m] # None /\ (fs.ssd[m] \in Ids => m \in Of(queue))
      /\ ("evictOpen" \notin Careless => NoneLeft(fs))
  BY DEF HyInv, Agrees
<1>3. /\ fs' \in Disks /\ fs'.own = fs.own /\ fs'.hdd = fs.hdd /\ fs'.ssd[n] = i
      /\ fs'.handle = fs.handle /\ fs'.content = fs.content /\ fs'.mode = fs.mode
      /\ \A m \in Names : m # n => fs'.ssd[m] = fs.ssd[m]
  BY <1>0, <1>1, <1>2 DEF Disks
<1>4. Placed(fs') /\ Rooted(fs', sdir) /\ Idle(fs')
  <2>1. Placed(fs') /\ Rooted(fs', sdir)
    BY <1>0, <1>1, <1>2, <1>3, NoFile, NamesAssumption DEF Placed, Rooted
  <2>2. \A k \in Ids : k \in Reachable(fs) => k \in Reachable(fs')
    BY <1>0, <1>3, NoFile DEF Reachable
  <2>3. ASSUME NEW k \in Ids \ Reachable(fs') PROVE fs'.content[k] = 0 /\ fs'.mode[k] = 0
    <3>1. k \in Ids \ Reachable(fs)
      BY <2>2
    <3> QED BY <1>2, <1>3, <3>1 DEF Idle
  <2>4. Idle(fs')
    BY <2>3 DEF Idle
  <2> QED BY <2>1, <2>4
<1>5. /\ \A m \in Of(queue) : fs'.ssd[m] \in Ids
      /\ \A m \in known : fs'.ssd[m] # None /\ (fs'.ssd[m] \in Ids => m \in Of(queue))
  BY <1>0, <1>1, <1>2, <1>3, NoFile
<1>6. "evictOpen" \notin Careless => NoneLeft(fs')
  BY <1>2, <1>3 DEF NoneLeft
<1>7. Agrees(fs', queue, known)
  BY <1>2, <1>3, <1>4, <1>5, <1>6 DEF Agrees
<1>8. Agrees(fs, queue, known)' /\ Rooted(fs, sdir)' /\ Idle(fs)'
  BY <1>0, <1>4, <1>7
<1> QED BY <1>0, <1>8 DEF HyInv

\* link
LEMMA HyLink ==
    ASSUME HyInv, NEW n \in Names, NEW m \in Names, link(n, m)
    PROVE  HyInv'
<1> DEFINE i == fs.ssd[n]
<1>0. /\ i \in Ids /\ fs.ssd[m] = None /\ (m \in InDir => sdir)
      /\ fs' = [fs EXCEPT !.ssd[m] = i]
      /\ UNCHANGED <<queue, known, sdir, hdir, mounted, limited, lru>>
  BY DEF link, Call
<1> HIDE DEF i
<1>2. /\ fs \in Disks /\ Placed(fs) /\ Rooted(fs, sdir) /\ Idle(fs)
      /\ queue \in Seq(Entry) /\ Once(queue) /\ \A k \in Of(queue) : k \in Names /\ fs.ssd[k] \in Ids
      /\ known \in SUBSET Names
      /\ \A k \in known : fs.ssd[k] # None /\ (fs.ssd[k] \in Ids => k \in Of(queue))
      /\ ("evictOpen" \notin Careless => NoneLeft(fs))
  BY DEF HyInv, Agrees
<1>3. /\ fs' \in Disks /\ fs'.own = fs.own /\ fs'.hdd = fs.hdd /\ fs'.ssd[m] = i
      /\ fs'.handle = fs.handle /\ fs'.content = fs.content /\ fs'.mode = fs.mode
      /\ \A k \in Names : k # m => fs'.ssd[k] = fs.ssd[k]
  BY <1>0, <1>2 DEF Disks
<1>4. Placed(fs') /\ Rooted(fs', sdir) /\ Idle(fs')
  <2>1. Placed(fs') /\ Rooted(fs', sdir)
    BY <1>0, <1>2, <1>3, NoFile, NamesAssumption DEF Placed, Rooted
  <2>2. \A k \in Ids : k \in Reachable(fs) => k \in Reachable(fs')
    BY <1>0, <1>3, NoFile DEF Reachable
  <2>3. ASSUME NEW k \in Ids \ Reachable(fs') PROVE fs'.content[k] = 0 /\ fs'.mode[k] = 0
    <3>1. k \in Ids \ Reachable(fs)
      BY <2>2
    <3> QED BY <1>2, <1>3, <3>1 DEF Idle
  <2>4. Idle(fs')
    BY <2>3 DEF Idle
  <2> QED BY <2>1, <2>4
<1>5. /\ \A k \in Of(queue) : fs'.ssd[k] \in Ids
      /\ \A k \in known : fs'.ssd[k] # None /\ (fs'.ssd[k] \in Ids => k \in Of(queue))
  BY <1>0, <1>2, <1>3, NoFile
<1>6. "evictOpen" \notin Careless => NoneLeft(fs')
  BY <1>2, <1>3 DEF NoneLeft
<1>7. Agrees(fs', queue, known)
  BY <1>2, <1>3, <1>4, <1>5, <1>6 DEF Agrees
<1>8. Agrees(fs, queue, known)' /\ Rooted(fs, sdir)' /\ Idle(fs)'
  BY <1>0, <1>4, <1>7
<1> QED BY <1>0, <1>8 DEF HyInv

\* open, of a file on the ssd
LEMMA HyOpenHere ==
    ASSUME HyInv, NEW n \in Names, NEW h \in Handles, open(n, h), ~is_symlink_ssd(fs, n)
    PROVE  HyInv'
<1> DEFINE i == fs.ssd[n]
           g == [fs EXCEPT !.handle[h] = i]
           t == Inserted(queue, n)
<1>1. /\ fs \in Disks /\ Placed(fs) /\ Rooted(fs, sdir)
      /\ queue \in Seq(Entry) /\ Once(queue) /\ \A k \in Of(queue) : k \in Names /\ fs.ssd[k] \in Ids
      /\ known \in SUBSET Names
      /\ \A k \in known : fs.ssd[k] # None /\ (fs.ssd[k] \in Ids => k \in Of(queue))
      /\ ("evictOpen" \notin Careless => NoneLeft(fs)) /\ mounted \in BOOLEAN
  BY DEF HyInv, Agrees
<1>2. i # None /\ i # Away
  BY <1>1, FileIs DEF open
<1>3. i \in Ids
  BY <1>1, <1>2 DEF Disks
<1>4. /\ fs' = Tidy(g) /\ queue' = t /\ known' = known \cup {n}
      /\ UNCHANGED <<sdir, hdir, mounted, limited, lru>>
  BY <1>3 DEF open, Call
<1>5. t \in Seq(Entry) /\ Once(t) /\ Of(t) = Of(queue) \cup {n}
  BY <1>1, InsertedIs
<1> HIDE DEF t, i
<1>6. g \in Disks /\ g.own = fs.own /\ g.hdd = fs.hdd /\ g.ssd = fs.ssd
  BY <1>1, <1>3 DEF Disks
<1> HIDE DEF g
<1>7. Placed(g) /\ Rooted(g, sdir) /\ ("evictOpen" \notin Careless => NoneLeft(g))
  BY <1>1, <1>6 DEF Placed, Rooted, NoneLeft
<1>8. /\ \A k \in Of(t) : k \in Names /\ g.ssd[k] \in Ids
      /\ \A k \in known \cup {n} : k \in Names /\ g.ssd[k] # None /\ (g.ssd[k] \in Ids => k \in Of(t))
  BY <1>1, <1>3, <1>5, <1>6, NoFile DEF i
<1>9. Agrees(g, queue', known')
  BY <1>4, <1>5, <1>6, <1>7, <1>8 DEF Agrees
<1> QED BY <1>1, <1>4, <1>7, <1>9, HyTidies

\* open, of a file on the hdd
LEMMA HyOpenThere ==
    ASSUME HyInv, NEW n \in Names, NEW h \in Handles, open(n, h), is_symlink_ssd(fs, n)
    PROVE  HyInv'
<1> DEFINE f == MadeRoom(fs)
           i == fs.hdd[n]
           e == move_file_hdd(f, n)
           u == Kept(fs)
           g == [e EXCEPT !.handle[h] = i]
           t == Inserted(u, n)
<1>1. /\ fs \in Disks /\ Placed(fs) /\ known \in SUBSET Names
      /\ \A k \in Of(queue) : fs.ssd[k] \in Ids /\ mounted \in BOOLEAN
      /\ mounted \in BOOLEAN
  BY DEF HyInv, Agrees
<1>2. fs.ssd[n] = Away /\ i \in Ids /\ n \notin Of(queue)
  BY <1>1, NoFile DEF is_symlink_ssd
<1>3. /\ f \in Disks /\ Placed(f) /\ Rooted(f, sdir)
      /\ u \in Seq(Entry) /\ Once(u) /\ Of(u) \subseteq Of(queue)
      /\ \A m \in Of(u) : m \in Names /\ f.ssd[m] \in Ids
      /\ \A m \in known : f.ssd[m] # None /\ (f.ssd[m] \in Ids => m \in Of(u))
      /\ f.ssd[n] = Away /\ f.hdd[n] = i
  BY <1>2, RoomAgrees
<1>4. e = [f EXCEPT !.ssd[n] = i, !.hdd[n] = None]
  BY <1>3 DEF move_file_hdd
<1>5. TakesNoOpen(e) /\ queue' = t /\ known' = known \cup {n}
      /\ UNCHANGED <<sdir, hdir, mounted, limited, lru>>
  BY DEF open, Call
<1>6. fs' = Tidy(IF e.ssd[n] \in Ids THEN [e EXCEPT !.handle[h] = e.ssd[n]] ELSE e)
  BY DEF open
<1> HIDE DEF f, i, u, e
<1>7. /\ e \in Disks /\ e.own = f.own /\ e.ssd[n] = i /\ e.hdd[n] = None
      /\ \A m \in Names : m # n => e.ssd[m] = f.ssd[m] /\ e.hdd[m] = f.hdd[m]
  BY <1>2, <1>3, <1>4 DEF Disks
<1>8. fs' = Tidy(g)
  BY <1>2, <1>6, <1>7
<1>9. /\ g \in Disks /\ g.own = f.own /\ g.ssd[n] = i /\ g.hdd[n] = None
      /\ \A m \in Names : m # n => g.ssd[m] = f.ssd[m] /\ g.hdd[m] = f.hdd[m]
  BY <1>2, <1>7 DEF Disks
<1>10. t \in Seq(Entry) /\ Once(t) /\ Of(t) = Of(u) \cup {n}
  BY <1>3, InsertedIs
<1> HIDE DEF t, g
<1>11. Placed(g) /\ Rooted(g, sdir)
  BY <1>2, <1>3, <1>9, NoFile, NamesAssumption DEF Placed, Rooted
<1>12. \A m \in Of(t) : m \in Names /\ g.ssd[m] \in Ids
  BY <1>2, <1>3, <1>9, <1>10
<1>13. \A m \in known \cup {n} : m \in Names /\ g.ssd[m] # None /\ (g.ssd[m] \in Ids => m \in Of(t))
  BY <1>1, <1>2, <1>3, <1>9, <1>10, NoFile
<1>14. "evictOpen" \notin Careless => NoneLeft(g)
  BY <1>5, <1>7, <1>9 DEF TakesNoOpen, NoneLeft
<1>15. Agrees(g, queue', known')
  BY <1>5, <1>9, <1>10, <1>11, <1>12, <1>13, <1>14 DEF Agrees
<1> QED BY <1>1, <1>5, <1>8, <1>11, <1>15, HyTidies

\* release
LEMMA HyRelease ==
    ASSUME HyInv, NEW h \in Handles, release(h)
    PROVE  HyInv'
<1> DEFINE g == [fs EXCEPT !.handle[h] = None, !.own[h] = None, !.wronly = @ \ {h}]
<1>1. fs' = Tidy(g) /\ UNCHANGED <<queue, known, sdir, hdir, mounted, limited, lru>>
  BY DEF release, Call
<1>2. Agrees(fs, queue, known) /\ Rooted(fs, sdir) /\ fs \in Disks /\ mounted \in BOOLEAN
  BY DEF HyInv, Agrees
<1>3. /\ g \in Disks /\ g.ssd = fs.ssd /\ g.hdd = fs.hdd
      /\ \A k \in Handles : g.own[k] \in {None, fs.own[k]}
  BY <1>2 DEF Disks
<1> HIDE DEF g
<1>4. "evictOpen" \notin Careless => NoneLeft(g)
  BY <1>2, <1>3 DEF NoneLeft, Agrees
<1>5. Agrees(g, queue, known) /\ Rooted(g, sdir)
  BY <1>2, <1>3, <1>4, SameAgrees
<1> QED BY <1>1, <1>2, <1>5, HyTidies

\* unlink
LEMMA HyUnlink ==
    ASSUME HyInv, NEW n \in Names, unlink(n)
    PROVE  HyInv'
<1> DEFINE g == [fs EXCEPT !.ssd[n] = None, !.hdd[n] = IF is_symlink_ssd(fs, n) THEN None ELSE @]
           t == Without(queue, n)
<1>0. /\ fs' = Tidy(g) /\ queue' = t /\ known' = known \ {n}
      /\ UNCHANGED <<sdir, hdir, mounted, limited, lru>>
  BY DEF unlink, Call
<1>1. /\ fs \in Disks /\ Placed(fs) /\ Rooted(fs, sdir)
      /\ queue \in Seq(Entry) /\ Once(queue) /\ \A k \in Of(queue) : k \in Names /\ fs.ssd[k] \in Ids
      /\ known \in SUBSET Names
      /\ \A k \in known : fs.ssd[k] # None /\ (fs.ssd[k] \in Ids => k \in Of(queue))
      /\ ("evictOpen" \notin Careless => NoneLeft(fs)) /\ mounted \in BOOLEAN
  BY DEF HyInv, Agrees
<1>2. t \in Seq(Entry) /\ Once(t) /\ Of(t) = Of(queue) \ {n}
  BY <1>1, WithoutIs
<1> HIDE DEF t
<1>3. is_symlink_ssd(fs, n) <=> fs.ssd[n] = Away
  BY <1>1, FileIs
<1>4. /\ g \in Disks /\ g.own = fs.own /\ g.ssd[n] = None
      /\ g.hdd[n] = IF fs.ssd[n] = Away THEN None ELSE fs.hdd[n]
      /\ \A m \in Names : m # n => g.ssd[m] = fs.ssd[m] /\ g.hdd[m] = fs.hdd[m]
  BY <1>1, <1>3 DEF Disks
<1> HIDE DEF g
<1>5. Placed(g) /\ Rooted(g, sdir) /\ ("evictOpen" \notin Careless => NoneLeft(g))
  BY <1>1, <1>4, NoFile, NamesAssumption DEF Placed, Rooted, NoneLeft
<1>6. /\ \A k \in Of(t) : k \in Names /\ g.ssd[k] \in Ids
      /\ \A k \in known \ {n} : k \in Names /\ g.ssd[k] # None /\ (g.ssd[k] \in Ids => k \in Of(t))
  BY <1>1, <1>2, <1>4
<1>7. Agrees(g, queue', known')
  BY <1>0, <1>2, <1>4, <1>5, <1>6 DEF Agrees
<1> QED BY <1>0, <1>1, <1>5, <1>7, HyTidies

\* The end of the process, and the next mount.
LEMMA HyRemount ==
    ASSUME HyInv, Remount
    PROVE  HyInv'
<1> DEFINE g == [fs EXCEPT !.handle = [h \in Handles |-> None], !.own = [h \in Handles |-> None],
                      !.wronly = {}]
<1>1. /\ fs' = Tidy(g) /\ queue' = <<>> /\ known' = {} /\ mounted' = TRUE
      /\ UNCHANGED <<sdir, hdir, limited, lru>>
  BY DEF Remount
<1>2. fs \in Disks /\ Placed(fs) /\ Rooted(fs, sdir)
  BY DEF HyInv, Agrees
<1>3. /\ g \in Disks /\ g.ssd = fs.ssd /\ g.hdd = fs.hdd /\ NoneLeft(g)
  BY <1>2 DEF Disks, NoneLeft
<1> HIDE DEF g
<1>4. <<>> \in Seq(Entry) /\ Of(<<>>) = {} /\ Once(<<>>)
  BY DEF Of, Once
<1>5. Agrees(g, queue', known') /\ Rooted(g, sdir)
  BY <1>1, <1>2, <1>3, <1>4 DEF Agrees, Placed, Rooted
<1> QED BY <1>1, <1>5, HyTidies

\* The directory is made, removed or renamed.
LEMMA HyDirs ==
    ASSUME HyInv, "rmdirFilled" \notin Careless, mkdir \/ rmdir \/ renameDir
    PROVE  HyInv'
<1>1. UNCHANGED <<fs, queue, known, limited, lru>> /\ mounted' \in BOOLEAN
  BY DEF mkdir, rmdir, renameDir, HyInv
<1>2. Agrees(fs, queue, known)' /\ Idle(fs)'
  BY <1>1 DEF HyInv, Agrees
<1>3. sdir' \in BOOLEAN /\ hdir' = sdir' /\ Rooted(fs, sdir)'
  <2>1. CASE mkdir
    BY <2>1 DEF mkdir, Rooted
  <2>2. CASE renameDir
    BY <2>2 DEF renameDir, HyInv, Rooted
  <2>3. CASE rmdir
    <3>0. Placed(fs) /\ \A n \in InDir : n \in Names /\ fs.ssd[n] = None
      BY <2>3, NamesAssumption DEF rmdir, HyInv, Agrees
    <3>1. ASSUME NEW n \in InDir PROVE fs.ssd[n] = None /\ fs.hdd[n] = None
      <4>1. n \in Names /\ fs.ssd[n] = None /\ fs.ssd[n] # Away
        BY <3>0, NoFile
      <4> QED BY <3>0, <4>1 DEF Placed
    <3>2. sdir' = FALSE /\ hdir' = FALSE
      BY <2>3, <3>1 DEF rmdir
    <3> QED BY <1>1, <3>1, <3>2 DEF Rooted
  <2> QED BY <2>1, <2>2, <2>3
<1> QED BY <1>1, <1>2, <1>3 DEF HyInv

\* rename
LEMMA HyRename ==
    ASSUME HyInv, "renameOver" \notin Careless, NEW n \in Names, NEW m \in Names, rename(n, m)
    PROVE  HyInv'
<1>0. /\ mounted = TRUE /\ fs.ssd[n] # None /\ n # m /\ (m \in InDir => sdir) /\ fs.ssd[m] = None
      /\ UNCHANGED <<sdir, hdir, limited, lru>>
  BY DEF rename, HyInv
<1>1. /\ fs \in Disks /\ Placed(fs) /\ Rooted(fs, sdir)
      /\ queue \in Seq(Entry) /\ Once(queue) /\ \A k \in Of(queue) : k \in Names /\ fs.ssd[k] \in Ids
      /\ known \in SUBSET Names
      /\ \A k \in known : fs.ssd[k] # None /\ (fs.ssd[k] \in Ids => k \in Of(queue))
      /\ ("evictOpen" \notin Careless => NoneLeft(fs))
  BY DEF HyInv, Agrees
<1>2. is_symlink_ssd(fs, n) <=> fs.ssd[n] = Away
  BY <1>1, FileIs
<1> DEFINE K == (known \ {n}) \cup (IF n \in known THEN {m} ELSE {})
<1>3. n \notin K /\ \A k \in K : k \in Names /\ (k = m => n \in known) /\ (k # m => k \in known)
  BY <1>0, <1>1
<1>4. m \notin Of(queue) /\ m \notin known
  BY <1>0, <1>1, NoFile
<1>5. CASE fs.ssd[n] = Away
  <2> DEFINE i == fs.hdd[n]
             g == [fs EXCEPT !.ssd = [@ EXCEPT ![m] = Away, ![n] = None],
                             !.hdd = [@ EXCEPT ![m] = i, ![n] = None],
                             !.target[m] = fs.target[n]]
  <2>1. fs' = Tidy(g) /\ UNCHANGED <<queue, mounted>>
    BY <1>2, <1>5 DEF rename
  <2>2. known' = K
    BY <1>0, <2>1 DEF rename
  <2>3. i \in Ids
    BY <1>1, <1>5 DEF Placed, Disks
  <2> HIDE DEF i, K
  <2> DEFINE a == [fs.ssd EXCEPT ![m] = Away, ![n] = None]
             b == [fs.hdd EXCEPT ![m] = i, ![n] = None]
             t == [fs.target EXCEPT ![m] = fs.target[n]]
  <2>4. /\ a \in [Names -> Ids \cup {None, Away}] /\ a[m] = Away /\ a[n] = None
        /\ \A k \in Names \ {n, m} : a[k] = fs.ssd[k]
    BY <1>0, <1>1 DEF Disks
  <2>5. /\ b \in [Names -> Ids \cup {None}] /\ b[m] = i /\ b[n] = None
        /\ \A k \in Names \ {n, m} : b[k] = fs.hdd[k]
    BY <1>0, <1>1, <2>3 DEF Disks
  <2>6. t \in [Names -> Names]
    BY <1>1 DEF Disks
  <2>7. g = [fs EXCEPT !.ssd = a, !.hdd = b, !.target = t]
    BY <1>1 DEF Disks
  <2> HIDE DEF a, b, t, g
  <2>8. g \in Disks /\ g.ssd = a /\ g.hdd = b /\ g.own = fs.own
    BY <1>1, <2>4, <2>5, <2>6, <2>7 DEF Disks
  <2>9. Placed(g) /\ Rooted(g, sdir) /\ ("evictOpen" \notin Careless => NoneLeft(g))
    <3>1. ASSUME NEW k \in Names PROVE g.hdd[k] # None <=> g.ssd[k] = Away
      <4>1. CASE k = n
        BY <2>4, <2>5, <2>8, <4>1, NoFile
      <4>2. CASE k = m
        BY <2>3, <2>4, <2>5, <2>8, <4>2, NoFile
      <4>3. CASE k \notin {n, m}
        BY <1>1, <2>4, <2>5, <2>8, <4>3 DEF Placed
      <4> QED BY <4>1, <4>2, <4>3
    <3>2. Rooted(g, sdir)
      BY <1>0, <1>1, <2>4, <2>8, NamesAssumption DEF Rooted
    <3> QED BY <1>1, <2>8, <3>1, <3>2 DEF NoneLeft, Placed
  <2>10. \A k \in Of(queue) : g.ssd[k] \in Ids
    BY <1>1, <1>4, <1>5, <2>4, <2>8, NoFile
  <2>11. \A k \in K : g.ssd[k] # None /\ (g.ssd[k] \in Ids => k \in Of(queue))
    BY <1>1, <1>3, <2>4, <2>8, NoFile
  <2>12. K \in SUBSET Names
    BY <1>3
  <2>13. Agrees(g, queue', known')
    BY <1>1, <2>1, <2>2, <2>8, <2>9, <2>10, <2>11, <2>12 DEF Agrees
  <2> QED BY <1>0, <2>1, <2>9, <2>13, HyTidies
<1>5a. At(queue, n) # 0 =>
          /\ n \in Of(queue) /\ Renamed(queue, n, m) \in Seq(Entry) /\ Once(Renamed(queue, n, m))
          /\ Of(Renamed(queue, n, m)) = (Of(queue) \ {n}) \cup {m}
  <2>1. At(queue, n) # 0 => n \in Of(queue)
    BY <1>1, AtIs
  <2> QED BY <1>1, <1>4, <2>1, RenamedIs
<1>6. CASE fs.ssd[n] # Away /\ At(queue, n) # 0
  <2> DEFINE i == fs.ssd[n]
             g == [fs EXCEPT !.ssd = [@ EXCEPT ![m] = i, ![n] = None],
                             !.target[m] = fs.target[n]]
             s == Renamed(queue, n, m)
  <2>1. fs' = Tidy(g) /\ queue' = s /\ UNCHANGED mounted
    BY <1>2, <1>6 DEF rename
  <2> HIDE DEF g
  <2>2. known' = K
    BY <1>0, <2>1 DEF rename
  <2>2a. n \in Of(queue)
    BY <1>5a, <1>6
  <2>3. i \in Ids
    BY <1>1, <2>2a
  <2>3a. s \in Seq(Entry) /\ Once(s) /\ Of(s) = (Of(queue) \ {n}) \cup {m}
    BY <1>5a, <1>6
  <2> HIDE DEF i, K, s
  <2> DEFINE a == [fs.ssd EXCEPT ![m] = i, ![n] = None]
             t == [fs.target EXCEPT ![m] = fs.target[n]]
  <2>4. /\ a \in [Names -> Ids \cup {None, Away}] /\ a[m] = i /\ a[n] = None
        /\ \A k \in Names \ {n, m} : a[k] = fs.ssd[k]
    BY <1>0, <1>1, <2>3 DEF Disks
  <2>6. t \in [Names -> Names]
    BY <1>1 DEF Disks
  <2>7. g = [fs EXCEPT !.ssd = a, !.target = t]
    BY <1>1 DEF Disks, g
  <2> HIDE DEF a, t
  <2>8. g \in Disks /\ g.ssd = a /\ g.hdd = fs.hdd /\ g.own = fs.own
    BY <1>1, <2>4, <2>6, <2>7 DEF Disks
  <2>9. Placed(g) /\ Rooted(g, sdir) /\ ("evictOpen" \notin Careless => NoneLeft(g))
    <3>1. Placed(g)
      BY <1>0, <1>1, <1>6, <2>3, <2>4, <2>8, NoFile DEF Placed
    <3>2. Rooted(g, sdir)
      BY <1>0, <1>1, <2>4, <2>8, NamesAssumption DEF Rooted
    <3> QED BY <1>1, <2>8, <3>1, <3>2 DEF NoneLeft
  <2>10. \A k \in Of(s) : k \in Names /\ g.ssd[k] \in Ids
    BY <1>1, <1>4, <2>3, <2>3a, <2>4, <2>8
  <2>11. \A k \in K : g.ssd[k] # None /\ (g.ssd[k] \in Ids => k \in Of(s))
    BY <1>1, <1>3, <2>3, <2>3a, <2>4, <2>8, NoFile
  <2>12. K \in SUBSET Names
    BY <1>3
  <2>13. Agrees(g, queue', known')
    BY <2>1, <2>2, <2>3a, <2>8, <2>9, <2>10, <2>11, <2>12 DEF Agrees
  <2> QED BY <1>0, <2>1, <2>9, <2>13, HyTidies
<1>7. CASE fs.ssd[n] # Away /\ At(queue, n) = 0
  <2>1. mounted' = FALSE /\ UNCHANGED <<fs, queue>>
    BY <1>2, <1>7 DEF rename
  <2>2. known' = known
    BY <2>1 DEF rename
  <2>3. Agrees(fs, queue, known)'
    BY <2>1, <2>2 DEF HyInv
  <2>4. Idle(fs)' /\ Rooted(fs, sdir)'
    BY <1>0, <2>1 DEF HyInv
  <2> QED BY <1>0, <2>1, <2>3, <2>4 DEF HyInv
<1> QED BY <1>5, <1>6, <1>7

\* Nothing changes but what a call returns.
LEMMA HySame ==
    ASSUME HyInv, UNCHANGED <<fs, queue, known, sdir, hdir, mounted, limited, lru>>
    PROVE  HyInv'
<1>1. Agrees(fs, queue, known)' /\ Idle(fs)' /\ Rooted(fs, sdir)'
  BY DEF HyInv
<1> QED BY <1>1 DEF HyInv

\* No handler breaks it.
LEMMA HyNextInv ==
    ASSUME HyInv, "renameOver" \notin Careless, "rmdirFilled" \notin Careless, [Next]_vars
    PROVE  HyInv'
<1>1. CASE Remount
  BY <1>1, HyRemount
<1>2. CASE mkdir \/ rmdir \/ renameDir
  BY <1>2, HyDirs
<1>3. ASSUME NEW h \in Handles, write(h) \/ read(h) \/ ftruncate(h) \/ release(h) PROVE HyInv'
  <2>1. read(h) => UNCHANGED <<fs, queue, known, sdir, hdir, mounted, limited, lru>>
    BY DEF read
  <2> QED BY <1>3, <2>1, HyWrite, HySame, HyFtruncate, HyRelease
<1>4. ASSUME NEW n \in Names, NEW h \in Handles, create(n, h) \/ open(n, h) PROVE HyInv'
  BY <1>4, HyCreate, HyOpenHere, HyOpenThere
<1>5. ASSUME NEW n \in Names,
             mknod(n) \/ getattr(n) \/ truncate(n) \/ chmod(n) \/ setxattr(n) \/ unlink(n)
      PROVE  HyInv'
  <2>1. getattr(n) => UNCHANGED <<fs, queue, known, sdir, hdir, mounted, limited, lru>>
    BY DEF getattr
  <2> QED BY <1>5, <2>1, HyMknod, HySame, HyTruncate, HyModes, HyUnlink
<1>6. ASSUME NEW n \in Names, NEW m \in Names, link(n, m) \/ rename(n, m) PROVE HyInv'
  BY <1>6, HyLink, HyRename
<1>7. CASE UNCHANGED vars
  BY <1>7, HySame DEF vars
<1> QED BY <1>1, <1>2, <1>3, <1>4, <1>5, <1>6, <1>7 DEF Next

\* What it is for.
LEMMA HyInvIs ==
    ASSUME HyInv
    PROVE  OnePlace /\ Evictable /\ TreesInStep
<1>1. /\ fs \in Disks /\ Placed(fs) /\ queue \in Seq(Entry) /\ sdir = hdir
      /\ \A n \in Of(queue) : fs.ssd[n] \in Ids
      /\ \A n \in known : n \in Names /\ (fs.ssd[n] \in Ids => n \in Of(queue))
  BY DEF HyInv, Agrees
<1>2. OnePlace
  <2>1. \A n \in Names : fs.hdd[n] # None <=> fs.ssd[n] = Away
    BY <1>1 DEF Placed
  <2>2. \A n \in Names : FileOf(fs, n) # None <=> fs.ssd[n] # None
    BY <1>1, FileIs
  <2> QED BY <2>1, <2>2 DEF OnePlace, readdir
<1>3. Evictable
  <2>1. \A i \in DOMAIN queue : queue[i].fname \in Of(queue)
    BY <1>1, LenProperties DEF Of
  <2>2. \A n \in known : n \in Of(queue) => At(queue, n) # 0
    BY <1>1, AtIs
  <2> QED BY <1>1, <2>1, <2>2 DEF Evictable
<1> QED BY <1>1, <1>2, <1>3 DEF TreesInStep
-----------------------------------------------------------------------------
(* The limit of the ssd. *)

\* The files on it that are not empty.
Big(f) == {n \in Names : f.ssd[n] \in Ids /\ f.content[f.ssd[n]] > 0}

\* More of them take more room.
LEMMA BigIs ==
    ASSUME NEW f, NEW g, NEW n
    PROVE  /\ get_used_ssd(f) \in Nat /\ get_used_ssd(g) \in Nat
           /\ Big(g) \subseteq Big(f) => get_used_ssd(g) <= get_used_ssd(f)
           /\ Big(g) \subseteq Big(f) \cup {n} => get_used_ssd(g) <= get_used_ssd(f) + 1
<1> DEFINE a == Big(f)
           b == Big(g)
<1>1. get_used_ssd(f) = Cardinality(a) /\ get_used_ssd(g) = Cardinality(b)
  BY DEF get_used_ssd, Big
<1>2. IsFiniteSet(a) /\ IsFiniteSet(b)
  BY NamesAssumption, FS_Subset DEF Big
<1> HIDE DEF a, b
<1>3. Cardinality(a) \in Nat /\ Cardinality(b) \in Nat
  BY <1>2, FS_CardinalityType
<1>4. b \subseteq a => Cardinality(b) <= Cardinality(a)
  BY <1>2, FS_Subset
<1>5. b \subseteq a \cup {n} => Cardinality(b) <= Cardinality(a) + 1
  <2> DEFINE d == a \cup {n}
  <2>1. IsFiniteSet(d) /\ Cardinality(d) \in Nat /\ Cardinality(d) <= Cardinality(a) + 1
    <3>1. IsFiniteSet(d) /\ (Cardinality(d) = Cardinality(a) \/ Cardinality(d) = Cardinality(a) + 1)
      BY <1>2, FS_AddElement
    <3> HIDE DEF d
    <3> QED BY <1>3, <3>1
  <2>2. b \subseteq d => Cardinality(b) <= Cardinality(d)
    BY <2>1, FS_Subset
  <2> HIDE DEF d
  <2>3. b \subseteq d => Cardinality(b) <= Cardinality(a) + 1
    BY <1>3, <2>1, <2>2
  <2> QED BY <2>3 DEF d
<1> QED BY <1>1, <1>3, <1>4, <1>5 DEF a, b

\* The first entry of a queue.
LEMMA FirstIs ==
    ASSUME NEW n
    PROVE  Len(Inserted(<<>>, n)) = 1
<1>1. Len(<<>>) = 0 /\ \A x : Len(Append(<<>>, x)) = 1
  OBVIOUS
<1>2. At(<<>>, n) = 0
  <2>1. {i \in 1 .. Len(<<>>) : <<>>[i].fname = n} = {}
    BY <1>1
  <2> QED BY <2>1 DEF At, SelectInSeq
<1>3. Without(<<>>, n) = <<>>
  BY <1>2 DEF Without
<1>4. Len(Used(<<>>, n)) = 1
  BY <1>1, <1>3 DEF Used
<1>5. Len(Counted(<<>>, n)) = 1
  <2> DEFINE x == [fname |-> n, freq |-> IF At(<<>>, n) = 0 THEN 1 ELSE <<>>[At(<<>>, n)].freq + 1]
             I == {i \in 1 .. Len(<<>>) : <<>>[i].freq > x.freq}
             i == IF I # {} THEN Min(I) ELSE 0
  <2>1. Counted(<<>>, n) = IF i = 0 THEN Append(<<>>, x) ELSE InsertAt(<<>>, i, x)
    BY <1>3 DEF Counted, SelectInSeq
  <2>2. I = {}
    BY <1>1
  <2> HIDE DEF x, I
  <2>3. i = 0
    BY <2>2
  <2> QED BY <1>1, <2>1, <2>3
<1> QED BY <1>4, <1>5 DEF Inserted

\* What moving files out leaves alone.
LEMMA RoomKeeps ==
    ASSUME HyInv
    PROVE  /\ MadeRoom(fs).content = fs.content /\ MadeRoom(fs).mode = fs.mode
           /\ MadeRoom(fs).handle = fs.handle
           /\ \A n \in Names : FileOf(MadeRoom(fs), n) = FileOf(fs, n)
<1> DEFINE f == MadeRoom(fs)
<1>1. PICK M \in SUBSET Of(queue) : f = Moved(fs, M)
  BY RoomAgrees
<1>2. f \in Disks /\ Placed(f) /\ fs \in Disks /\ Placed(fs) /\ \A n \in M : fs.ssd[n] \in Ids
  BY RoomAgrees DEF HyInv, Agrees
<1> HIDE DEF f
<1>3. f.content = fs.content /\ f.mode = fs.mode /\ f.handle = fs.handle
  BY <1>1 DEF Moved
<1>4. \A n \in Names : /\ f.ssd[n] = IF n \in M THEN Away ELSE fs.ssd[n]
                       /\ f.hdd[n] = IF n \in M THEN fs.ssd[n] ELSE fs.hdd[n]
  BY <1>1 DEF Moved
<1>5. ASSUME NEW n \in Names PROVE FileOf(f, n) = FileOf(fs, n)
  <2>1. /\ FileOf(f, n) = IF f.ssd[n] = Away THEN f.hdd[n] ELSE f.ssd[n]
        /\ FileOf(fs, n) = IF fs.ssd[n] = Away THEN fs.hdd[n] ELSE fs.ssd[n]
    BY <1>2, FileIs
  <2> QED BY <1>2, <1>4, <2>1, NoFile
<1> QED BY <1>3, <1>5 DEF f

\* create keeps to the limit.
LEMMA CreateFits ==
    ASSUME HyInv, limited, NEW n \in Names, NEW h \in Handles, create(n, h)
    PROVE  get_used_ssd(fs') <= Total \/ Len(queue') = 1
<1> DEFINE f == MadeRoom(fs)
           i == Min(Ids \ Reachable(fs))
           g == [f EXCEPT !.ssd[n] = i, !.handle[h] = i, !.wronly = @ \cup {h}]
<1>0. MayMake /\ fs' = Tidy(g) /\ queue' = Inserted(Kept(fs), n)
  BY DEF create
<1>1. i \in Ids /\ i \notin Reachable(fs)
  BY <1>0, FreshIs
<1>2. fs \in Disks /\ f \in Disks /\ f.content = fs.content /\ fs.content[i] = 0
  BY <1>1, RoomAgrees, RoomKeeps DEF HyInv, Agrees, Idle
<1>3. Kept(fs) = <<>> \/ ~ssd_is_full(f)
  BY RoomAgrees
<1> HIDE DEF f, i
<1>4. /\ g \in Disks /\ g.content = f.content /\ g.ssd[n] = i
      /\ \A m \in Names : m # n => g.ssd[m] = f.ssd[m]
  BY <1>1, <1>2 DEF Disks
<1> HIDE DEF g
<1>5. /\ fs'.ssd = g.ssd
      /\ fs'.content = [k \in Ids |-> IF k \in Reachable(g) THEN g.content[k] ELSE 0]
  BY <1>0, <1>4, TidyIs
<1>6. Big(fs') \subseteq Big(f)
  <2> SUFFICES ASSUME NEW m \in Names, fs'.ssd[m] \in Ids, fs'.content[fs'.ssd[m]] > 0
               PROVE  m \in Big(f)
    BY DEF Big
  <2>1. g.ssd[m] \in Ids /\ g.content[g.ssd[m]] > 0
    <3>1. fs'.content[g.ssd[m]] \in {g.content[g.ssd[m]], 0}
      BY <1>5
    <3> QED BY <1>5, <3>1
  <2>2. m # n
    BY <1>2, <1>4, <2>1
  <2> QED BY <1>4, <2>1, <2>2 DEF Big
<1>7. CASE Kept(fs) = <<>>
  BY <1>0, <1>7, FirstIs
<1>8. CASE ~ssd_is_full(f)
  <2> DEFINE a == get_used_ssd(f)
             b == get_used_ssd(fs')
  <2>1. a \in Nat /\ b \in Nat /\ b <= a
    BY <1>6, BigIs
  <2>2. ~(a > Total)
    BY <1>8 DEF ssd_is_full
  <2> HIDE DEF a, b
  <2>3. b <= Total
    BY <2>1, <2>2, SizeAssumption
  <2> QED BY <2>3 DEF b
<1> QED BY <1>3, <1>7, <1>8

\* open of a file on the hdd keeps to it but for that file.
LEMMA OpenFits ==
    ASSUME HyInv, limited, NEW n \in Names, NEW h \in Handles, is_symlink_ssd(fs, n), open(n, h)
    PROVE  get_used_ssd(fs') <= Total + 1 \/ Len(queue') = 1
<1> DEFINE f == MadeRoom(fs)
           e == move_file_hdd(f, n)
           g == [e EXCEPT !.handle[h] = e.ssd[n]]
           z == IF e.ssd[n] \in Ids THEN g ELSE e
<1>0. fs' = Tidy(z) /\ queue' = Inserted(Kept(fs), n)
  BY DEF open
<1>1. /\ fs \in Disks /\ Placed(fs) /\ fs.ssd[n] = Away /\ fs.hdd[n] \in Ids
      /\ n \notin Of(queue)
  BY NoFile DEF HyInv, Agrees, is_symlink_ssd
<1>2. f \in Disks /\ f.content = fs.content /\ f.hdd[n] \in Ids
  BY <1>1, RoomAgrees, RoomKeeps
<1>3. Kept(fs) = <<>> \/ ~ssd_is_full(f)
  BY RoomAgrees
<1>4. e = [f EXCEPT !.ssd[n] = f.hdd[n], !.hdd[n] = None]
  BY DEF move_file_hdd
<1> HIDE DEF f, e
<1>5. /\ e \in Disks /\ e.content = f.content /\ \A m \in Names : m # n => e.ssd[m] = f.ssd[m]
      /\ e.ssd[n] \in Ids
  BY <1>2, <1>4 DEF Disks
<1>6. z \in Disks /\ z.content = f.content /\ z.ssd = e.ssd
  BY <1>5 DEF Disks
<1> HIDE DEF g, z
<1>7. /\ fs'.ssd = z.ssd
      /\ fs'.content = [k \in Ids |-> IF k \in Reachable(z) THEN z.content[k] ELSE 0]
  BY <1>0, <1>6, TidyIs
<1>8. Big(fs') \subseteq Big(f) \cup {n}
  <2> SUFFICES ASSUME NEW m \in Names, fs'.ssd[m] \in Ids, fs'.content[fs'.ssd[m]] > 0, m # n
               PROVE  m \in Big(f)
    BY DEF Big
  <2>1. z.ssd[m] \in Ids /\ z.content[z.ssd[m]] > 0
    <3>1. fs'.content[z.ssd[m]] \in {z.content[z.ssd[m]], 0}
      BY <1>7
    <3> QED BY <1>7, <3>1
  <2> QED BY <1>5, <1>6, <2>1 DEF Big
<1>9. CASE Kept(fs) = <<>>
  BY <1>0, <1>9, FirstIs
<1>10. CASE ~ssd_is_full(f)
  <2> DEFINE a == get_used_ssd(f)
             b == get_used_ssd(fs')
  <2>1. a \in Nat /\ b \in Nat /\ b <= a + 1
    BY <1>8, BigIs
  <2>2. ~(a > Total)
    BY <1>10 DEF ssd_is_full
  <2> HIDE DEF a, b
  <2>3. b <= Total + 1
    BY <2>1, <2>2, SizeAssumption
  <2> QED BY <2>3 DEF b
<1> QED BY <1>3, <1>9, <1>10

\* Every step keeps the limit.
LEMMA HyFits ==
    ASSUME HyInv
    PROVE  KeepsLimit
BY CreateFits, OpenFits DEF KeepsLimit
-----------------------------------------------------------------------------
(* What users see is a file system of one disk. *)

\* Nobody does what goes wrong with open files, renamed files or directories.
Careful == {"evictOpen", "renameOver", "rmdirFilled", "chmodMoved", "readCreated"} \cap Careless = {}

Tree(f) == [n \in Names |-> FileOf(f, n)]

\* The next state is that of a step of PlainFiles if it has the names, the handles and
\* the files that can be reached.
LEMMA StepIs ==
    ASSUME HyInv', NEW c, NEW m, NEW t, NEW o, t = Tree(fs'), o = fs'.handle,
           \A i \in Ids \cap Reachable(fs') : c[i] = fs'.content[i] /\ m[i] = fs'.mode[i]
    PROVE  P!Step(t, c, m, o)
<1> DEFINE f == fs'
           r == P!Settled(t, o)
<1>1. Agrees(fs, queue, known)' /\ Idle(fs)'
  BY DEF HyInv
<1>1a. f \in Disks /\ Placed(f) /\ Idle(f)
  BY <1>1 DEF Agrees
<1>2. f.content \in [Ids -> Nat] /\ f.mode \in [Ids -> {0, 1}] /\ f.handle \in [Handles -> Ids \cup {None}]
  BY <1>1a DEF Disks
<1>3. ASSUME NEW i \in Ids
      PROVE  ((\E n \in Names : t[n] = i) \/ (\E h \in Handles : o[h] = i)) <=> i \in Reachable(f)
  <2>1. \A n \in Names : t[n] = IF f.ssd[n] = Away THEN f.hdd[n] ELSE f.ssd[n]
    BY <1>1a, FileIs DEF Tree
  <2>2. ASSUME NEW n \in Names, t[n] = i PROVE i \in Reachable(f)
    BY <2>1, <2>2 DEF Reachable
  <2>3. ASSUME NEW h \in Handles, o[h] = i PROVE i \in Reachable(f)
    BY <2>3 DEF Reachable
  <2>4. ASSUME NEW n \in Names, f.ssd[n] = i PROVE t[n] = i
    BY <2>1, <2>4, NoFile
  <2>5. ASSUME NEW n \in Names, f.hdd[n] = i PROVE t[n] = i
    BY <1>1a, <2>1, <2>5, NoFile DEF Placed
  <2> QED BY <2>2, <2>3, <2>4, <2>5 DEF Reachable
<1>4. r = [i \in Ids |-> i \in Reachable(f)]
  BY <1>3 DEF P!Settled
<1> HIDE DEF r
<1>5. [i \in Ids |-> IF r[i] THEN c[i] ELSE 0] = f.content
  <2> DEFINE a == [i \in Ids |-> IF r[i] THEN c[i] ELSE 0]
  <2>1. ASSUME NEW i \in Ids PROVE a[i] = f.content[i]
    <3>1. CASE i \in Reachable(f)
      BY <1>4, <3>1
    <3>2. CASE i \notin Reachable(f)
      BY <1>1a, <1>4, <3>2 DEF Idle
    <3> QED BY <3>1, <3>2
  <2> QED BY <1>2, <2>1
<1>6. [i \in Ids |-> IF r[i] THEN m[i] ELSE 0] = f.mode
  <2> DEFINE a == [i \in Ids |-> IF r[i] THEN m[i] ELSE 0]
  <2>1. ASSUME NEW i \in Ids PROVE a[i] = f.mode[i]
    <3>1. CASE i \in Reachable(f)
      BY <1>4, <3>1
    <3>2. CASE i \notin Reachable(f)
      BY <1>1a, <1>4, <3>2 DEF Idle
    <3> QED BY <3>1, <3>2
  <2> QED BY <1>2, <2>1
<1>7. fs'.handle = o /\ [n \in Names |-> FileOf(fs, n)]' = t
  BY DEF Tree
<1> QED BY <1>5, <1>6, <1>7 DEF P!Step, r

\* Whatever Tidy does not empty is as it was.
LEMMA TidyKeeps ==
    ASSUME NEW g \in Disks, fs' = Tidy(g)
    PROVE  /\ fs'.handle = g.handle /\ fs'.ssd = g.ssd /\ fs'.hdd = g.hdd
           /\ \A i \in Ids \cap Reachable(fs') : g.content[i] = fs'.content[i] /\ g.mode[i] = fs'.mode[i]
<1> DEFINE f == Tidy(g)
<1>1. /\ f.ssd = g.ssd /\ f.hdd = g.hdd /\ f.handle = g.handle
      /\ f.content = [i \in Ids |-> IF i \in Reachable(g) THEN g.content[i] ELSE 0]
      /\ f.mode = [i \in Ids |-> IF i \in Reachable(g) THEN g.mode[i] ELSE 0]
  BY TidyIs
<1> HIDE DEF f
<1>2. Reachable(f) = Reachable(g)
  BY <1>1 DEF Reachable
<1>3. \A i \in Ids \cap Reachable(f) : g.content[i] = f.content[i] /\ g.mode[i] = f.mode[i]
  BY <1>1, <1>2
<1>4. fs' = f
  BY DEF f
<1> QED BY <1>1, <1>3, <1>4

\* Where the file of a name is, after a step.
LEMMA TreeIs ==
    ASSUME HyInv
    PROVE  /\ fs \in Disks /\ Placed(fs) /\ Tree(fs) \in [Names -> Ids \cup {None}]
           /\ \A n \in Names : /\ Tree(fs)[n] = IF fs.ssd[n] = Away THEN fs.hdd[n] ELSE fs.ssd[n]
                               /\ Tree(fs)[n] # None <=> fs.ssd[n] # None
<1>1. fs \in Disks /\ Placed(fs)
  BY DEF HyInv, Agrees
<1> QED BY <1>1, FileIs DEF Tree

\* After the step too.
LEMMA NextTreeIs ==
    ASSUME HyInv'
    PROVE  /\ fs' \in Disks /\ Placed(fs') /\ Tree(fs') \in [Names -> Ids \cup {None}]
           /\ \A n \in Names : /\ Tree(fs')[n] = IF fs'.ssd[n] = Away THEN fs'.hdd[n] ELSE fs'.ssd[n]
                               /\ Tree(fs')[n] # None <=> fs'.ssd[n] # None
<1>1. Agrees(fs, queue, known)'
  BY DEF HyInv
<1>2. fs' \in Disks /\ Placed(fs')
  BY <1>1 DEF Agrees
<1> QED BY <1>2, FileIs DEF Tree

\* write
LEMMA PlainWrite ==
    ASSUME HyInv, HyInv', Careful, NEW h \in Handles, write(h)
    PROVE  P!Write(h)
<1> DEFINE i == fs.handle[h]
           c == [fs.content EXCEPT ![i] = @ + 1]
<1>0. fs \in Disks /\ NoneLeft(fs)
  BY DEF HyInv, Agrees, Careful
<1>1. i # None /\ fs' = [fs EXCEPT !.content[i] = @ + 1] /\ seen' = 0
  BY <1>0 DEF write, NoneLeft, Call
<1>2. fs' = [fs EXCEPT !.content = c]
  BY <1>0, <1>1 DEF Disks
<1> HIDE DEF c, i
<1>3. fs'.ssd = fs.ssd /\ fs'.hdd = fs.hdd /\ fs'.handle = fs.handle /\ fs'.content = c /\ fs'.mode = fs.mode
  BY <1>0, <1>2 DEF Disks
<1>4. Tree(fs') = Tree(fs)
  BY <1>3 DEF Tree, FileOf, is_symlink_ssd
<1>5. P!Step(Tree(fs), c, fs.mode, fs.handle)
  BY <1>3, <1>4, StepIs
<1> QED BY <1>1, <1>5 DEF P!Write, Tree, c, i

\* read
LEMMA PlainRead ==
    ASSUME HyInv, Careful, NEW h \in Handles, read(h)
    PROVE  P!Read(h)
<1>1. fs.own[h] = None
  BY DEF HyInv, Agrees, Careful, NoneLeft
<1> QED BY <1>1 DEF read, P!Read, Careful

\* ftruncate
LEMMA PlainEmpty ==
    ASSUME HyInv, HyInv', Careful, NEW h \in Handles, ftruncate(h)
    PROVE  P!Empty(h)
<1> DEFINE i == fs.handle[h]
           c == [fs.content EXCEPT ![i] = 0]
<1>0. fs \in Disks /\ NoneLeft(fs)
  BY DEF HyInv, Agrees, Careful
<1>1. i # None /\ fs' = [fs EXCEPT !.content[i] = 0] /\ seen' = 0
  BY <1>0 DEF ftruncate, NoneLeft, Call
<1>2. fs' = [fs EXCEPT !.content = c]
  BY <1>0, <1>1 DEF Disks
<1> HIDE DEF c, i
<1>3. fs'.ssd = fs.ssd /\ fs'.hdd = fs.hdd /\ fs'.handle = fs.handle /\ fs'.content = c /\ fs'.mode = fs.mode
  BY <1>0, <1>2 DEF Disks
<1>4. Tree(fs') = Tree(fs)
  BY <1>3 DEF Tree, FileOf, is_symlink_ssd
<1>5. P!Step(Tree(fs), c, fs.mode, fs.handle)
  BY <1>3, <1>4, StepIs
<1> QED BY <1>1, <1>5 DEF P!Empty, Tree, c, i

\* truncate
LEMMA PlainTruncate ==
    ASSUME HyInv, HyInv', NEW n \in Names, truncate(n)
    PROVE  P!Truncate(n)
<1> DEFINE i == FileOf(fs, n)
           c == [fs.content EXCEPT ![i] = 0]
<1>0. fs \in Disks
  BY DEF HyInv, Agrees
<1>1. i # None /\ fs' = [fs EXCEPT !.content[i] = 0] /\ seen' = 0
  BY DEF truncate, Call
<1>2. fs' = [fs EXCEPT !.content = c]
  BY <1>0, <1>1 DEF Disks
<1>2a. i = Tree(fs)[n]
  BY DEF Tree
<1> HIDE DEF c, i
<1>3. fs'.ssd = fs.ssd /\ fs'.hdd = fs.hdd /\ fs'.handle = fs.handle /\ fs'.content = c /\ fs'.mode = fs.mode
  BY <1>0, <1>2 DEF Disks
<1>4. Tree(fs') = Tree(fs)
  BY <1>3 DEF Tree, FileOf, is_symlink_ssd
<1>5. P!Step(Tree(fs), c, fs.mode, fs.handle)
  BY <1>3, <1>4, StepIs
<1>6. P!Step(Tree(fs), [fs.content EXCEPT ![Tree(fs)[n]] = 0], fs.mode, fs.handle) /\ Tree(fs)[n] # None
  BY <1>1, <1>2a, <1>5 DEF c
<1> QED BY <1>1, <1>6 DEF P!Truncate, Tree

\* chmod and setxattr
LEMMA PlainChmod ==
    ASSUME HyInv, HyInv', Careful, NEW n \in Names, chmod(n) \/ setxattr(n)
    PROVE  P!Chmod(n)
<1> DEFINE i == FileOf(fs, n)
           j == IF fs.ssd[n] = Away THEN fs.hdd[fs.target[n]] ELSE i
           w == 1 - fs.mode[i]
           m == [fs.mode EXCEPT ![i] = w]
<1>0. fs \in Disks /\ Placed(fs)
  BY DEF HyInv, Agrees
<1>1. i # None /\ seen' = 0
  BY DEF chmod, setxattr, Call
<1>1a. i \in Ids /\ i = Tree(fs)[n] /\ i = IF fs.ssd[n] = Away THEN fs.hdd[n] ELSE fs.ssd[n]
  BY <1>0, <1>1, FileIs DEF Tree
<1>2. ASSUME chmod(n) PROVE fs' = [fs EXCEPT !.mode = m]
  <2>1. fs.target[n] = n
    BY <1>2 DEF chmod, Careful
  <2>2. j = i
    BY <1>1a, <2>1
  <2>3. PICK v \in Modes \ {fs.mode[i]} :
           fs' = [fs EXCEPT !.mode = [k \in Ids |-> IF k \in {i, j} THEN v ELSE @[k]]]
    BY <1>2 DEF chmod
  <2> HIDE DEF i, j
  <2>4. fs.mode[i] \in {0, 1} /\ fs.mode \in [Ids -> {0, 1}]
    BY <1>0, <1>1a DEF Disks
  <2>5. v = w
    BY <2>4, ModesAssumption
  <2> HIDE DEF w
  <2>6. [k \in Ids |-> IF k \in {i, j} THEN v ELSE fs.mode[k]] = m
    BY <2>2, <2>4, <2>5
  <2>7. fs' = [fs EXCEPT !.mode = m]
    BY <2>3, <2>6
  <2> HIDE DEF m
  <2> QED BY <2>7
<1>3. ASSUME setxattr(n) PROVE fs' = [fs EXCEPT !.mode = m]
  <2>1. PICK v \in Modes \ {fs.mode[i]} : fs' = [fs EXCEPT !.mode[i] = v]
    BY <1>3 DEF setxattr
  <2> HIDE DEF i, j
  <2>4. fs.mode[i] \in {0, 1} /\ fs.mode \in [Ids -> {0, 1}]
    BY <1>0, <1>1a DEF Disks
  <2>5. v = w
    BY <2>4, ModesAssumption
  <2> HIDE DEF w
  <2>6. [fs.mode EXCEPT ![i] = v] = m
    BY <2>4, <2>5
  <2>7. fs' = [fs EXCEPT !.mode = m]
    BY <1>0, <2>1, <2>6 DEF Disks
  <2> HIDE DEF m
  <2> QED BY <2>7
<1> HIDE DEF i, j, m, w
<1>4. fs' = [fs EXCEPT !.mode = m]
  BY <1>2, <1>3
<1>5. fs'.ssd = fs.ssd /\ fs'.hdd = fs.hdd /\ fs'.handle = fs.handle /\ fs'.content = fs.content /\ fs'.mode = m
  BY <1>0, <1>4 DEF Disks
<1>6. Tree(fs') = Tree(fs)
  BY <1>5 DEF Tree, FileOf, is_symlink_ssd
<1>7. P!Step(Tree(fs), fs.content, m, fs.handle)
  BY <1>5, <1>6, StepIs
<1>8. P!Step(Tree(fs), fs.content, [fs.mode EXCEPT ![Tree(fs)[n]] = 1 - @], fs.handle) /\ Tree(fs)[n] # None
  BY <1>1, <1>1a, <1>7 DEF m, w
<1> QED BY <1>1, <1>8 DEF P!Chmod, Tree

\* getattr
LEMMA PlainGetattr ==
    ASSUME HyInv, NEW n \in Names, getattr(n)
    PROVE  P!Getattr(n)
<1>1. /\ fs \in Disks /\ Placed(fs)
      /\ Tree(fs)[n] = IF fs.ssd[n] = Away THEN fs.hdd[n] ELSE fs.ssd[n]
      /\ Tree(fs)[n] # None <=> fs.ssd[n] # None
  BY TreeIs
<1>2. is_symlink_ssd(fs, n) <=> fs.ssd[n] = Away
  BY <1>1, FileIs
<1>3. Tree(fs)[n] # None /\ seen' = fs.content[Tree(fs)[n]]
  BY <1>1, <1>2 DEF getattr
<1>4. UNCHANGED fs
  BY DEF getattr
<1> QED BY <1>3, <1>4 DEF P!Getattr, Tree

\* release
LEMMA PlainRelease ==
    ASSUME HyInv, HyInv', NEW h \in Handles, release(h)
    PROVE  P!Release(h)
<1> DEFINE g == [fs EXCEPT !.handle[h] = None, !.own[h] = None, !.wronly = @ \ {h}]
           o == [fs.handle EXCEPT ![h] = None]
<1>0. fs \in Disks
  BY DEF HyInv, Agrees
<1>1. fs.handle[h] # None /\ fs' = Tidy(g) /\ seen' = 0
  BY DEF release, Call
<1>2. /\ g \in Disks /\ g.ssd = fs.ssd /\ g.hdd = fs.hdd /\ g.handle = o
      /\ g.content = fs.content /\ g.mode = fs.mode
  BY <1>0 DEF Disks
<1> HIDE DEF g
<1>3. /\ fs'.handle = o /\ fs'.ssd = fs.ssd /\ fs'.hdd = fs.hdd
      /\ \A i \in Ids \cap Reachable(fs') : fs.content[i] = fs'.content[i] /\ fs.mode[i] = fs'.mode[i]
  BY <1>1, <1>2, TidyKeeps
<1>4. Tree(fs') = Tree(fs)
  BY <1>3 DEF Tree, FileOf, is_symlink_ssd
<1> HIDE DEF o
<1>5. P!Step(Tree(fs), fs.content, fs.mode, o)
  BY <1>3, <1>4, StepIs
<1> QED BY <1>1, <1>5 DEF P!Release, Tree, o

\* The next mount.
LEMMA PlainRemount ==
    ASSUME HyInv, HyInv', Remount
    PROVE  P!Remount
<1> DEFINE o == [h \in Handles |-> None]
           g == [fs EXCEPT !.handle = o, !.own = o, !.wronly = {}]
<1>0. fs \in Disks
  BY DEF HyInv, Agrees
<1>1. fs' = Tidy(g) /\ seen' = 0
  BY DEF Remount
<1>2. /\ g \in Disks /\ g.ssd = fs.ssd /\ g.hdd = fs.hdd /\ g.handle = o
      /\ g.content = fs.content /\ g.mode = fs.mode
  BY <1>0 DEF Disks
<1> HIDE DEF g
<1>3. /\ fs'.handle = o /\ fs'.ssd = fs.ssd /\ fs'.hdd = fs.hdd
      /\ \A i \in Ids \cap Reachable(fs') : fs.content[i] = fs'.content[i] /\ fs.mode[i] = fs'.mode[i]
  BY <1>1, <1>2, TidyKeeps
<1>4. Tree(fs') = Tree(fs)
  BY <1>3 DEF Tree, FileOf, is_symlink_ssd
<1> HIDE DEF o
<1>5. P!Step(Tree(fs), fs.content, fs.mode, o)
  BY <1>3, <1>4, StepIs
<1> QED BY <1>1, <1>5 DEF P!Remount, Tree, o

\* A directory is made or removed.
LEMMA PlainOther ==
    ASSUME mkdir \/ rmdir
    PROVE  P!Other
BY DEF mkdir, rmdir, P!Other

\* create
LEMMA PlainCreate ==
    ASSUME HyInv, HyInv', NEW n \in Names, NEW h \in Handles, create(n, h)
    PROVE  P!Create(n, h)
<1> DEFINE f == MadeRoom(fs)
           i == Min(Ids \ Reachable(fs))
           g == [f EXCEPT !.ssd[n] = i, !.handle[h] = i, !.wronly = @ \cup {h}]
           o == [fs.handle EXCEPT ![h] = i]
           t == [Tree(fs) EXCEPT ![n] = i]
<1>0. MayMake /\ fs' = Tidy(g) /\ fs.ssd[n] = None /\ fs.handle[h] = None /\ seen' = 0
  BY DEF create, Call
<1>1. i \in Ids /\ i \notin Reachable(fs)
  BY <1>0, FreshIs
<1>2. /\ fs \in Disks /\ f \in Disks /\ Placed(f) /\ Placed(fs)
      /\ f.content = fs.content /\ f.mode = fs.mode /\ f.handle = fs.handle
      /\ \A m \in Names : FileOf(f, m) = FileOf(fs, m)
  BY RoomAgrees, RoomKeeps DEF HyInv, Agrees
<1>3. i \in P!Unused
  <2>1. \A m \in Names : FileOf(fs, m) # i
    BY <1>1, <1>2, FileIs
  <2>2. \A k \in Handles : fs.handle[k] # i
    BY <1>1 DEF Reachable
  <2> HIDE DEF i
  <2> QED BY <1>1, <2>1, <2>2 DEF P!Unused
<1> HIDE DEF f, i
<1>4. /\ g \in Disks /\ g.content = f.content /\ g.mode = f.mode /\ g.ssd[n] = i /\ g.hdd = f.hdd
      /\ g.handle = o /\ \A m \in Names : m # n => g.ssd[m] = f.ssd[m]
  BY <1>1, <1>2 DEF Disks
<1> HIDE DEF g
<1>5. /\ fs'.handle = o /\ fs'.ssd = g.ssd /\ fs'.hdd = f.hdd
      /\ \A k \in Ids \cap Reachable(fs') : fs.content[k] = fs'.content[k] /\ fs.mode[k] = fs'.mode[k]
  BY <1>0, <1>2, <1>4, TidyKeeps
<1> HIDE DEF o
<1>6. t = Tree(fs')
  <2>1. ASSUME NEW m \in Names PROVE t[m] = Tree(fs')[m]
    <3>0. Tree(fs')[m] = IF fs'.ssd[m] = Away THEN fs'.hdd[m] ELSE fs'.ssd[m]
      BY NextTreeIs
    <3>1. Tree(fs)[m] = IF f.ssd[m] = Away THEN f.hdd[m] ELSE f.ssd[m]
      BY <1>2, FileIs DEF Tree
    <3>2. CASE m = n
      <4>1. t[m] = i
        BY <3>2 DEF Tree
      <4> QED BY <1>1, <1>4, <1>5, <3>0, <3>2, <4>1, NoFile
    <3>3. CASE m # n
      <4>1. t[m] = Tree(fs)[m]
        BY <3>3 DEF Tree
      <4> QED BY <1>4, <1>5, <3>0, <3>1, <3>3, <4>1
    <3> QED BY <3>2, <3>3
  <2> QED BY <2>1 DEF Tree
<1> HIDE DEF t
<1>7. P!Step(t, fs.content, fs.mode, o)
  BY <1>5, <1>6, StepIs
<1>8. Tree(fs)[n] = None
  BY <1>0, TreeIs
<1> QED BY <1>0, <1>3, <1>7, <1>8 DEF P!Create, Tree, t, o

\* mknod
LEMMA PlainMknod ==
    ASSUME HyInv, HyInv', NEW n \in Names, mknod(n)
    PROVE  P!Mknod(n)
<1> DEFINE i == Min(Ids \ Reachable(fs))
           t == [Tree(fs) EXCEPT ![n] = i]
<1>0. MayMake /\ fs' = [fs EXCEPT !.ssd[n] = i] /\ fs.ssd[n] = None /\ seen' = 0
  BY DEF mknod, Call
<1>1. i \in Ids /\ i \notin Reachable(fs)
  BY <1>0, FreshIs
<1>2. fs \in Disks /\ Placed(fs)
  BY DEF HyInv, Agrees
<1>3. i \in P!Unused
  <2>1. \A m \in Names : FileOf(fs, m) # i
    BY <1>1, <1>2, FileIs
  <2>2. \A k \in Handles : fs.handle[k] # i
    BY <1>1 DEF Reachable
  <2> HIDE DEF i
  <2> QED BY <1>1, <2>1, <2>2 DEF P!Unused
<1> HIDE DEF i
<1>5. /\ fs'.handle = fs.handle /\ fs'.ssd[n] = i /\ fs'.hdd = fs.hdd
      /\ \A m \in Names : m # n => fs'.ssd[m] = fs.ssd[m]
      /\ fs'.content = fs.content /\ fs'.mode = fs.mode
  BY <1>0, <1>1, <1>2 DEF Disks
<1>6. t = Tree(fs')
  <2>1. ASSUME NEW m \in Names PROVE t[m] = Tree(fs')[m]
    <3>0. Tree(fs')[m] = IF fs'.ssd[m] = Away THEN fs'.hdd[m] ELSE fs'.ssd[m]
      BY NextTreeIs
    <3>1. Tree(fs)[m] = IF fs.ssd[m] = Away THEN fs.hdd[m] ELSE fs.ssd[m]
      BY TreeIs
    <3>2. CASE m = n
      <4>1. t[m] = i
        BY <3>2 DEF Tree
      <4> QED BY <1>1, <1>5, <3>0, <3>2, <4>1, NoFile
    <3>3. CASE m # n
      <4>1. t[m] = Tree(fs)[m]
        BY <3>3 DEF Tree
      <4> QED BY <1>5, <3>0, <3>1, <3>3, <4>1
    <3> QED BY <3>2, <3>3
  <2> QED BY <2>1 DEF Tree
<1> HIDE DEF t
<1>7. P!Step(t, fs.content, fs.mode, fs.handle)
  BY <1>5, <1>6, StepIs
<1>8. Tree(fs)[n] = None
  BY <1>0, TreeIs
<1> QED BY <1>0, <1>3, <1>7, <1>8 DEF P!Mknod, Tree, t

\* open
LEMMA PlainOpen ==
    ASSUME HyInv, HyInv', NEW n \in Names, NEW h \in Handles, open(n, h)
    PROVE  P!Open(n, h)
<1> DEFINE w == FileOf(fs, n)
           away == is_symlink_ssd(fs, n)
           f == MadeRoom(fs)
           e == IF away THEN move_file_hdd(f, n) ELSE fs
           g == IF e.ssd[n] \in Ids THEN [e EXCEPT !.handle[h] = e.ssd[n]] ELSE e
           o == [fs.handle EXCEPT ![h] = w]
<1>0. fs' = Tidy(g) /\ fs.ssd[n] # None /\ fs.handle[h] = None /\ seen' = 0
  BY DEF open, Call
<1>1. /\ fs \in Disks /\ Placed(fs) /\ (away <=> fs.ssd[n] = Away)
      /\ w = IF fs.ssd[n] = Away THEN fs.hdd[n] ELSE fs.ssd[n]
  <2>1. fs \in Disks /\ Placed(fs)
    BY DEF HyInv, Agrees
  <2> QED BY <2>1, FileIs
<1>2. w \in Ids
  <2>1. w \in Ids \cup {None} /\ w # None
    BY <1>0, <1>1, FileIs
  <2> QED BY <2>1
<1>3. /\ f \in Disks /\ Placed(f)
      /\ f.content = fs.content /\ f.mode = fs.mode /\ f.handle = fs.handle
      /\ \A m \in Names : FileOf(f, m) = FileOf(fs, m)
  BY RoomAgrees, RoomKeeps
<1>4. fs.ssd[n] = Away => f.ssd[n] = Away /\ f.hdd[n] = fs.hdd[n]
  <2>1. fs.ssd[n] = Away => n \notin Of(queue)
    BY NoFile DEF HyInv, Agrees
  <2> QED BY <2>1, RoomAgrees
<1>5. move_file_hdd(f, n) = [f EXCEPT !.ssd[n] = f.hdd[n], !.hdd[n] = None]
  BY DEF move_file_hdd
<1> HIDE DEF f, w
<1>6. /\ e \in Disks /\ e.content = fs.content /\ e.mode = fs.mode /\ e.handle = fs.handle
      /\ e.ssd[n] = w
      /\ \A m \in Names : (IF e.ssd[m] = Away THEN e.hdd[m] ELSE e.ssd[m]) = FileOf(fs, m)
  <2>1. CASE ~away
    <3>1. e = fs
      BY <2>1
    <3>2. \A m \in Names : FileOf(fs, m) = IF fs.ssd[m] = Away THEN fs.hdd[m] ELSE fs.ssd[m]
      BY <1>1, FileIs
    <3> HIDE DEF e
    <3> QED BY <1>1, <2>1, <3>1, <3>2
  <2>2. CASE away
    <3>1. e = [f EXCEPT !.ssd[n] = w, !.hdd[n] = None]
      BY <1>1, <1>4, <1>5, <2>2
    <3>2. \A m \in Names : FileOf(fs, m) = IF f.ssd[m] = Away THEN f.hdd[m] ELSE f.ssd[m]
      BY <1>3, FileIs
    <3> HIDE DEF e
    <3>3. /\ e \in Disks /\ e.content = f.content /\ e.mode = f.mode /\ e.handle = f.handle
          /\ e.ssd[n] = w
          /\ \A m \in Names : m # n => e.ssd[m] = f.ssd[m] /\ e.hdd[m] = f.hdd[m]
      BY <1>2, <1>3, <3>1 DEF Disks
    <3>4. FileOf(fs, n) = w
      BY DEF w
    <3> QED BY <1>2, <1>3, <3>2, <3>3, <3>4, NoFile
  <2> QED BY <2>1, <2>2
<1> HIDE DEF e
<1>7. g = [e EXCEPT !.handle[h] = w]
  BY <1>2, <1>6
<1> HIDE DEF g
<1>8. /\ g \in Disks /\ g.ssd = e.ssd /\ g.hdd = e.hdd /\ g.handle = o
      /\ g.content = fs.content /\ g.mode = fs.mode
  BY <1>2, <1>6, <1>7 DEF Disks
<1> HIDE DEF o
<1>9. /\ fs'.handle = o /\ fs'.ssd = e.ssd /\ fs'.hdd = e.hdd
      /\ \A k \in Ids \cap Reachable(fs') : fs.content[k] = fs'.content[k] /\ fs.mode[k] = fs'.mode[k]
  BY <1>0, <1>8, TidyKeeps
<1>10. Tree(fs) = Tree(fs')
  <2>1. ASSUME NEW m \in Names PROVE Tree(fs)[m] = Tree(fs')[m]
    <3>0. Tree(fs')[m] = IF fs'.ssd[m] = Away THEN fs'.hdd[m] ELSE fs'.ssd[m]
      BY NextTreeIs
    <3>1. Tree(fs)[m] = FileOf(fs, m)
      BY DEF Tree
    <3> QED BY <1>6, <1>9, <3>0, <3>1
  <2> QED BY <2>1 DEF Tree
<1>11. P!Step(Tree(fs), fs.content, fs.mode, o)
  BY <1>9, <1>10, StepIs
<1>12. Tree(fs)[n] = w /\ w # None
  BY <1>2, NoFile DEF Tree, w
<1>13. P!Step(Tree(fs), fs.content, fs.mode, [fs.handle EXCEPT ![h] = Tree(fs)[n]]) /\ Tree(fs)[n] # None
  BY <1>11, <1>12 DEF o
<1> QED BY <1>0, <1>13 DEF P!Open, Tree

\* unlink
LEMMA PlainUnlink ==
    ASSUME HyInv, HyInv', NEW n \in Names, unlink(n)
    PROVE  P!Unlink(n)
<1> DEFINE g == [fs EXCEPT !.ssd[n] = None, !.hdd[n] = IF is_symlink_ssd(fs, n) THEN None ELSE @]
           t == [Tree(fs) EXCEPT ![n] = None]
<1>0. fs' = Tidy(g) /\ fs.ssd[n] # None /\ seen' = 0
  BY DEF unlink, Call
<1>1. fs \in Disks
  BY DEF HyInv, Agrees
<1>2. /\ g \in Disks /\ g.ssd[n] = None /\ g.handle = fs.handle
      /\ g.content = fs.content /\ g.mode = fs.mode
      /\ \A m \in Names : m # n => g.ssd[m] = fs.ssd[m] /\ g.hdd[m] = fs.hdd[m]
  BY <1>1 DEF Disks
<1> HIDE DEF g
<1>3. /\ fs'.handle = fs.handle /\ fs'.ssd = g.ssd /\ fs'.hdd = g.hdd
      /\ \A k \in Ids \cap Reachable(fs') : fs.content[k] = fs'.content[k] /\ fs.mode[k] = fs'.mode[k]
  BY <1>0, <1>2, TidyKeeps
<1>4. t = Tree(fs')
  <2>1. ASSUME NEW m \in Names PROVE t[m] = Tree(fs')[m]
    <3>0. Tree(fs')[m] = IF fs'.ssd[m] = Away THEN fs'.hdd[m] ELSE fs'.ssd[m]
      BY NextTreeIs
    <3>1. Tree(fs)[m] = IF fs.ssd[m] = Away THEN fs.hdd[m] ELSE fs.ssd[m]
      BY TreeIs
    <3>2. CASE m = n
      <4>1. t[m] = None
        BY <3>2 DEF Tree
      <4> QED BY <1>2, <1>3, <3>0, <3>2, <4>1, NoFile
    <3>3. CASE m # n
      <4>1. t[m] = Tree(fs)[m]
        BY <3>3 DEF Tree
      <4> QED BY <1>2, <1>3, <3>0, <3>1, <3>3, <4>1
    <3> QED BY <3>2, <3>3
  <2> QED BY <2>1 DEF Tree
<1> HIDE DEF t
<1>5. P!Step(t, fs.content, fs.mode, fs.handle)
  BY <1>3, <1>4, StepIs
<1>6. Tree(fs)[n] # None
  BY <1>0, TreeIs
<1> QED BY <1>0, <1>5, <1>6 DEF P!Unlink, Tree, t

\* link
LEMMA PlainLink ==
    ASSUME HyInv, HyInv', NEW n \in Names, NEW m \in Names, link(n, m)
    PROVE  P!Link(n, m)
<1> DEFINE i == fs.ssd[n]
           t == [Tree(fs) EXCEPT ![m] = i]
<1>0. fs' = [fs EXCEPT !.ssd[m] = i] /\ i \in Ids /\ fs.ssd[m] = None /\ seen' = 0
  BY DEF link, Call
<1>1. fs \in Disks
  BY DEF HyInv, Agrees
<1>2. Tree(fs)[n] = i /\ Tree(fs)[n] # None /\ Tree(fs)[m] = None
  BY <1>0, TreeIs, NoFile
<1> HIDE DEF i
<1>3. /\ fs'.handle = fs.handle /\ fs'.ssd[m] = i /\ fs'.hdd = fs.hdd
      /\ \A k \in Names : k # m => fs'.ssd[k] = fs.ssd[k]
      /\ fs'.content = fs.content /\ fs'.mode = fs.mode
  BY <1>0, <1>1 DEF Disks
<1>4. t = Tree(fs')
  <2>1. ASSUME NEW k \in Names PROVE t[k] = Tree(fs')[k]
    <3>0. Tree(fs')[k] = IF fs'.ssd[k] = Away THEN fs'.hdd[k] ELSE fs'.ssd[k]
      BY NextTreeIs
    <3>1. Tree(fs)[k] = IF fs.ssd[k] = Away THEN fs.hdd[k] ELSE fs.ssd[k]
      BY TreeIs
    <3>2. CASE k = m
      <4>1. t[k] = i
        BY <3>2 DEF Tree
      <4> QED BY <1>0, <1>3, <3>0, <3>2, <4>1, NoFile
    <3>3. CASE k # m
      <4>1. t[k] = Tree(fs)[k]
        BY <3>3 DEF Tree
      <4> QED BY <1>3, <3>0, <3>1, <3>3, <4>1
    <3> QED BY <3>2, <3>3
  <2> QED BY <2>1 DEF Tree
<1> HIDE DEF t
<1>5. P!Step(t, fs.content, fs.mode, fs.handle)
  BY <1>3, <1>4, StepIs
<1>6. P!Step([Tree(fs) EXCEPT ![m] = Tree(fs)[n]], fs.content, fs.mode, fs.handle)
  BY <1>2, <1>5 DEF t
<1> QED BY <1>0, <1>2, <1>6 DEF P!Link, Tree

\* rename
LEMMA PlainRename ==
    ASSUME HyInv, HyInv', Careful, NEW n \in Names, NEW m \in Names, rename(n, m), mounted'
    PROVE  P!Rename(n, m)
<1> DEFINE w == Tree(fs)[n]
           t == [Tree(fs) EXCEPT ![m] = w, ![n] = None]
           Holds == /\ fs'.handle = fs.handle
                    /\ \A k \in Ids \cap Reachable(fs') : fs.content[k] = fs'.content[k] /\ fs.mode[k] = fs'.mode[k]
                    /\ fs'.ssd[n] = None
                    /\ (IF fs'.ssd[m] = Away THEN fs'.hdd[m] ELSE fs'.ssd[m]) = w
                    /\ \A k \in Names \ {n, m} : fs'.ssd[k] = fs.ssd[k] /\ fs'.hdd[k] = fs.hdd[k]
<1>0. fs.ssd[n] # None /\ n # m /\ seen' = 0
  BY DEF rename
<1>1. fs \in Disks /\ Placed(fs) /\ w = IF fs.ssd[n] = Away THEN fs.hdd[n] ELSE fs.ssd[n]
  BY TreeIs
<1>2. is_symlink_ssd(fs, n) <=> fs.ssd[n] = Away
  BY <1>1, FileIs
<1>2a. w # None
  BY <1>0, TreeIs
<1> HIDE DEF w
<1>3. ASSUME fs.ssd[n] = Away PROVE Holds
  <2> DEFINE i == fs.hdd[n]
             g == [fs EXCEPT !.ssd = [@ EXCEPT ![m] = Away, ![n] = None],
                             !.hdd = [@ EXCEPT ![m] = i, ![n] = None],
                             !.target[m] = fs.target[n]]
             a == [fs.ssd EXCEPT ![m] = Away, ![n] = None]
             b == [fs.hdd EXCEPT ![m] = i, ![n] = None]
             u == [fs.target EXCEPT ![m] = fs.target[n]]
  <2>1. fs' = Tidy(g)
    BY <1>2, <1>3 DEF rename
  <2>3. i \in Ids
    BY <1>1, <1>3 DEF Placed, Disks
  <2>3a. i = w
    BY <1>1, <1>3
  <2> HIDE DEF i
  <2>4. /\ a \in [Names -> Ids \cup {None, Away}] /\ a[m] = Away /\ a[n] = None
        /\ \A k \in Names \ {n, m} : a[k] = fs.ssd[k]
    BY <1>0, <1>1 DEF Disks
  <2>5. /\ b \in [Names -> Ids \cup {None}] /\ b[m] = i /\ b[n] = None
        /\ \A k \in Names \ {n, m} : b[k] = fs.hdd[k]
    BY <1>0, <1>1, <2>3 DEF Disks
  <2>6. u \in [Names -> Names]
    BY <1>1 DEF Disks
  <2>7. g = [fs EXCEPT !.ssd = a, !.hdd = b, !.target = u]
    BY <1>1 DEF Disks
  <2> HIDE DEF a, b, u, g
  <2>8. /\ g \in Disks /\ g.ssd = a /\ g.hdd = b /\ g.handle = fs.handle
        /\ g.content = fs.content /\ g.mode = fs.mode
    BY <1>1, <2>4, <2>5, <2>6, <2>7 DEF Disks
  <2>9. /\ fs'.handle = g.handle /\ fs'.ssd = g.ssd /\ fs'.hdd = g.hdd
        /\ \A k \in Ids \cap Reachable(fs') : g.content[k] = fs'.content[k] /\ g.mode[k] = fs'.mode[k]
    BY <2>1, <2>8, TidyKeeps
  <2> QED BY <2>3a, <2>4, <2>5, <2>8, <2>9
<1>4. ASSUME fs.ssd[n] # Away PROVE Holds
  <2> DEFINE i == fs.ssd[n]
             g == [fs EXCEPT !.ssd = [@ EXCEPT ![m] = i, ![n] = None],
                             !.target[m] = fs.target[n]]
             a == [fs.ssd EXCEPT ![m] = i, ![n] = None]
             u == [fs.target EXCEPT ![m] = fs.target[n]]
  <2>1. fs' = Tidy(g)
    BY <1>2, <1>4 DEF rename
  <2>3. i \in Ids \cup {None, Away} /\ i # Away
    BY <1>1, <1>4 DEF Disks
  <2>3a. i = w
    BY <1>1, <1>4
  <2> HIDE DEF i
  <2>4. /\ a \in [Names -> Ids \cup {None, Away}] /\ a[m] = i /\ a[n] = None
        /\ \A k \in Names \ {n, m} : a[k] = fs.ssd[k]
    BY <1>0, <1>1, <2>3 DEF Disks
  <2>6. u \in [Names -> Names]
    BY <1>1 DEF Disks
  <2>7. g = [fs EXCEPT !.ssd = a, !.target = u]
    BY <1>1 DEF Disks
  <2> HIDE DEF a, u, g
  <2>8. /\ g \in Disks /\ g.ssd = a /\ g.hdd = fs.hdd /\ g.handle = fs.handle
        /\ g.content = fs.content /\ g.mode = fs.mode
    BY <1>1, <2>4, <2>6, <2>7 DEF Disks
  <2>9. /\ fs'.handle = g.handle /\ fs'.ssd = g.ssd /\ fs'.hdd = g.hdd
        /\ \A k \in Ids \cap Reachable(fs') : g.content[k] = fs'.content[k] /\ g.mode[k] = fs'.mode[k]
    BY <2>1, <2>8, TidyKeeps
  <2> QED BY <2>3, <2>3a, <2>4, <2>8, <2>9
<1>5. Holds
  BY <1>3, <1>4
<1>6. t = Tree(fs')
  <2>1. ASSUME NEW k \in Names PROVE t[k] = Tree(fs')[k]
    <3>0. Tree(fs')[k] = IF fs'.ssd[k] = Away THEN fs'.hdd[k] ELSE fs'.ssd[k]
      BY NextTreeIs
    <3>1. Tree(fs)[k] = IF fs.ssd[k] = Away THEN fs.hdd[k] ELSE fs.ssd[k]
      BY TreeIs
    <3>2. CASE k = n
      <4>1. t[k] = None
        BY <3>2 DEF Tree
      <4> QED BY <1>5, <3>0, <3>2, <4>1, NoFile
    <3>3. CASE k = m
      <4>1. t[k] = w
        BY <1>0, <3>3 DEF Tree
      <4> QED BY <1>5, <3>0, <3>3, <4>1
    <3>4. CASE k \notin {n, m}
      <4>1. t[k] = Tree(fs)[k]
        BY <3>4 DEF Tree
      <4> QED BY <1>5, <3>0, <3>1, <3>4, <4>1
    <3> QED BY <3>2, <3>3, <3>4
  <2> QED BY <2>1 DEF Tree
<1> HIDE DEF t
<1>7. P!Step(t, fs.content, fs.mode, fs.handle)
  BY <1>5, <1>6, StepIs
<1> QED BY <1>0, <1>2a, <1>7 DEF P!Rename, Tree, t, w

\* Every step is one of a file system of one disk.
LEMMA HyPlain ==
    ASSUME HyInv, HyInv', Careful
    PROVE  KeepsFiles
<1>1. ASSUME NEW h \in Handles
      PROVE  /\ write(h) => P!Write(h)
             /\ read(h) => P!Read(h)
             /\ ftruncate(h) => P!Empty(h)
             /\ release(h) => P!Release(h)
             /\ \A n \in Names : /\ create(n, h) => P!Create(n, h)
                                /\ open(n, h) => P!Open(n, h)
  BY PlainWrite, PlainRead, PlainEmpty, PlainRelease, PlainCreate, PlainOpen
<1>2. ASSUME NEW n \in Names
      PROVE  /\ truncate(n) => P!Truncate(n)
             /\ mknod(n) => P!Mknod(n)
             /\ getattr(n) => P!Getattr(n)
             /\ chmod(n) \/ setxattr(n) => P!Chmod(n)
             /\ unlink(n) => P!Unlink(n)
             /\ \A m \in Names : /\ link(n, m) => P!Link(n, m)
                                /\ rename(n, m) /\ mounted' => P!Rename(n, m)
  BY PlainTruncate, PlainMknod, PlainGetattr, PlainChmod, PlainUnlink, PlainLink, PlainRename
<1> QED BY <1>1, <1>2, PlainRemount, PlainOther DEF KeepsFiles
-----------------------------------------------------------------------------
(* The ring of util.c, for the sequence c of its entries. *)

Rings == [next : [Elems -> Elems \cup {Ring!Null}], prev : [Elems -> Elems \cup {Ring!Null}],
          fname : [Elems -> Names \cup {Ring!Null}], freq : [Elems -> Nat],
          live : SUBSET Elems, head : Elems \cup {Ring!Null}, tail : Elems \cup {Ring!Null}]

\* No entry is in it twice.
Distinct(c) == \A i, j \in 1 .. Len(c) : c[i] = c[j] => i = j

Members(c) == {c[i] : i \in 1 .. Len(c)}

\* What comes behind the i-th of k entries.
Behind(k, i) == IF i = k THEN 1 ELSE i + 1

\* The links lead around, both ways.
Links(nx, pv, c) ==
    \A i \in 1 .. Len(c) : /\ nx[c[i]] = c[Behind(Len(c), i)]
                           /\ pv[c[Behind(Len(c), i)]] = c[i]

IsRing(r, c) ==
    /\ c \in Seq(Elems) /\ Distinct(c) /\ Links(r.next, r.prev, c)
    /\ IF Len(c) = 0 THEN r.head = Ring!Null ELSE r.head = c[1] /\ r.tail = c[Len(c)]

\* An entry is not Null.
LEMMA NoEntry == Ring!Null \notin Elems
BY ElemsAssumption DEF Ring!Null

\* There are as many entries as the sequence is long.
LEMMA MembersIs ==
    ASSUME NEW c \in Seq(Elems), Distinct(c)
    PROVE  Members(c) \subseteq Elems /\ Cardinality(Members(c)) = Len(c) /\ Len(c) <= Cardinality(Elems)
<1> DEFINE k == Len(c)
           S == Members(c)
           f == [i \in 1 .. k |-> c[i]]
<1>1. k \in Nat /\ \A i \in 1 .. k : c[i] \in Elems
  BY LenProperties, ElementOfSeq
<1>2. S \subseteq Elems
  BY <1>1 DEF Members
<1>3. f \in Bijection(1 .. k, S)
  <2>1. \A i, j \in 1 .. k : c[i] = c[j] => i = j
    BY DEF Distinct
  <2>2. S = {c[i] : i \in 1 .. k}
    BY DEF Members
  <2> HIDE DEF k, S
  <2>3. f \in [1 .. k -> S] /\ \A x, y \in 1 .. k : f[x] = f[y] => x = y
    BY <2>1, <2>2
  <2>4. \A y \in S : \E x \in 1 .. k : f[x] = y
    BY <2>2
  <2> HIDE DEF f
  <2> QED BY <2>3, <2>4 DEF Bijection, Injection, Surjection, IsInjective
<1>4. ExistsBijection(1 .. k, S)
  BY <1>3 DEF ExistsBijection
<1> HIDE DEF k, S, f
<1>5. Cardinality(S) = k
  BY <1>1, <1>4, FS_CountingElements
<1>6. Cardinality(S) <= Cardinality(Elems)
  BY <1>2, FS_Subset, ElemsAssumption
<1> QED BY <1>2, <1>5, <1>6 DEF k, S

\* m links on from the entry x.
IsWay(f, x, nx, m) == f = [k \in 0 .. m |-> IF k = 0 THEN x ELSE nx[f[k - 1]]]

\* A way along the links is as long as one likes.
LEMMA WayIs ==
    ASSUME NEW nx, NEW x, NEW m \in Nat
    PROVE  \E f : IsWay(f, x, nx, m)
<1> DEFINE Way(k) == \E f : f = [j \in 0 .. k |-> IF j = 0 THEN x ELSE nx[f[j - 1]]]
           S == {k \in Nat : Way(k)}
<1>1. 0 \in S
  <2> DEFINE f == [j \in 0 .. 0 |-> x]
  <2>1. f = [j \in 0 .. 0 |-> IF j = 0 THEN x ELSE nx[f[j - 1]]]
    OBVIOUS
  <2> HIDE DEF f
  <2> QED BY <2>1
<1>2. ASSUME NEW k \in Nat, k \in S PROVE k + 1 \in S
  <2>1. PICK f : f = [j \in 0 .. k |-> IF j = 0 THEN x ELSE nx[f[j - 1]]]
    BY <1>2
  <2> DEFINE g == [j \in 0 .. k + 1 |-> IF j <= k THEN f[j] ELSE nx[f[k]]]
  <2>2. \A j \in 0 .. k : f[j] = IF j = 0 THEN x ELSE nx[f[j - 1]]
    <3> DEFINE body == [j \in 0 .. k |-> IF j = 0 THEN x ELSE nx[f[j - 1]]]
    <3>1. \A j \in 0 .. k : body[j] = IF j = 0 THEN x ELSE nx[f[j - 1]]
      OBVIOUS
    <3>2. f = body
      BY <2>1
    <3> HIDE DEF body
    <3> QED BY <3>1, <3>2
  <2>3. ASSUME NEW j \in 0 .. k + 1 PROVE g[j] = IF j = 0 THEN x ELSE nx[g[j - 1]]
    <3>1. CASE j = 0
      BY <2>2, <3>1
    <3>2. CASE j \in 1 .. k
      BY <2>2, <3>2
    <3>3. CASE j = k + 1
      BY <2>2, <3>3
    <3> QED BY <3>1, <3>2, <3>3
  <2>4. g = [j \in 0 .. k + 1 |-> IF j = 0 THEN x ELSE nx[g[j - 1]]]
    BY <2>3
  <2> HIDE DEF g
  <2>5. Way(k + 1)
    BY <2>4
  <2> HIDE DEF Way
  <2> QED BY <2>5
<1> HIDE DEF S
<1>3. Nat \subseteq S
  BY <1>1, <1>2, Induct
<1>4. Way(m)
  BY <1>3 DEF S
<1> QED BY <1>4 DEF IsWay

\* The instance has the operators of the library.
LEMMA RingHas ==
    /\ \A S : Ring!Cardinality(S) = Cardinality(S)
    /\ \A S : Ring!Min(S) = Min(S)
<1>1. \A S : Ring!Cardinality(S) = Cardinality(S)
  BY DEF Ring!Cardinality, Cardinality
<1>2. \A S : Ring!Min(S) = Min(S)
  BY DEF Ring!Min, Min
<1> QED BY <1>1, <1>2

\* The searches walk along the entries in their order.
LEMMA WalkIs ==
    ASSUME NEW r, NEW c, IsRing(r, c)
    PROVE  Ring!Walk(r) = c
<1> DEFINE k == Len(c)
           m == Ring!Cardinality(Elems)
           at == CHOOSE f : IsWay(f, r.head, r.next, m)
           N == {j \in 1 .. m : at[j] = r.head} \cup {m}
           n == Ring!Min(N)
<1>1. /\ c \in Seq(Elems) /\ k \in Nat /\ m \in Nat /\ k <= m
      /\ \A i, j \in 1 .. k : c[i] = c[j] => i = j
      /\ \A i \in 1 .. k : c[i] # Ring!Null /\ r.next[c[i]] = c[Behind(k, i)]
      /\ k # 0 => r.head = c[1]
      /\ k = 0 => r.head = Ring!Null
  <2>1. /\ c \in Seq(Elems) /\ Distinct(c) /\ Links(r.next, r.prev, c)
        /\ k # 0 => r.head = c[1]
        /\ k = 0 => r.head = Ring!Null
    BY DEF IsRing
  <2>2. k \in Nat /\ m \in Nat /\ k <= m /\ \A i \in 1 .. k : c[i] \in Elems
    BY <2>1, LenProperties, ElementOfSeq, MembersIs, FS_CardinalityType, ElemsAssumption, RingHas
  <2> QED BY <2>1, <2>2, NoEntry DEF Distinct, Links
<1>2. Ring!Walk(r) = IF r.head = Ring!Null THEN <<>> ELSE [i \in 1 .. n |-> at[i - 1]]
  BY DEF Ring!Walk, IsWay
<1>3. CASE k = 0
  BY <1>1, <1>2, <1>3, EmptySeq
<1>4. CASE k # 0
  <2>1. IsWay(at, r.head, r.next, m)
    <3>1. \E f : IsWay(f, r.head, r.next, m)
      BY <1>1, WayIs
    <3> QED BY <3>1
  <2> HIDE DEF at, k, m
  <2>2. \A j \in 0 .. m : at[j] = IF j = 0 THEN r.head ELSE r.next[at[j - 1]]
    <3> DEFINE body == [j \in 0 .. m |-> IF j = 0 THEN r.head ELSE r.next[at[j - 1]]]
    <3>1. \A j \in 0 .. m : body[j] = IF j = 0 THEN r.head ELSE r.next[at[j - 1]]
      OBVIOUS
    <3>2. at = body
      BY <2>1 DEF IsWay
    <3> HIDE DEF body
    <3> QED BY <3>1, <3>2
  <2> DEFINE S == {j \in Nat : j < k => at[j] = c[j + 1]}
  <2>3. 0 \in S
    BY <1>1, <1>4, <2>2
  <2>4. ASSUME NEW j \in Nat, j \in S PROVE j + 1 \in S
    <3>1. ASSUME j + 1 < k PROVE at[j + 1] = c[j + 1 + 1]
      <4>1. j + 1 \in 0 .. m /\ j + 1 # 0 /\ j + 1 - 1 = j /\ j + 1 \in 1 .. k /\ j < k
        BY <1>1, <3>1
      <4>2. r.next[c[j + 1]] = c[j + 1 + 1]
        BY <1>1, <3>1, <4>1 DEF Behind
      <4> QED BY <2>2, <2>4, <4>1, <4>2
    <3> QED BY <3>1
  <2> HIDE DEF S
  <2>5. Nat \subseteq S
    BY <2>3, <2>4, Induct
  <2>6. \A j \in Nat : j < k => at[j] = c[j + 1]
    BY <2>5 DEF S
  <2>7. at[k] = c[1]
    <3>1. k \in 0 .. m /\ k - 1 \in Nat /\ k - 1 < k /\ k - 1 + 1 = k /\ k \in 1 .. k
      BY <1>1, <1>4
    <3>2. r.next[c[k]] = c[1]
      BY <1>1, <3>1 DEF Behind
    <3> QED BY <1>4, <2>2, <2>6, <3>1, <3>2
  <2>8. n = k
    <3>1. k \in N /\ N \in SUBSET Nat
      BY <1>1, <1>4, <2>7
    <3>2. \A j \in N : k <= j
      <4> SUFFICES ASSUME NEW j \in N, j < k PROVE FALSE
        BY <1>1
      <4>1. j \in 1 .. m /\ at[j] = r.head
        BY <1>1
      <4>2. c[j + 1] = c[1] /\ j + 1 \in 1 .. k /\ 1 \in 1 .. k
        BY <1>1, <1>4, <2>6, <4>1
      <4> QED BY <1>1, <4>1, <4>2
    <3>3. n \in N /\ \A j \in N : n <= j
      <4> HIDE DEF N
      <4> QED BY <3>1, MinIs, RingHas
    <3> HIDE DEF N, n
    <3> QED BY <1>1, <3>1, <3>2, <3>3
  <2>9. Ring!Walk(r) = [i \in 1 .. k |-> at[i - 1]]
    <3>1. r.head # Ring!Null
      <4>1. 1 \in 1 .. k
        BY <1>1, <1>4
      <4> QED BY <1>1, <1>4, <4>1
    <3> HIDE DEF n
    <3> QED BY <1>2, <2>8, <3>1
  <2>10. \A i \in 1 .. k : at[i - 1] = c[i]
    BY <1>1, <2>6
  <2>11. c = [i \in 1 .. k |-> c[i]]
    <3>1. DOMAIN c = 1 .. k /\ c \in [1 .. k -> Elems]
      BY <1>1, LenProperties DEF k
    <3> QED BY <3>1
  <2> QED BY <2>9, <2>10, <2>11
<1> QED BY <1>3, <1>4

\* What comes before the i-th of k entries.
Before(k, i) == IF i = 1 THEN k ELSE i - 1

\* One comes behind the one before it.
LEMMA AroundIs ==
    ASSUME NEW k \in Nat, NEW i \in 1 .. k
    PROVE  /\ Behind(k, i) \in 1 .. k /\ Before(k, i) \in 1 .. k
           /\ Behind(k, Before(k, i)) = i /\ Before(k, Behind(k, i)) = i
           /\ k > 1 => Behind(k, i) # i /\ Before(k, i) # i
           /\ \A j \in 1 .. k : Behind(k, j) = Behind(k, i) => i = j
BY DEF Behind, Before

\* remque and free: the links pass one entry over.
LEMMA Unlinked ==
    ASSUME NEW c \in Seq(Elems), Distinct(c), Len(c) > 1, NEW i \in 1 .. Len(c),
           NEW nx \in [Elems -> Elems \cup {Ring!Null}], NEW pv \in [Elems -> Elems \cup {Ring!Null}],
           Links(nx, pv, c), NEW e, e = c[i],
           NEW nx2, \A x \in Elems \ {e} : nx2[x] = IF x = pv[e] THEN nx[e] ELSE nx[x],
           NEW pv2, \A x \in Elems \ {e} : pv2[x] = IF x = nx[e] THEN pv[e] ELSE pv[x]
    PROVE  Links(nx2, pv2, RemoveAt(c, i))
<1> DEFINE k == Len(c)
           d == RemoveAt(c, i)
           a == Before(k, i)
           b == Behind(k, i)
           Old(j) == IF j < i THEN j ELSE j + 1
<1>1. /\ k \in Nat /\ k > 1 /\ i \in 1 .. k
      /\ \A j \in 1 .. k : c[j] \in Elems
      /\ \A j, l \in 1 .. k : c[j] = c[l] => j = l
      /\ \A j \in 1 .. k : nx[c[j]] = c[Behind(k, j)] /\ pv[c[Behind(k, j)]] = c[j]
  <2>1. k \in Nat /\ \A j \in 1 .. k : c[j] \in Elems
    BY LenProperties, ElementOfSeq
  <2> QED BY <2>1 DEF Distinct, Links
<1>2. /\ d \in Seq(Elems) /\ Len(d) = k - 1
      /\ \A j \in 1 .. k - 1 : d[j] = c[Old(j)]
  <2>1. \A j \in 1 .. k - 1 : d[j] = IF j < i THEN c[j] ELSE c[j + 1]
    BY RemoveIs
  <2>2. d \in Seq(Elems) /\ Len(d) = k - 1
    BY RemoveIs
  <2> HIDE DEF d
  <2> QED BY <2>1, <2>2
<1> HIDE DEF k, d
<1>3. /\ a \in 1 .. k /\ b \in 1 .. k /\ Behind(k, a) = i /\ a # i /\ b # i
      /\ \A j \in 1 .. k : Behind(k, j) \in 1 .. k
      /\ \A j \in 1 .. k : Behind(k, j) = i => j = a
      /\ \A j \in 1 .. k : Behind(k, j) = b => j = i
  <2>1. k \in Nat /\ k > 1 /\ i \in 1 .. k
    BY <1>1
  <2> QED BY <2>1 DEF Behind, Before
<1>4. ASSUME NEW j \in 1 .. k - 1
      PROVE  /\ Old(j) \in 1 .. k /\ Old(j) # i /\ Behind(k - 1, j) \in 1 .. k - 1
             /\ Old(Behind(k - 1, j)) = IF Behind(k, Old(j)) = i THEN b ELSE Behind(k, Old(j))
  BY <1>1 DEF Behind
<1> HIDE DEF a, b, Old
<1>5. nx[e] = c[b] /\ pv[e] = c[a]
  BY <1>1, <1>3 DEF b
<1>6. ASSUME NEW j \in 1 .. k, j # i
      PROVE  /\ nx2[c[j]] = IF j = a THEN c[b] ELSE c[Behind(k, j)]
             /\ pv2[c[j]] = IF j = b THEN c[a] ELSE pv[c[j]]
  <2>1. c[j] \in Elems \ {e}
    BY <1>1, <1>6
  <2>2. c[j] = c[a] <=> j = a
    BY <1>1, <1>3
  <2>3. c[j] = c[b] <=> j = b
    BY <1>1, <1>3
  <2> QED BY <1>1, <1>5, <2>1, <2>2, <2>3
<1>7. ASSUME NEW j \in 1 .. k - 1
      PROVE  nx2[d[j]] = d[Behind(k - 1, j)] /\ pv2[d[Behind(k - 1, j)]] = d[j]
  <2> DEFINE l == Old(j)
             s == Behind(k - 1, j)
  <2>1. l \in 1 .. k /\ l # i /\ d[j] = c[l] /\ s \in 1 .. k - 1 /\ d[s] = c[Old(s)]
    BY <1>2, <1>4
  <2>2. Old(s) = IF Behind(k, l) = i THEN b ELSE Behind(k, l)
    BY <1>4
  <2> HIDE DEF l, s
  <2>3. CASE l = a
    <3>1. Old(s) = b
      BY <1>3, <2>2, <2>3
    <3> QED BY <1>3, <1>6, <2>1, <2>3, <3>1 DEF s
  <2>4. CASE l # a
    <3>1. Old(s) = Behind(k, l) /\ Behind(k, l) # i /\ Behind(k, l) # b /\ Behind(k, l) \in 1 .. k
      BY <1>3, <2>1, <2>2, <2>4
    <3>2. nx2[c[l]] = c[Behind(k, l)]
      BY <1>6, <2>1, <2>4
    <3>3. pv2[c[Behind(k, l)]] = c[l]
      BY <1>1, <1>6, <2>1, <3>1
    <3> QED BY <2>1, <3>1, <3>2, <3>3 DEF s
  <2> QED BY <2>3, <2>4
<1> QED BY <1>2, <1>7 DEF Links, d

\* insque: the links take one entry in, behind the one that is before its place.
LEMMA Linked ==
    ASSUME NEW c \in Seq(Elems), Distinct(c), Len(c) > 0, NEW i \in 1 .. Len(c) + 1,
           NEW nx \in [Elems -> Elems \cup {Ring!Null}], NEW pv \in [Elems -> Elems \cup {Ring!Null}],
           Links(nx, pv, c), NEW e \in Elems \ Members(c),
           NEW x, x = c[IF i = 1 THEN Len(c) ELSE i - 1]
    PROVE  Links([nx EXCEPT ![e] = nx[x], ![x] = e], [pv EXCEPT ![e] = x, ![nx[x]] = e], InsertAt(c, i, e))
<1> DEFINE k == Len(c)
           d == InsertAt(c, i, e)
           a == IF i = 1 THEN k ELSE i - 1
           b == Behind(k, a)
           New(j) == IF j < i THEN j ELSE j + 1
           nx2 == [nx EXCEPT ![e] = nx[x], ![x] = e]
           pv2 == [pv EXCEPT ![e] = x, ![nx[x]] = e]
<1>1. /\ k \in Nat /\ k > 0 /\ i \in 1 .. k + 1 /\ x = c[a]
      /\ \A j \in 1 .. k : c[j] \in Elems /\ c[j] # e
      /\ \A j, l \in 1 .. k : c[j] = c[l] => j = l
      /\ \A j \in 1 .. k : nx[c[j]] = c[Behind(k, j)] /\ pv[c[Behind(k, j)]] = c[j]
  <2>1. k \in Nat /\ \A j \in 1 .. k : c[j] \in Elems
    BY LenProperties, ElementOfSeq
  <2> QED BY <2>1 DEF Distinct, Links, Members
<1>2. /\ Len(d) = k + 1 /\ d[i] = e
      /\ \A j \in 1 .. k : d[New(j)] = c[j]
  <2>1. /\ Len(d) = k + 1
        /\ \A j \in 1 .. k + 1 : d[j] = IF j < i THEN c[j] ELSE IF j = i THEN e ELSE c[j - 1]
    <3>1. c \in Seq(Elems) /\ e \in Elems /\ i \in 1 .. Len(c) + 1
      OBVIOUS
    <3>2. IsPut(d, c, i, e)
      BY <3>1, InsertIs
    <3> HIDE DEF d
    <3> QED BY <3>2 DEF IsPut
  <2> HIDE DEF d, k
  <2>2. d[i] = e
    BY <1>1, <2>1
  <2>3. ASSUME NEW j \in 1 .. k PROVE d[New(j)] = c[j]
    <3>1. CASE j < i
      BY <1>1, <2>1, <3>1
    <3>2. CASE ~(j < i)
      <4>1. New(j) = j + 1 /\ j + 1 \in 1 .. k + 1 /\ ~(j + 1 < i) /\ j + 1 # i /\ j + 1 - 1 = j
        BY <1>1, <3>2
      <4> QED BY <2>1, <4>1
    <3> QED BY <3>1, <3>2
  <2> QED BY <2>1, <2>2, <2>3
<1> HIDE DEF k, d
<1>3. /\ a \in 1 .. k /\ b \in 1 .. k
      /\ \A j \in 1 .. k : Behind(k, j) \in 1 .. k
      /\ \A j \in 1 .. k : Behind(k, j) = b => j = a
  <2>1. k \in Nat /\ k > 0 /\ i \in 1 .. k + 1
    BY <1>1
  <2> QED BY <2>1 DEF Behind
<1>4. New(b) = Behind(k + 1, i) /\ Behind(k + 1, New(a)) = i
  BY <1>1 DEF Behind
<1>5. ASSUME NEW j \in 1 .. k, j # a PROVE Behind(k + 1, New(j)) = New(Behind(k, j))
  <2>1. k \in Nat /\ k > 0 /\ i \in 1 .. k + 1
    BY <1>1
  <2>2. CASE i = 1
    BY <1>5, <2>1, <2>2 DEF Behind
  <2>3. CASE i # 1 /\ j = k
    BY <1>5, <2>1, <2>3 DEF Behind
  <2>4. CASE i # 1 /\ j # k
    BY <1>5, <2>1, <2>4 DEF Behind
  <2> QED BY <2>2, <2>3, <2>4
<1>6. ASSUME NEW j \in 1 .. k + 1, j # i PROVE \E l \in 1 .. k : j = New(l)
  <2>1. CASE j < i
    <3>1. j \in 1 .. k /\ New(j) = j
      BY <1>1, <2>1
    <3> QED BY <3>1
  <2>2. CASE ~(j < i)
    <3>1. j - 1 \in 1 .. k /\ ~(j - 1 < i) /\ j - 1 + 1 = j
      BY <1>1, <1>6, <2>2
    <3> QED BY <3>1
  <2> QED BY <2>1, <2>2
<1> HIDE DEF a, b, New
<1>7. nx[x] = c[b] /\ x \in Elems /\ c[b] \in Elems /\ x # e /\ c[b] # e
  BY <1>1, <1>3 DEF b
<1>8. /\ nx2[e] = c[b] /\ nx2[x] = e /\ \A y \in Elems \ {e, x} : nx2[y] = nx[y]
      /\ pv2[e] = x /\ pv2[c[b]] = e /\ \A y \in Elems \ {e, c[b]} : pv2[y] = pv[y]
  BY <1>7
<1> HIDE DEF nx2, pv2
<1>9. ASSUME NEW j \in 1 .. k + 1
      PROVE  nx2[d[j]] = d[Behind(k + 1, j)] /\ pv2[d[Behind(k + 1, j)]] = d[j]
  <2>1. CASE j = i
    BY <1>2, <1>3, <1>4, <1>8, <2>1
  <2>2. ASSUME NEW l \in 1 .. k, j = New(l)
        PROVE  nx2[d[j]] = d[Behind(k + 1, j)] /\ pv2[d[Behind(k + 1, j)]] = d[j]
    <3>1. CASE l = a
      BY <1>1, <1>2, <1>3, <1>4, <1>8, <2>2, <3>1
    <3>2. CASE l # a
      <4>1. d[j] = c[l] /\ d[Behind(k + 1, j)] = c[Behind(k, l)] /\ Behind(k, l) # b
        BY <1>2, <1>3, <1>5, <2>2, <3>2
      <4>2. c[l] \in Elems \ {e, x} /\ c[Behind(k, l)] \in Elems \ {e, c[b]}
        BY <1>1, <1>3, <3>2, <4>1
      <4> QED BY <1>1, <1>8, <4>1, <4>2
    <3> QED BY <3>1, <3>2
  <2> QED BY <1>6, <2>1, <2>2
<1> QED BY <1>2, <1>9 DEF Links, d, nx2, pv2
-----------------------------------------------------------------------------
(* The calls of util.c on a ring. *)

\* What is left of r in r2 when the entry e is out: its links pass it over.
Passed(r, r2, e) ==
    /\ r2 \in Rings /\ r2.live = r.live \ {e}
    /\ \A x \in Elems \ {e} :
          /\ r2.fname[x] = r.fname[x] /\ r2.freq[x] = r.freq[x]
          /\ r2.next[x] = IF x = r.prev[e] THEN r.next[e] ELSE r.next[x]
          /\ r2.prev[x] = IF x = r.next[e] THEN r.prev[e] ELSE r.prev[x]

\* remque and free.
LEMMA PassedIs ==
    ASSUME NEW r \in Rings, NEW e \in Elems, r.next[e] \in Elems, r.prev[e] \in Elems,
           NEW r2, r2 = Ring!free(Ring!remque(r, e), e)
    PROVE  Passed(r, r2, e) /\ r2.head = r.head /\ r2.tail = r.tail
<1> DEFINE nx == [r.next EXCEPT ![r.prev[e]] = r.next[e]]
           pv == [r.prev EXCEPT ![r.next[e]] = r.prev[e]]
           nx2 == [nx EXCEPT ![e] = Ring!Null]
           pv2 == [pv EXCEPT ![e] = Ring!Null]
           fn2 == [r.fname EXCEPT ![e] = Ring!Null]
           fr2 == [r.freq EXCEPT ![e] = 0]
           lv == r.live \ {e}
           g == [r EXCEPT !.next = nx, !.prev = pv]
<1>1. /\ r.next \in [Elems -> Elems \cup {Ring!Null}] /\ r.prev \in [Elems -> Elems \cup {Ring!Null}]
      /\ r.fname \in [Elems -> Names \cup {Ring!Null}] /\ r.freq \in [Elems -> Nat]
      /\ r.live \in SUBSET Elems /\ r.head \in Elems \cup {Ring!Null} /\ r.tail \in Elems \cup {Ring!Null}
  BY DEF Rings
<1>2. /\ nx \in [Elems -> Elems \cup {Ring!Null}] /\ pv \in [Elems -> Elems \cup {Ring!Null}]
      /\ \A x \in Elems : /\ nx[x] = IF x = r.prev[e] THEN r.next[e] ELSE r.next[x]
                         /\ pv[x] = IF x = r.next[e] THEN r.prev[e] ELSE r.prev[x]
  BY <1>1
<1>3. Ring!remque(r, e) = g
  BY DEF Rings, Ring!remque
<1> HIDE DEF nx, pv
<1>4. /\ g \in Rings /\ g.next = nx /\ g.prev = pv /\ g.fname = r.fname /\ g.freq = r.freq
      /\ g.live = r.live /\ g.head = r.head /\ g.tail = r.tail
  BY <1>2 DEF Rings
<1>5. r2 = [g EXCEPT !.live = g.live \ {e}, !.next = [g.next EXCEPT ![e] = Ring!Null],
                     !.prev = [g.prev EXCEPT ![e] = Ring!Null],
                     !.fname = [g.fname EXCEPT ![e] = Ring!Null], !.freq = [g.freq EXCEPT ![e] = 0]]
  <2> HIDE DEF g
  <2> QED BY <1>3, <1>4 DEF Rings, Ring!free
<1>6. /\ nx2 \in [Elems -> Elems \cup {Ring!Null}] /\ pv2 \in [Elems -> Elems \cup {Ring!Null}]
      /\ fn2 \in [Elems -> Names \cup {Ring!Null}] /\ fr2 \in [Elems -> Nat]
      /\ \A x \in Elems \ {e} : /\ nx2[x] = nx[x] /\ pv2[x] = pv[x]
                               /\ fn2[x] = r.fname[x] /\ fr2[x] = r.freq[x]
  BY <1>1, <1>2
<1>7. r2 = [g EXCEPT !.live = lv, !.next = nx2, !.prev = pv2, !.fname = fn2, !.freq = fr2]
  BY <1>4, <1>5
<1>8. lv \in SUBSET Elems
  BY <1>1
<1> HIDE DEF g, nx2, pv2, fn2, fr2, lv
<1>9. /\ r2 \in Rings /\ r2.next = nx2 /\ r2.prev = pv2 /\ r2.fname = fn2 /\ r2.freq = fr2
      /\ r2.live = lv /\ r2.head = g.head /\ r2.tail = g.tail
  <2>1. /\ g \in Rings /\ nx2 \in [Elems -> Elems \cup {Ring!Null}] /\ pv2 \in [Elems -> Elems \cup {Ring!Null}]
        /\ fn2 \in [Elems -> Names \cup {Ring!Null}] /\ fr2 \in [Elems -> Nat]
    BY <1>4, <1>6
  <2> QED BY <1>7, <1>8, <2>1 DEF Rings
<1> QED BY <1>2, <1>4, <1>6, <1>9 DEF Passed, lv

\* What is out is not in the sequence, and the others keep their order.
LEMMA OutIs ==
    ASSUME NEW c \in Seq(Elems), Distinct(c), NEW i \in 1 .. Len(c)
    PROVE  /\ Distinct(RemoveAt(c, i)) /\ Members(RemoveAt(c, i)) = Members(c) \ {c[i]}
<1> DEFINE k == Len(c)
           d == RemoveAt(c, i)
           Old(j) == IF j < i THEN j ELSE j + 1
<1>1. k \in Nat /\ i \in 1 .. k /\ \A j, l \in 1 .. k : c[j] = c[l] => j = l
  BY LenProperties DEF Distinct
<1>2. Len(d) = k - 1 /\ \A j \in 1 .. k - 1 : d[j] = c[Old(j)]
  <2>1. Len(d) = k - 1 /\ \A j \in 1 .. k - 1 : d[j] = IF j < i THEN c[j] ELSE c[j + 1]
    BY RemoveIs
  <2> HIDE DEF d
  <2> QED BY <2>1
<1> HIDE DEF k, d
<1>3. Members(c) = {c[j] : j \in 1 .. k} /\ Members(d) = {d[j] : j \in 1 .. k - 1}
  BY <1>2 DEF Members, k
<1>4. /\ \A j \in 1 .. k - 1 : Old(j) \in (1 .. k) \ {i}
      /\ \A j, l \in 1 .. k - 1 : Old(j) = Old(l) => j = l
  BY <1>1
<1>5. ASSUME NEW j \in 1 .. k, j # i PROVE \E l \in 1 .. k - 1 : j = Old(l)
  <2>1. CASE j < i
    <3>1. j \in 1 .. k - 1 /\ Old(j) = j
      BY <1>1, <2>1
    <3> QED BY <3>1
  <2>2. CASE j > i
    <3>1. j - 1 \in 1 .. k - 1 /\ ~(j - 1 < i) /\ j - 1 + 1 = j
      BY <1>1, <2>2
    <3> QED BY <3>1
  <2> QED BY <1>1, <1>5, <2>1, <2>2
<1> HIDE DEF Old
<1>6. Distinct(d)
  BY <1>1, <1>2, <1>4 DEF Distinct
<1>7. Members(d) = Members(c) \ {c[i]}
  <2>1. ASSUME NEW j \in 1 .. k - 1 PROVE d[j] \in Members(c) \ {c[i]}
    <3>1. d[j] = c[Old(j)] /\ Old(j) \in 1 .. k /\ Old(j) # i
      BY <1>2, <1>4
    <3> QED BY <1>1, <1>3, <3>1
  <2>2. ASSUME NEW j \in 1 .. k, c[j] # c[i] PROVE c[j] \in Members(d)
    <3>1. PICK l \in 1 .. k - 1 : j = Old(l)
      BY <1>5, <2>2
    <3> QED BY <1>2, <1>3, <3>1
  <2> QED BY <1>3, <2>1, <2>2
<1> QED BY <1>6, <1>7 DEF d

\* What is left of r in r2 when the entry e is out, but for the links.
Freed(r, r2, e) ==
    /\ r2 \in Rings /\ r2.live = r.live \ {e}
    /\ \A x \in Elems \ {e} : r2.fname[x] = r.fname[x] /\ r2.freq[x] = r.freq[x]

\* free of the only entry.
LEMMA EmptiedIs ==
    ASSUME NEW r \in Rings, NEW e \in Elems,
           NEW r2, r2 = [Ring!free(r, e) EXCEPT !.head = Ring!Null, !.tail = Ring!Null]
    PROVE  Freed(r, r2, e) /\ r2.head = Ring!Null
<1> DEFINE nx2 == [r.next EXCEPT ![e] = Ring!Null]
           pv2 == [r.prev EXCEPT ![e] = Ring!Null]
           fn2 == [r.fname EXCEPT ![e] = Ring!Null]
           fr2 == [r.freq EXCEPT ![e] = 0]
           lv == r.live \ {e}
           g == [r EXCEPT !.live = lv, !.next = nx2, !.prev = pv2, !.fname = fn2, !.freq = fr2]
<1>1. /\ nx2 \in [Elems -> Elems \cup {Ring!Null}] /\ pv2 \in [Elems -> Elems \cup {Ring!Null}]
      /\ fn2 \in [Elems -> Names \cup {Ring!Null}] /\ fr2 \in [Elems -> Nat] /\ lv \in SUBSET Elems
      /\ \A x \in Elems \ {e} : fn2[x] = r.fname[x] /\ fr2[x] = r.freq[x]
  BY DEF Rings
<1>2. Ring!free(r, e) = g
  BY DEF Rings, Ring!free
<1> HIDE DEF nx2, pv2, fn2, fr2, lv
<1>3. g \in Rings /\ g.fname = fn2 /\ g.freq = fr2 /\ g.live = lv
  BY <1>1 DEF Rings
<1> HIDE DEF g
<1>4. /\ r2 \in Rings /\ r2.fname = g.fname /\ r2.freq = g.freq /\ r2.live = g.live
      /\ r2.head = Ring!Null
  BY <1>2, <1>3 DEF Rings
<1> QED BY <1>1, <1>3, <1>4 DEF Freed, lv

\* g is r with the head and the tail that stay when the i-th entry leaves r.
Shortened(r, c, i, r2, g) ==
    /\ r2 = Ring!free(Ring!remque(g, c[i]), c[i])
    /\ g.next = r.next /\ g.prev = r.prev /\ g.fname = r.fname /\ g.freq = r.freq /\ g.live = r.live
    /\ g.head = IF i = 1 THEN c[2] ELSE r.head
    /\ g.tail = IF i = Len(c) THEN c[Len(c) - 1] ELSE r.tail

\* The i-th entry of a ring is taken out: what is left is a ring.
LEMMA RemovedIs ==
    ASSUME NEW r \in Rings, NEW c, IsRing(r, c), NEW i \in 1 .. Len(c), NEW r2,
           i = 1 => r2 = Ring!remqueHead(r),
           i # 1 /\ i = Len(c) => r2 = Ring!free(Ring!remque([r EXCEPT !.tail = r.prev[c[i]]], c[i]), c[i]),
           i # 1 /\ i # Len(c) => r2 = Ring!free(Ring!remque(r, c[i]), c[i])
    PROVE  IsRing(r2, RemoveAt(c, i)) /\ Freed(r, r2, c[i])
<1> DEFINE k == Len(c)
           e == c[i]
           d == RemoveAt(c, i)
<1>1. /\ c \in Seq(Elems) /\ k \in Nat /\ i \in 1 .. k
      /\ \A j \in 1 .. k : c[j] \in Elems
      /\ \A j, l \in 1 .. k : c[j] = c[l] => j = l
      /\ \A j \in 1 .. k : r.next[c[j]] = c[Behind(k, j)] /\ r.prev[c[Behind(k, j)]] = c[j]
      /\ r.head = c[1] /\ r.tail = c[k]
  <2>1. /\ c \in Seq(Elems) /\ Distinct(c) /\ Links(r.next, r.prev, c)
        /\ IF k = 0 THEN r.head = Ring!Null ELSE r.head = c[1] /\ r.tail = c[k]
    BY DEF IsRing
  <2>2. k \in Nat /\ \A j \in 1 .. k : c[j] \in Elems
    BY <2>1, LenProperties, ElementOfSeq
  <2>3. k # 0
    BY <2>2
  <2> QED BY <2>1, <2>2, <2>3 DEF Distinct, Links
<1>2. /\ d \in Seq(Elems) /\ Len(d) = k - 1 /\ Distinct(d)
      /\ \A j \in 1 .. k - 1 : d[j] = IF j < i THEN c[j] ELSE c[j + 1]
  <2>1. c \in Seq(Elems) /\ Distinct(c)
    BY DEF IsRing
  <2> QED BY <2>1, RemoveIs, OutIs
<1>3. e \in Elems
  BY <1>1
<1>3a. /\ i = 1 => r2 = Ring!remqueHead(r)
       /\ i # 1 /\ i = k => r2 = Ring!free(Ring!remque([r EXCEPT !.tail = r.prev[e]], e), e)
       /\ i # 1 /\ i # k => r2 = Ring!free(Ring!remque(r, e), e)
  OBVIOUS
<1>3b. e = c[i]
  OBVIOUS
<1> HIDE DEF d, k, e
<1>4. CASE k = 1
  <2>1. i = 1 /\ r.next[r.head] = r.head /\ r.head = e
    BY <1>1, <1>3b, <1>4 DEF Behind
  <2>2. r2 = [Ring!free(r, e) EXCEPT !.head = Ring!Null, !.tail = Ring!Null]
    BY <1>3a, <2>1 DEF Ring!remqueHead
  <2>3. Freed(r, r2, e) /\ r2.head = Ring!Null
    BY <1>3, <2>2, EmptiedIs
  <2>4. Links(r2.next, r2.prev, d)
    BY <1>2, <1>4 DEF Links
  <2> QED BY <1>2, <1>4, <2>3, <2>4 DEF IsRing, d, e
<1>5. CASE k > 1
  <2>1. /\ r.next \in [Elems -> Elems \cup {Ring!Null}] /\ r.prev \in [Elems -> Elems \cup {Ring!Null}]
    BY DEF Rings
  <2>2. r.next[e] \in Elems /\ r.prev[e] \in Elems /\ (i = k => r.prev[e] = c[k - 1]) /\ (i = 1 => r.next[e] = c[2])
    <3>1. /\ Behind(k, i) \in 1 .. k /\ Before(k, i) \in 1 .. k /\ Behind(k, Before(k, i)) = i
          /\ i = k => Before(k, i) = k - 1
          /\ i = 1 => Behind(k, i) = 2
      BY <1>1, <1>5 DEF Behind, Before
    <3> QED BY <1>1, <1>3b, <3>1
  <2>3. \E g : g \in Rings /\ Shortened(r, c, i, r2, g)
    <3>1. CASE i = 1
      <4> DEFINE g == [r EXCEPT !.head = r.next[e]]
      <4>1. r.head = e /\ r.next[e] # e
        <5>1. c[2] # c[1]
          BY <1>1, <1>5
        <5> QED BY <1>1, <1>3b, <2>2, <3>1, <5>1
      <4>2. r2 = Ring!free(Ring!remque(g, e), e)
        BY <1>3a, <3>1, <4>1 DEF Ring!remqueHead
      <4>3. /\ g \in Rings /\ g.next = r.next /\ g.prev = r.prev /\ g.fname = r.fname /\ g.freq = r.freq
            /\ g.live = r.live /\ g.head = r.next[e] /\ g.tail = r.tail
        BY <2>2 DEF Rings
      <4> HIDE DEF g
      <4>4. i # k
        BY <1>5, <3>1
      <4>5. g.head = IF i = 1 THEN c[2] ELSE r.head
        BY <2>2, <3>1, <4>3
      <4>6. g.tail = IF i = k THEN c[k - 1] ELSE r.tail
        BY <4>3, <4>4
      <4>7. Shortened(r, c, i, r2, g)
        BY <4>2, <4>3, <4>5, <4>6 DEF Shortened, k, e
      <4> QED BY <4>3, <4>7
    <3>2. CASE i # 1 /\ i = k
      <4> DEFINE g == [r EXCEPT !.tail = r.prev[e]]
      <4>1. r2 = Ring!free(Ring!remque(g, e), e)
        BY <1>3a, <3>2
      <4>2. /\ g \in Rings /\ g.next = r.next /\ g.prev = r.prev /\ g.fname = r.fname /\ g.freq = r.freq
            /\ g.live = r.live /\ g.head = r.head /\ g.tail = r.prev[e]
        BY <2>2 DEF Rings
      <4> HIDE DEF g
      <4>3. g.head = IF i = 1 THEN c[2] ELSE r.head
        BY <3>2, <4>2
      <4>4. g.tail = IF i = k THEN c[k - 1] ELSE r.tail
        BY <2>2, <3>2, <4>2
      <4>5. Shortened(r, c, i, r2, g)
        BY <4>1, <4>2, <4>3, <4>4 DEF Shortened, k, e
      <4> QED BY <4>2, <4>5
    <3>3. CASE i # 1 /\ i # k
      <4>1. r2 = Ring!free(Ring!remque(r, e), e)
        BY <1>3a, <3>3
      <4>2. Shortened(r, c, i, r2, r)
        BY <3>3, <4>1 DEF Shortened, k, e
      <4> QED BY <4>2
    <3> QED BY <3>1, <3>2, <3>3
  <2>4. PICK g \in Rings : Shortened(r, c, i, r2, g)
    BY <2>3
  <2>5. Passed(g, r2, e) /\ r2.head = g.head /\ r2.tail = g.tail
    BY <1>3, <2>2, <2>4, PassedIs DEF Shortened, e
  <2>6. Freed(r, r2, e)
    BY <2>4, <2>5 DEF Passed, Freed, Shortened
  <2>7. /\ \A x \in Elems \ {e} : r2.next[x] = IF x = r.prev[e] THEN r.next[e] ELSE r.next[x]
        /\ \A x \in Elems \ {e} : r2.prev[x] = IF x = r.next[e] THEN r.prev[e] ELSE r.prev[x]
    BY <2>4, <2>5 DEF Passed, Shortened
  <2>8. Links(r2.next, r2.prev, d)
    <3>1. c \in Seq(Elems) /\ Distinct(c) /\ Links(r.next, r.prev, c)
      BY DEF IsRing
    <3>2. Len(c) > 1
      BY <1>5 DEF k
    <3> QED BY <1>3b, <2>1, <2>7, <3>1, <3>2, Unlinked DEF d, e
  <2>9. Len(d) # 0 /\ r2.head = d[1] /\ r2.tail = d[Len(d)]
    <3>1. d[1] = IF i = 1 THEN c[2] ELSE c[1]
      BY <1>1, <1>2, <1>5
    <3>2. d[k - 1] = IF i = k THEN c[k - 1] ELSE c[k]
      BY <1>1, <1>2, <1>5
    <3>3. r2.head = IF i = 1 THEN c[2] ELSE c[1]
      BY <1>1, <2>4, <2>5 DEF Shortened
    <3>4. r2.tail = IF i = k THEN c[k - 1] ELSE c[k]
      BY <1>1, <2>4, <2>5 DEF Shortened, k
    <3>5. k - 1 # 0
      BY <1>1, <1>5
    <3> QED BY <1>2, <3>1, <3>2, <3>3, <3>4, <3>5
  <2> QED BY <1>2, <2>6, <2>8, <2>9 DEF IsRing, d, e
<1>6. k = 1 \/ k > 1
  BY <1>1
<1> QED BY <1>4, <1>5, <1>6
-----------------------------------------------------------------------------
(* What is in a ring. *)

Noted == [fname : Names \cup {Ring!Null}, freq : Nat]

\* s tells what the entries c of r are.
Tells(s, r, c) ==
    /\ s \in Seq(Noted) /\ Len(s) = Len(c)
    /\ \A i \in 1 .. Len(c) : s[i].fname = r.fname[c[i]] /\ s[i].freq = r.freq[c[i]]

\* Contents tells it.
LEMMA ContentsIs ==
    ASSUME NEW r \in Rings, NEW c, IsRing(r, c)
    PROVE  Tells(Ring!Contents(r), r, c)
<1> DEFINE k == Len(c)
           s == [i \in 1 .. k |-> [fname |-> r.fname[c[i]], freq |-> r.freq[c[i]]]]
<1>1. /\ c \in Seq(Elems) /\ k \in Nat /\ DOMAIN c = 1 .. k /\ \A i \in 1 .. k : c[i] \in Elems
  <2>1. c \in Seq(Elems)
    BY DEF IsRing
  <2> QED BY <2>1, LenProperties, ElementOfSeq
<1>2. Ring!Contents(r) = s
  <2>1. Ring!Walk(r) = c
    BY WalkIs
  <2> QED BY <1>1, <2>1 DEF Ring!Contents
<1>3. r.fname \in [Elems -> Names \cup {Ring!Null}] /\ r.freq \in [Elems -> Nat]
  BY DEF Rings
<1>4. \A i \in 1 .. k : s[i] \in Noted /\ s[i].fname = r.fname[c[i]] /\ s[i].freq = r.freq[c[i]]
  BY <1>1, <1>3 DEF Noted
<1>5. s \in Seq(Noted) /\ Len(s) = k
  <2>1. s \in [1 .. k -> Noted]
    BY <1>4
  <2> HIDE DEF s, k
  <2> QED BY <1>1, <2>1, SeqDef, LenProperties
<1> QED BY <1>2, <1>4, <1>5 DEF Tells

\* One thing is told of a ring.
LEMMA TellsOne ==
    ASSUME NEW r, NEW c, NEW s, NEW t, Tells(s, r, c), Tells(t, r, c)
    PROVE  s = t
<1>1. \A x, y \in Noted : x.fname = y.fname /\ x.freq = y.freq => x = y
  BY DEF Noted
<1>2. s \in Seq(Noted) /\ t \in Seq(Noted) /\ Len(s) = Len(t)
  BY DEF Tells
<1>3. \A i \in 1 .. Len(s) : s[i] \in Noted /\ t[i] \in Noted
  BY <1>2, ElementOfSeq
<1>4. \A i \in 1 .. Len(s) : s[i] = t[i]
  BY <1>1, <1>2, <1>3 DEF Tells
<1> QED BY <1>2, <1>4, SeqEqual

\* The place of a name is a place in the sequence.
LEMMA PlaceIs ==
    ASSUME NEW S, NEW s \in Seq(S), NEW n
    PROVE  At(s, n) \in 0 .. Len(s)
<1> DEFINE I == {i \in 1 .. Len(s) : s[i].fname = n}
<1>1. At(s, n) = IF I # {} THEN Min(I) ELSE 0
  BY DEF At, SelectInSeq
<1>2. I \in SUBSET Nat /\ Len(s) \in Nat
  BY LenProperties
<1>3. I # {} => Min(I) \in I
  <2> HIDE DEF I
  <2> QED BY <1>2, MinIs
<1>4. I # {} => Min(I) \in 1 .. Len(s)
  BY <1>3
<1> HIDE DEF I
<1>5. At(s, n) = 0 \/ At(s, n) \in 1 .. Len(s)
  BY <1>1, <1>4
<1> QED BY <1>2, <1>5

\* findelem finds the entry that At finds.
LEMMA FoundIs ==
    ASSUME NEW r \in Rings, NEW c, IsRing(r, c), NEW n
    PROVE  /\ At(Ring!Contents(r), n) \in 0 .. Len(c)
           /\ Ring!findelem(r, n) = IF At(Ring!Contents(r), n) = 0 THEN Ring!Null
                                    ELSE c[At(Ring!Contents(r), n)]
<1> DEFINE s == Ring!Contents(r)
           I == {i \in 1 .. Len(s) : s[i].fname = n}
           J == {i \in 1 .. Len(c) : r.fname[c[i]] = n}
<1>1. Tells(s, r, c) /\ Ring!Walk(r) = c
  BY ContentsIs, WalkIs
<1> HIDE DEF s
<1>2. At(s, n) = IF I # {} THEN Min(I) ELSE 0
  BY DEF At, SelectInSeq
<1>3. Ring!findelem(r, n) = LET i == IF J # {} THEN Ring!Min(J) ELSE 0
                            IN IF i = 0 THEN Ring!Null ELSE c[i]
  BY <1>1 DEF Ring!findelem, Ring!SelectInSeq
<1>4. I = J
  BY <1>1 DEF Tells
<1>5. Ring!Min(J) = Min(J)
  BY RingHas
<1>6. At(s, n) \in 0 .. Len(s)
  BY <1>1, PlaceIs DEF Tells
<1>7. Len(s) = Len(c)
  BY <1>1 DEF Tells
<1> HIDE DEF I, J
<1> QED BY <1>2, <1>3, <1>4, <1>5, <1>6, <1>7 DEF s

\* The ring r2 of d is the ring r of c, but for what was taken out.
Dropped(r, c, r2, d) ==
    /\ r2 \in Rings /\ IsRing(r2, d) /\ Members(d) \subseteq Members(c)
    /\ r2.live = r.live \ (Members(c) \ Members(d))
    /\ \A x \in Elems \ Members(c) : r2.fname[x] = r.fname[x] /\ r2.freq[x] = r.freq[x]

\* An entry less in the ring is one less in what it tells.
LEMMA DroppedIs ==
    ASSUME NEW r \in Rings, NEW c, IsRing(r, c), NEW i \in 1 .. Len(c), NEW r2,
           IsRing(r2, RemoveAt(c, i)), Freed(r, r2, c[i])
    PROVE  /\ Dropped(r, c, r2, RemoveAt(c, i))
           /\ Ring!Contents(r2) = RemoveAt(Ring!Contents(r), i)
<1> DEFINE k == Len(c)
           d == RemoveAt(c, i)
           s == Ring!Contents(r)
           t == Ring!Contents(r2)
           u == RemoveAt(s, i)
           Old(j) == IF j < i THEN j ELSE j + 1
<1>1. /\ c \in Seq(Elems) /\ Distinct(c) /\ k \in Nat /\ i \in 1 .. k
      /\ \A j \in 1 .. k : c[j] \in Elems
      /\ \A j, l \in 1 .. k : c[j] = c[l] => j = l
  <2>1. c \in Seq(Elems) /\ Distinct(c)
    BY DEF IsRing
  <2> QED BY <2>1, LenProperties, ElementOfSeq DEF Distinct
<1>2. Dropped(r, c, r2, d)
  <2>1. Members(d) = Members(c) \ {c[i]} /\ c[i] \in Members(c)
    BY <1>1, OutIs DEF Members
  <2>2. r2 \in Rings /\ r2.live = r.live \ {c[i]}
    BY DEF Freed
  <2>3. \A x \in Elems \ Members(c) : r2.fname[x] = r.fname[x] /\ r2.freq[x] = r.freq[x]
    BY <2>1 DEF Freed
  <2> HIDE DEF d
  <2> QED BY <2>1, <2>2, <2>3 DEF Dropped, d
<1>3. Tells(s, r, c) /\ Tells(t, r2, d)
  BY <1>2, ContentsIs DEF Dropped
<1>4. /\ Len(d) = k - 1 /\ \A j \in 1 .. k - 1 : d[j] = c[Old(j)]
  <2>1. Len(d) = k - 1 /\ \A j \in 1 .. k - 1 : d[j] = IF j < i THEN c[j] ELSE c[j + 1]
    BY <1>1, RemoveIs
  <2> HIDE DEF d
  <2> QED BY <2>1
<1>5. /\ u \in Seq(Noted) /\ Len(u) = k - 1 /\ \A j \in 1 .. k - 1 : u[j] = s[Old(j)]
  <2>1. s \in Seq(Noted) /\ Len(s) = k
    BY <1>3 DEF Tells
  <2>2. u \in Seq(Noted) /\ Len(u) = Len(s) - 1 /\ \A j \in 1 .. Len(s) - 1 : u[j] = IF j < i THEN s[j] ELSE s[j + 1]
    BY <2>1, RemoveIs
  <2> HIDE DEF u, s, k
  <2> QED BY <2>1, <2>2
<1> HIDE DEF d, s, t, u, k
<1>6. \A j \in 1 .. k - 1 : Old(j) \in 1 .. k /\ Old(j) # i
  BY <1>1
<1> HIDE DEF Old
<1>7. Tells(u, r2, d)
  <2> SUFFICES ASSUME NEW j \in 1 .. k - 1
               PROVE  u[j].fname = r2.fname[d[j]] /\ u[j].freq = r2.freq[d[j]]
    BY <1>4, <1>5 DEF Tells
  <2>1. Old(j) \in 1 .. k /\ Old(j) # i /\ u[j] = s[Old(j)] /\ d[j] = c[Old(j)]
    BY <1>4, <1>5, <1>6
  <2>2. s[Old(j)].fname = r.fname[c[Old(j)]] /\ s[Old(j)].freq = r.freq[c[Old(j)]]
    BY <1>3, <2>1 DEF Tells, k
  <2>3. c[Old(j)] \in Elems \ {c[i]}
    BY <1>1, <2>1
  <2>4. r2.fname[c[Old(j)]] = r.fname[c[Old(j)]] /\ r2.freq[c[Old(j)]] = r.freq[c[Old(j)]]
    BY <2>3 DEF Freed
  <2> QED BY <2>1, <2>2, <2>4
<1>8. t = u
  BY <1>3, <1>7, TellsOne
<1> QED BY <1>2, <1>8 DEF d, s, t, u

\* rmelem takes out the first entry of the name.
LEMMA RmelemIs ==
    ASSUME NEW r \in Rings, NEW c, IsRing(r, c), NEW n
    PROVE  /\ Ring!Contents(Ring!rmelem(r, n)) = Without(Ring!Contents(r), n)
           /\ \E d : Dropped(r, c, Ring!rmelem(r, n), d)
<1> DEFINE s == Ring!Contents(r)
           i == At(s, n)
           e == Ring!findelem(r, n)
           r2 == Ring!rmelem(r, n)
<1>1. i \in 0 .. Len(c) /\ e = IF i = 0 THEN Ring!Null ELSE c[i]
  BY FoundIs
<1>2. r2 = CASE e = Ring!Null -> r
             [] e # Ring!Null /\ e = r.head -> Ring!remqueHead(r)
             [] e \notin {Ring!Null, r.head} /\ e = r.tail
                     -> Ring!free(Ring!remque([r EXCEPT !.tail = r.prev[e]], e), e)
             [] e \notin {Ring!Null, r.head, r.tail} -> Ring!free(Ring!remque(r, e), e)
  BY DEF Ring!rmelem
<1>2a. Without(s, n) = IF i = 0 THEN s ELSE RemoveAt(s, i)
  BY DEF Without
<1> HIDE DEF r2, e, i, s
<1>3. CASE i = 0
  <2>1. r2 = r
    BY <1>1, <1>2, <1>3
  <2>2. Dropped(r, c, r, c)
    <3>1. r.live = r.live \ (Members(c) \ Members(c))
      OBVIOUS
    <3> QED BY <3>1 DEF Dropped
  <2> QED BY <1>2a, <1>3, <2>1, <2>2 DEF r2, s
<1>4. CASE i # 0
  <2>1. /\ i \in 1 .. Len(c) /\ e = c[i] /\ e # Ring!Null /\ Len(c) \in Nat
        /\ (e = r.head <=> i = 1) /\ (e = r.tail <=> i = Len(c))
    <3>1. c \in Seq(Elems) /\ Distinct(c) /\ IF Len(c) = 0 THEN r.head = Ring!Null ELSE r.head = c[1] /\ r.tail = c[Len(c)]
      BY DEF IsRing
    <3>2. Len(c) \in Nat /\ \A j \in 1 .. Len(c) : c[j] \in Elems
      BY <3>1, LenProperties, ElementOfSeq
    <3>3. i \in 1 .. Len(c) /\ e = c[i]
      BY <1>1, <1>4
    <3> QED BY <3>1, <3>2, <3>3, NoEntry DEF Distinct
  <2>2. /\ i = 1 => r2 = Ring!remqueHead(r)
        /\ i # 1 /\ i = Len(c) => r2 = Ring!free(Ring!remque([r EXCEPT !.tail = r.prev[c[i]]], c[i]), c[i])
        /\ i # 1 /\ i # Len(c) => r2 = Ring!free(Ring!remque(r, c[i]), c[i])
    <3>1. CASE i = 1
      BY <1>2, <2>1, <3>1
    <3>2. CASE i # 1 /\ i = Len(c)
      BY <1>2, <2>1, <3>2
    <3>3. CASE i # 1 /\ i # Len(c)
      BY <1>2, <2>1, <3>3
    <3> QED BY <3>1, <3>2, <3>3
  <2>3. IsRing(r2, RemoveAt(c, i)) /\ Freed(r, r2, c[i])
    BY <2>1, <2>2, RemovedIs
  <2>4. Dropped(r, c, r2, RemoveAt(c, i)) /\ Ring!Contents(r2) = RemoveAt(s, i)
    BY <2>1, <2>3, DroppedIs DEF s
  <2> QED BY <1>2a, <1>4, <2>4 DEF r2, s
<1> QED BY <1>3, <1>4
-----------------------------------------------------------------------------
(* An entry comes into the ring. *)

\* r2 is r with other links, head and tail.
Relinked(r, r2) == r2 \in Rings /\ r2.fname = r.fname /\ r2.freq = r.freq /\ r2.live = r.live

\* r with another head, another tail, or both.
Headed(r, h) == [r EXCEPT !.head = h]

Tailed(r, t) == [r EXCEPT !.tail = t]

Ended(r, h, t) == [r EXCEPT !.head = h, !.tail = t]

\* e is behind x in r2, but for the head and the tail.
Spliced(r, r2, e, x) ==
    /\ Relinked(r, r2)
    /\ r2.next = [r.next EXCEPT ![e] = r.next[x], ![x] = e]
    /\ r2.prev = [r.prev EXCEPT ![e] = x, ![r.next[x]] = e]

\* insque, with the head and the tail that follow.
LEMMA InsqueIs ==
    ASSUME NEW r \in Rings, NEW e \in Elems, NEW x \in Elems, r.next[x] \in Elems,
           NEW h \in Elems, NEW t \in Elems, NEW r2,
           r2 = Ended(Ring!insque(r, e, x), h, t)
    PROVE  Spliced(r, r2, e, x) /\ r2.head = h /\ r2.tail = t
<1> DEFINE nx == [r.next EXCEPT ![e] = r.next[x], ![x] = e]
           pv == [r.prev EXCEPT ![e] = x, ![r.next[x]] = e]
           g == [r EXCEPT !.next = nx, !.prev = pv]
<1>1. nx \in [Elems -> Elems \cup {Ring!Null}] /\ pv \in [Elems -> Elems \cup {Ring!Null}]
  BY DEF Rings
<1>2. Ring!insque(r, e, x) = g
  BY DEF Rings, Ring!insque
<1> HIDE DEF nx, pv
<1>3. /\ g \in Rings /\ g.next = nx /\ g.prev = pv /\ g.fname = r.fname /\ g.freq = r.freq
      /\ g.live = r.live
  BY <1>1 DEF Rings
<1> HIDE DEF g
<1>4. /\ r2 \in Rings /\ r2.next = g.next /\ r2.prev = g.prev /\ r2.fname = g.fname /\ r2.freq = g.freq
      /\ r2.live = g.live /\ r2.head = h /\ r2.tail = t
  BY <1>2, <1>3 DEF Rings, Ended
<1> QED BY <1>3, <1>4 DEF Spliced, Relinked, nx, pv

\* The first entry of an empty ring.
LEMMA AloneIs ==
    ASSUME NEW r \in Rings, NEW e \in Elems
    PROVE  /\ Relinked(r, Ring!Alone(r, e)) /\ IsRing(Ring!Alone(r, e), <<e>>)
<1> DEFINE g == [r EXCEPT !.next = [r.next EXCEPT ![e] = e], !.prev = [r.prev EXCEPT ![e] = e]]
           r2 == Ring!Alone(r, e)
           c == <<e>>
<1>1. /\ g \in Rings /\ g.fname = r.fname /\ g.freq = r.freq /\ g.live = r.live /\ g.next[e] = e
      /\ g.next = [r.next EXCEPT ![e] = e]
  <2> DEFINE nx == [r.next EXCEPT ![e] = e]
             pv == [r.prev EXCEPT ![e] = e]
  <2>1. nx \in [Elems -> Elems \cup {Ring!Null}] /\ pv \in [Elems -> Elems \cup {Ring!Null}] /\ nx[e] = e
    BY DEF Rings
  <2> HIDE DEF nx, pv
  <2>2. [r EXCEPT !.next = nx, !.prev = pv] \in Rings
    BY <2>1 DEF Rings
  <2> QED BY <2>1, <2>2 DEF nx, pv, Rings
<1>2. r2 = Ended(Ring!insque(g, e, e), e, e)
  BY DEF Ring!Alone, Rings, Ended
<1> HIDE DEF g, r2
<1>3. /\ Relinked(g, r2) /\ r2.head = e /\ r2.tail = e
      /\ r2.next = [g.next EXCEPT ![e] = g.next[e], ![e] = e]
      /\ r2.prev = [g.prev EXCEPT ![e] = e, ![g.next[e]] = e]
  <2>1. Spliced(g, r2, e, e) /\ r2.head = e /\ r2.tail = e
    <3>1. g \in Rings /\ g.next[e] \in Elems
      BY <1>1
    <3> QED BY <1>2, <3>1, InsqueIs
  <2> QED BY <2>1 DEF Spliced
<1>4. r2.next[e] = e /\ r2.prev[e] = e
  <2>1. g.next \in [Elems -> Elems \cup {Ring!Null}] /\ g.prev \in [Elems -> Elems \cup {Ring!Null}]
    BY <1>1 DEF Rings
  <2> QED BY <1>1, <1>3, <2>1
<1>5. c \in Seq(Elems) /\ Len(c) = 1 /\ c[1] = e
  OBVIOUS
<1> HIDE DEF c
<1>6. Distinct(c) /\ Links(r2.next, r2.prev, c)
  <2>1. \A i \in 1 .. 1 : i = 1 /\ Behind(1, i) = 1
    BY DEF Behind
  <2> QED BY <1>4, <1>5, <2>1 DEF Distinct, Links
<1>7. IsRing(r2, c)
  BY <1>3, <1>5, <1>6 DEF IsRing
<1> QED BY <1>1, <1>3, <1>7 DEF Relinked, r2, c

\* What comes in is new in the sequence.
LEMMA InIs ==
    ASSUME NEW c \in Seq(Elems), Distinct(c), NEW i \in 1 .. Len(c) + 1, NEW e \in Elems \ Members(c)
    PROVE  Distinct(InsertAt(c, i, e)) /\ Members(InsertAt(c, i, e)) = Members(c) \cup {e}
<1> DEFINE k == Len(c)
           d == InsertAt(c, i, e)
<1>1. /\ k \in Nat /\ i \in 1 .. k + 1 /\ \A j, l \in 1 .. k : c[j] = c[l] => j = l
      /\ \A j \in 1 .. k : c[j] # e
  BY LenProperties DEF Distinct, Members
<1>2. Len(d) = k + 1 /\ \A j \in 1 .. k + 1 : d[j] = IF j < i THEN c[j] ELSE IF j = i THEN e ELSE c[j - 1]
  BY InsertIs
<1>3. Members(c) = {c[j] : j \in 1 .. k} /\ Members(d) = {d[j] : j \in 1 .. k + 1}
  BY <1>2 DEF Members
<1> HIDE DEF k, d
<1>4. ASSUME NEW j \in 1 .. k + 1
      PROVE  \/ j = i /\ d[j] = e
             \/ j < i /\ j \in 1 .. k /\ d[j] = c[j]
             \/ j > i /\ j - 1 \in 1 .. k /\ d[j] = c[j - 1]
  BY <1>1, <1>2
<1>5. Distinct(d)
  <2> SUFFICES ASSUME NEW j \in 1 .. k + 1, NEW l \in 1 .. k + 1, d[j] = d[l] PROVE j = l
    BY <1>2 DEF Distinct
  <2>1. CASE j = i \/ l = i
    BY <1>1, <1>4, <2>1
  <2>2. CASE j # i /\ l # i
    <3> DEFINE a == CameFrom(i, j)
               b == CameFrom(i, l)
    <3>1. a \in 1 .. k /\ d[j] = c[a]
      BY <1>4, <2>2 DEF CameFrom
    <3>2. b \in 1 .. k /\ d[l] = c[b]
      BY <1>4, <2>2 DEF CameFrom
    <3> HIDE DEF a, b
    <3>3. a = b
      BY <1>1, <3>1, <3>2
    <3>4. i \in Int /\ j \in Int /\ l \in Int
      BY <1>1
    <3>5. Same(CameFrom(i, j), CameFrom(i, l))
      BY <3>3 DEF a, b, Same
    <3>6. Same(j, l)
      BY <2>2, <3>4, <3>5, CameApart
    <3> QED BY <3>6 DEF Same
  <2> QED BY <2>1, <2>2
<1>6. Members(d) = Members(c) \cup {e}
  <2>1. Members(d) \subseteq Members(c) \cup {e}
    BY <1>3, <1>4
  <2>2. e \in Members(d)
    BY <1>1, <1>2, <1>3
  <2>3. ASSUME NEW j \in 1 .. k PROVE c[j] \in Members(d)
    <3>1. CASE j < i
      <4>1. j \in 1 .. k + 1 /\ d[j] = c[j]
        BY <1>1, <1>2, <3>1
      <4> QED BY <1>3, <4>1
    <3>2. CASE ~(j < i)
      <4>1. j + 1 \in 1 .. k + 1 /\ d[j + 1] = c[j]
        BY <1>1, <1>2, <3>2
      <4> QED BY <1>3, <4>1
    <3> QED BY <3>1, <3>2
  <2> QED BY <1>3, <2>1, <2>2, <2>3
<1> QED BY <1>5, <1>6 DEF d

\* An entry more in the ring is one more in what it tells.
LEMMA ToldMore ==
    ASSUME NEW r \in Rings, NEW c, IsRing(r, c), NEW i \in 1 .. Len(c) + 1, NEW e \in Elems, NEW r2,
           Relinked(r, r2), IsRing(r2, InsertAt(c, i, e))
    PROVE  Ring!Contents(r2) = InsertAt(Ring!Contents(r), i, [fname |-> r.fname[e], freq |-> r.freq[e]])
<1> DEFINE k == Len(c)
           d == InsertAt(c, i, e)
           s == Ring!Contents(r)
           t == Ring!Contents(r2)
           x == [fname |-> r.fname[e], freq |-> r.freq[e]]
           u == InsertAt(s, i, x)
<1>1. /\ c \in Seq(Elems) /\ k \in Nat /\ i \in 1 .. k + 1
  <2>1. c \in Seq(Elems)
    BY DEF IsRing
  <2> QED BY <2>1, LenProperties
<1>2. /\ Len(d) = k + 1
      /\ \A j \in 1 .. k + 1 : d[j] = IF j < i THEN c[j] ELSE IF j = i THEN e ELSE c[j - 1]
  BY <1>1, InsertIs
<1>3. Tells(s, r, c) /\ Tells(t, r2, d)
  BY ContentsIs DEF Relinked
<1>4. x \in Noted /\ x.fname = r.fname[e] /\ x.freq = r.freq[e]
  BY DEF Noted, Rings
<1> HIDE DEF x, s, d
<1>5. /\ u \in Seq(Noted) /\ Len(u) = k + 1
      /\ \A j \in 1 .. k + 1 : u[j] = IF j < i THEN s[j] ELSE IF j = i THEN x ELSE s[j - 1]
  <2>1. s \in Seq(Noted) /\ Len(s) = k
    BY <1>3 DEF Tells
  <2>2. i \in 1 .. Len(s) + 1
    BY <2>1
  <2>3. /\ u \in Seq(Noted) /\ Len(u) = Len(s) + 1
        /\ \A j \in 1 .. Len(s) + 1 : u[j] = IF j < i THEN s[j] ELSE IF j = i THEN x ELSE s[j - 1]
    BY <1>4, <2>1, <2>2, InsertIs
  <2> HIDE DEF u, k
  <2> QED BY <2>1, <2>3
<1>6. \A j \in 1 .. k : s[j].fname = r.fname[c[j]] /\ s[j].freq = r.freq[c[j]]
  BY <1>3 DEF Tells
<1> HIDE DEF t, u, k
<1>7. Tells(u, r2, d)
  <2> SUFFICES ASSUME NEW j \in 1 .. k + 1
               PROVE  u[j].fname = r.fname[d[j]] /\ u[j].freq = r.freq[d[j]]
    BY <1>2, <1>5 DEF Tells, Relinked
  <2>1. CASE j < i
    <3>1. j \in 1 .. k /\ u[j] = s[j] /\ d[j] = c[j]
      BY <1>1, <1>2, <1>5, <2>1
    <3> QED BY <1>6, <3>1
  <2>2. CASE j = i
    <3>1. u[j] = x /\ d[j] = e
      BY <1>1, <1>2, <1>5, <2>2
    <3> QED BY <1>4, <3>1
  <2>3. CASE j > i
    <3>1. j - 1 \in 1 .. k /\ u[j] = s[j - 1] /\ d[j] = c[j - 1]
      BY <1>1, <1>2, <1>5, <2>3
    <3> QED BY <1>6, <3>1
  <2> QED BY <1>1, <2>1, <2>2, <2>3
<1>8. t = u
  BY <1>3, <1>7, TellsOne
<1> QED BY <1>8 DEF s, t, u, x

\* What the calls do to make e the i-th entry.
Joins(r, c, i, e, r2) ==
    IF Len(c) = 0 THEN r2 = Ring!Alone(r, e)
    ELSE r2 = Ended(Ring!insque(r, e, c[IF i = 1 THEN Len(c) ELSE i - 1]),
                    IF i = 1 THEN e ELSE r.head, IF i = Len(c) + 1 THEN e ELSE r.tail)

\* What follows.
Joined(r, c, i, e, r2) ==
    /\ Relinked(r, r2) /\ IsRing(r2, InsertAt(c, i, e))
    /\ Ring!Contents(r2) = InsertAt(Ring!Contents(r), i, [fname |-> r.fname[e], freq |-> r.freq[e]])

\* The entry e comes in as the i-th: there is a ring again.
LEMMA PutInIs ==
    ASSUME NEW r \in Rings, NEW c, IsRing(r, c), NEW i \in 1 .. Len(c) + 1, NEW e \in Elems \ Members(c), NEW r2,
           Joins(r, c, i, e, r2)
    PROVE  Joined(r, c, i, e, r2)
<1> DEFINE k == Len(c)
           d == InsertAt(c, i, e)
           x == c[IF i = 1 THEN k ELSE i - 1]
           h == IF i = 1 THEN e ELSE r.head
           t == IF i = k + 1 THEN e ELSE r.tail
<1>1. /\ c \in Seq(Elems) /\ Distinct(c) /\ k \in Nat /\ i \in 1 .. k + 1
      /\ \A j \in 1 .. k : c[j] \in Elems
      /\ k # 0 => r.head = c[1] /\ r.tail = c[k]
  <2>1. c \in Seq(Elems) /\ Distinct(c) /\ (k # 0 => r.head = c[1] /\ r.tail = c[k])
    BY DEF IsRing
  <2> QED BY <2>1, LenProperties, ElementOfSeq
<1>2. /\ d \in Seq(Elems) /\ Len(d) = k + 1 /\ Distinct(d)
      /\ \A j \in 1 .. k + 1 : d[j] = IF j < i THEN c[j] ELSE IF j = i THEN e ELSE c[j - 1]
  BY <1>1, InsertIs, InIs
<1>3. ASSUME k = 0 PROVE Relinked(r, r2) /\ IsRing(r2, d)
  <2> DEFINE u == <<e>>
  <2>1. u \in Seq(Elems) /\ Len(u) = 1 /\ u[1] = e
    OBVIOUS
  <2>2. Relinked(r, r2) /\ IsRing(r2, u)
    <3>1. r2 = Ring!Alone(r, e)
      BY <1>3 DEF Joins
    <3> QED BY <3>1, AloneIs
  <2>3. d = u
    <3>1. Len(d) = 1 /\ d[1] = e
      BY <1>1, <1>2, <1>3
    <3> HIDE DEF d, u
    <3>2. \A j \in 1 .. Len(d) : d[j] = u[j]
      BY <2>1, <3>1
    <3> QED BY <1>2, <2>1, <3>1, <3>2, SeqEqual
  <2> QED BY <2>2, <2>3
<1>4. ASSUME k # 0 PROVE Relinked(r, r2) /\ IsRing(r2, d)
  <2> DEFINE a == IF i = 1 THEN k ELSE i - 1
  <2>1. a \in 1 .. k /\ 1 \in 1 .. k /\ k \in 1 .. k
    BY <1>1, <1>4
  <2>2. x \in Elems /\ h \in Elems /\ t \in Elems
    BY <1>1, <1>4, <2>1
  <2>3. r.next[x] \in Elems
    <3>1. Links(r.next, r.prev, c)
      BY DEF IsRing
    <3>2. Behind(k, a) \in 1 .. k
      BY <1>1, <2>1, AroundIs
    <3> HIDE DEF k, a
    <3> QED BY <1>1, <2>1, <3>1, <3>2 DEF Links, k, a
  <2>4. r2 = Ended(Ring!insque(r, e, x), h, t)
    BY <1>4 DEF Joins
  <2> HIDE DEF x, h, t
  <2>5. /\ Relinked(r, r2) /\ r2.head = h /\ r2.tail = t
        /\ r2.next = [r.next EXCEPT ![e] = r.next[x], ![x] = e]
        /\ r2.prev = [r.prev EXCEPT ![e] = x, ![r.next[x]] = e]
    <3>1. Spliced(r, r2, e, x) /\ r2.head = h /\ r2.tail = t
      BY <2>2, <2>3, <2>4, InsqueIs
    <3> QED BY <3>1 DEF Spliced
  <2>6. Links(r2.next, r2.prev, d)
    <3>1. /\ r.next \in [Elems -> Elems \cup {Ring!Null}] /\ r.prev \in [Elems -> Elems \cup {Ring!Null}]
          /\ Links(r.next, r.prev, c) /\ Len(c) > 0
      BY <1>1, <1>4 DEF Rings, IsRing
    <3>2. x = c[IF i = 1 THEN Len(c) ELSE i - 1]
      BY DEF x
    <3>3. Links([r.next EXCEPT ![e] = r.next[x], ![x] = e], [r.prev EXCEPT ![e] = x, ![r.next[x]] = e], d)
      BY <1>1, <3>1, <3>2, Linked
    <3> QED BY <2>5, <3>3
  <2>7. h = d[1] /\ t = d[k + 1]
    BY <1>1, <1>2, <1>4 DEF h, t
  <2> QED BY <1>1, <1>2, <2>5, <2>6, <2>7 DEF IsRing
<1> HIDE DEF d
<1>5. Relinked(r, r2) /\ IsRing(r2, d)
  BY <1>3, <1>4
<1> QED BY <1>5, ToldMore DEF d, Joined
-----------------------------------------------------------------------------
(* The calls of the handlers on the ring. *)

\* Its entries are those that malloc gave and free did not take back.
Whole(r) == r \in Rings /\ \E c : IsRing(r, c) /\ Members(c) = r.live

\* What an entry outside the ring is does not matter to it.
LEMMA AlteredIs ==
    ASSUME NEW r \in Rings, NEW c, IsRing(r, c), NEW m \in Rings,
           m.next = r.next, m.prev = r.prev, m.head = r.head, m.tail = r.tail,
           \A x \in Members(c) : m.fname[x] = r.fname[x] /\ m.freq[x] = r.freq[x]
    PROVE  IsRing(m, c) /\ Ring!Contents(m) = Ring!Contents(r)
<1>1. IsRing(m, c)
  BY DEF IsRing
<1>2. Tells(Ring!Contents(m), m, c) /\ Tells(Ring!Contents(r), r, c)
  BY <1>1, ContentsIs
<1>3. Tells(Ring!Contents(r), m, c)
  BY <1>2 DEF Tells, Members
<1> QED BY <1>1, <1>2, <1>3, TellsOne

\* Before e comes into the ring of r, what had its name is taken out.
Cleared(r, m, s, e, n) ==
    \E d : /\ s \in Rings /\ IsRing(s, d) /\ e \notin Members(d) /\ s.live = Members(d) \cup {e}
           /\ s.fname[e] = n /\ s.freq[e] = m.freq[e]
           /\ Ring!Contents(s) = Without(Ring!Contents(r), n)

\* rmelem clears it.
LEMMA ClearedIs ==
    ASSUME NEW r \in Rings, NEW c, IsRing(r, c), Members(c) = r.live, NEW e \in Elems \ r.live, NEW n,
           NEW m \in Rings, IsRing(m, c), Ring!Contents(m) = Ring!Contents(r),
           m.live = r.live \cup {e}, m.fname[e] = n
    PROVE  Cleared(r, m, Ring!rmelem(m, n), e, n)
<1> DEFINE s == Ring!rmelem(m, n)
<1>1. Ring!Contents(s) = Without(Ring!Contents(r), n)
  BY RmelemIs
<1>2. PICK d : Dropped(m, c, s, d)
  BY RmelemIs
<1> HIDE DEF s
<1>3. /\ s \in Rings /\ IsRing(s, d) /\ Members(d) \subseteq Members(c)
      /\ s.live = (r.live \cup {e}) \ (Members(c) \ Members(d))
      /\ s.fname[e] = m.fname[e] /\ s.freq[e] = m.freq[e]
  BY <1>2 DEF Dropped
<1>4. e \notin Members(d) /\ s.live = Members(d) \cup {e}
  BY <1>3
<1> QED BY <1>1, <1>3, <1>4 DEF Cleared, s

\* The head and the tail are there to be kept.
LEMMA EndsKept ==
    ASSUME NEW r \in Rings, NEW e, NEW x, NEW y
    PROVE  /\ Tailed(Ring!insque(r, e, x), y) = Ended(Ring!insque(r, e, x), r.head, y)
           /\ Headed(Ring!insque(r, e, x), y) = Ended(Ring!insque(r, e, x), y, r.tail)
<1> DEFINE nx == [r.next EXCEPT ![e] = r.next[x], ![x] = e]
           pv == [r.prev EXCEPT ![e] = x, ![r.next[x]] = e]
<1>1. Ring!insque(r, e, x) = [r EXCEPT !.next = nx, !.prev = pv]
  BY DEF Rings, Ring!insque
<1> HIDE DEF nx, pv
<1> QED BY <1>1 DEF Rings, Ended, Headed, Tailed

\* And then e comes in as the i-th.
LEMMA ComesIn ==
    ASSUME NEW s \in Rings, NEW d, IsRing(s, d), NEW e \in Elems \ Members(d), s.live = Members(d) \cup {e},
           NEW i \in 1 .. Len(d) + 1, NEW r2, Joins(s, d, i, e, r2)
    PROVE  /\ Whole(r2)
           /\ Ring!Contents(r2) = InsertAt(Ring!Contents(s), i, [fname |-> s.fname[e], freq |-> s.freq[e]])
<1>1. /\ Relinked(s, r2) /\ IsRing(r2, InsertAt(d, i, e))
      /\ Ring!Contents(r2) = InsertAt(Ring!Contents(s), i, [fname |-> s.fname[e], freq |-> s.freq[e]])
  <2>1. Joined(s, d, i, e, r2)
    BY PutInIs
  <2> QED BY <2>1 DEF Joined
<1>2. d \in Seq(Elems) /\ Distinct(d)
  BY DEF IsRing
<1>3. Members(InsertAt(d, i, e)) = r2.live
  BY <1>1, <1>2, InIs DEF Relinked
<1> QED BY <1>1, <1>3 DEF Whole, Relinked

\* Every entry that may be taken is one that malloc may give.
LEMMA MallocIs ==
    ASSUME NEW r \in Rings, NEW c, IsRing(r, c), Members(c) = r.live, NEW e \in Elems \ r.live,
           NEW n \in Names, NEW f \in Nat, NEW m, m = Ring!malloc(r, e, n, f)
    PROVE  /\ m \in Rings /\ IsRing(m, c) /\ Ring!Contents(m) = Ring!Contents(r)
           /\ m.live = r.live \cup {e} /\ m.fname[e] = n /\ m.freq[e] = f
<1> DEFINE lv == r.live \cup {e}
           fn == [r.fname EXCEPT ![e] = n]
           fr == [r.freq EXCEPT ![e] = f]
<1>1. /\ lv \in SUBSET Elems /\ fn \in [Elems -> Names \cup {Ring!Null}] /\ fr \in [Elems -> Nat]
      /\ fn[e] = n /\ fr[e] = f
      /\ \A x \in Elems \ {e} : fn[x] = r.fname[x] /\ fr[x] = r.freq[x]
  BY DEF Rings
<1>2. m = [r EXCEPT !.live = lv, !.fname = fn, !.freq = fr]
  BY DEF Rings, Ring!malloc
<1> HIDE DEF lv, fn, fr
<1>3. /\ m \in Rings /\ m.live = lv /\ m.fname = fn /\ m.freq = fr
      /\ m.next = r.next /\ m.prev = r.prev /\ m.head = r.head /\ m.tail = r.tail
  BY <1>1, <1>2 DEF Rings
<1>4. \A x \in Members(c) : x \in Elems \ {e}
  BY DEF Rings
<1>5. IsRing(m, c) /\ Ring!Contents(m) = Ring!Contents(r)
  BY <1>1, <1>3, <1>4, AlteredIs
<1> QED BY <1>1, <1>3, <1>5 DEF lv

\* insque_lru puts a file that is used at the end.
LEMMA LruIs ==
    ASSUME NEW r, Whole(r), NEW e \in Elems \ r.live, NEW n \in Names
    PROVE  LET r2 == Ring!insque_lru(Ring!malloc(r, e, n, 0), e)
           IN Whole(r2) /\ Ring!Contents(r2) = Used(Ring!Contents(r), n)
<1> DEFINE m == Ring!malloc(r, e, n, 0)
           s == Ring!rmelem(m, n)
           r2 == Ring!insque_lru(m, e)
           w == Without(Ring!Contents(r), n)
           x == [fname |-> n, freq |-> 0]
<1>1. PICK c : r \in Rings /\ IsRing(r, c) /\ Members(c) = r.live
  BY DEF Whole
<1>2. /\ m \in Rings /\ IsRing(m, c) /\ Ring!Contents(m) = Ring!Contents(r)
      /\ m.live = r.live \cup {e} /\ m.fname[e] = n /\ m.freq[e] = 0
  <2>1. 0 \in Nat
    OBVIOUS
  <2> QED BY <1>1, <2>1, MallocIs
<1>3. r2 = IF s.head = Ring!Null THEN Ring!Alone(s, e) ELSE Tailed(Ring!insque(s, e, s.tail), e)
  BY <1>2 DEF Ring!insque_lru, Tailed
<1> HIDE DEF m, r2
<1>4. Cleared(r, m, s, e, n)
  BY <1>1, <1>2, ClearedIs
<1> HIDE DEF s, w, x
<1>5. PICK d : /\ s \in Rings /\ IsRing(s, d) /\ e \notin Members(d) /\ s.live = Members(d) \cup {e}
               /\ s.fname[e] = n /\ s.freq[e] = 0 /\ Ring!Contents(s) = w
  BY <1>2, <1>4 DEF Cleared, w
<1>6. /\ Len(d) \in Nat /\ (s.head = Ring!Null <=> Len(d) = 0)
      /\ Len(d) # 0 => s.tail = d[Len(d)]
  <2>1. d \in Seq(Elems) /\ IF Len(d) = 0 THEN s.head = Ring!Null ELSE s.head = d[1] /\ s.tail = d[Len(d)]
    BY <1>5 DEF IsRing
  <2>2. Len(d) \in Nat /\ (Len(d) # 0 => d[1] \in Elems)
    BY <2>1, LenProperties, ElementOfSeq
  <2> QED BY <2>1, <2>2, NoEntry
<1> DEFINE i == Len(d) + 1
<1>7. i \in 1 .. Len(d) + 1 /\ (Len(d) # 0 => i # 1 /\ i - 1 = Len(d))
  BY <1>6
<1>8. Joins(s, d, i, e, r2)
  <2>1. CASE Len(d) = 0
    BY <1>3, <1>6, <2>1 DEF Joins
  <2>2. CASE Len(d) # 0
    <3>1. r2 = Ended(Ring!insque(s, e, s.tail), s.head, e)
      <4>1. r2 = Tailed(Ring!insque(s, e, s.tail), e)
        BY <1>3, <1>6, <2>2
      <4> QED BY <1>5, <4>1, EndsKept
    <3>2. /\ s.tail = d[IF i = 1 THEN Len(d) ELSE i - 1] /\ s.head = IF i = 1 THEN e ELSE s.head
          /\ e = IF i = Len(d) + 1 THEN e ELSE s.tail
      BY <1>6, <1>7, <2>2
    <3> HIDE DEF i
    <3> QED BY <2>2, <3>1, <3>2 DEF Joins
  <2> QED BY <2>1, <2>2
<1> HIDE DEF i
<1>10. /\ Whole(r2)
       /\ Ring!Contents(r2) = InsertAt(Ring!Contents(s), i, [fname |-> s.fname[e], freq |-> s.freq[e]])
  BY <1>5, <1>7, <1>8, ComesIn
<1>11. Ring!Contents(r2) = InsertAt(w, i, x)
  BY <1>5, <1>10 DEF x
<1>12. w \in Seq(Noted) /\ Len(w) = Len(d) /\ x \in Noted
  <2>1. Tells(w, s, d)
    BY <1>5, ContentsIs
  <2> QED BY <2>1 DEF Tells, x, Noted
<1>13. Ring!Contents(r2) = Append(w, x)
  BY <1>11, <1>12, AppendIs DEF i
<1> QED BY <1>10, <1>13 DEF Used, r2, m, w, x

\* p is what the i-th of d comes behind, or Null.
PosOf(s, d, i, p) ==
    /\ i \in 0 .. Len(d)
    /\ p = CASE i = 0 -> s.tail [] i = 1 -> Ring!Null [] OTHER -> s.prev[d[i]]

\* get_pos_lfu finds what the entry is to come behind.
LEMMA PosIs ==
    ASSUME NEW s \in Rings, NEW d, IsRing(s, d), NEW e, NEW w, Ring!Contents(s) = w, NEW i,
           i = SelectInSeq(w, LAMBDA y : y.freq > s.freq[e])
    PROVE  PosOf(s, d, i, Ring!get_pos_lfu(s, e))
<1> DEFINE f == s.freq[e]
           I == {j \in 1 .. Len(w) : w[j].freq > f}
           J == {j \in 1 .. Len(d) : f < s.freq[d[j]]}
<1>1. Tells(w, s, d) /\ Ring!Walk(s) = d
  BY ContentsIs, WalkIs
<1>2. i = IF I # {} THEN Min(I) ELSE 0
  BY DEF SelectInSeq
<1>3. Ring!get_pos_lfu(s, e) = LET j == IF J # {} THEN Ring!Min(J) ELSE 0
                               IN CASE j = 0 -> s.tail [] j = 1 -> Ring!Null [] OTHER -> s.prev[d[j]]
  BY <1>1 DEF Ring!get_pos_lfu, Ring!SelectInSeq
<1>4. I = J
  <2>1. \A a, b : a > b <=> b < a
    OBVIOUS
  <2>2. Len(w) = Len(d) /\ \A j \in 1 .. Len(d) : w[j].freq = s.freq[d[j]]
    BY <1>1 DEF Tells
  <2> HIDE DEF f
  <2> QED BY <2>1, <2>2
<1>5. Ring!Min(J) = Min(J)
  BY RingHas
<1>6. J # {} => Min(J) \in J
  <2>1. J \in SUBSET Nat
    OBVIOUS
  <2> HIDE DEF J
  <2> QED BY <2>1, MinIs
<1>7. J \subseteq 1 .. Len(d) /\ Len(d) \in Nat
  <2>1. d \in Seq(Elems)
    BY DEF IsRing
  <2> QED BY <2>1, LenProperties
<1> HIDE DEF I, J
<1>8. i \in 0 .. Len(d)
  BY <1>2, <1>4, <1>6, <1>7
<1> QED BY <1>2, <1>3, <1>4, <1>5, <1>8 DEF PosOf

\* insque_lfu puts a file that is used before the first that was used more often.
LEMMA LfuIs ==
    ASSUME NEW r, Whole(r), NEW e \in Elems \ r.live, NEW n \in Names
    PROVE  LET r2 == Ring!insque_lfu(Ring!malloc(r, e, n, 1), e)
           IN Whole(r2) /\ Ring!Contents(r2) = Counted(Ring!Contents(r), n)
<1> DEFINE v == Ring!Contents(r)
           g == Ring!malloc(r, e, n, 1)
           u == IF At(v, n) = 0 THEN 1 ELSE v[At(v, n)].freq + 1
           m == [g EXCEPT !.freq = [g.freq EXCEPT ![e] = u]]
           s == Ring!rmelem(m, n)
           p == Ring!get_pos_lfu(s, e)
           r2 == Ring!insque_lfu(g, e)
           w == Without(v, n)
           x == [fname |-> n, freq |-> u]
<1>1. PICK c : r \in Rings /\ IsRing(r, c) /\ Members(c) = r.live
  BY DEF Whole
<1>2. /\ g \in Rings /\ IsRing(g, c) /\ Ring!Contents(g) = v
      /\ g.live = r.live \cup {e} /\ g.fname[e] = n /\ g.freq[e] = 1
  <2>1. 1 \in Nat
    OBVIOUS
  <2> QED BY <1>1, <2>1, MallocIs
<1> HIDE DEF g, v
<1>3. u \in Nat /\ u = IF Ring!findelem(g, n) = Ring!Null THEN g.freq[e] ELSE g.freq[Ring!findelem(g, n)] + 1
  <2>1. At(v, n) \in 0 .. Len(c) /\ Ring!findelem(g, n) = IF At(v, n) = 0 THEN Ring!Null ELSE c[At(v, n)]
    BY <1>2, FoundIs
  <2>2. Tells(v, g, c) /\ c \in Seq(Elems)
    BY <1>2, ContentsIs DEF IsRing
  <2>3. \A j \in 1 .. Len(c) : c[j] # Ring!Null /\ v[j].freq = g.freq[c[j]] /\ g.freq[c[j]] \in Nat
    <3>1. \A j \in 1 .. Len(c) : c[j] \in Elems
      BY <2>2, ElementOfSeq
    <3> QED BY <1>2, <2>2, <3>1, NoEntry DEF Tells, Rings
  <2>4. Len(c) \in Nat
    BY <2>2, LenProperties
  <2>5. CASE At(v, n) = 0
    BY <1>2, <2>1, <2>5
  <2>6. CASE At(v, n) # 0
    <3>1. At(v, n) \in 1 .. Len(c)
      BY <2>1, <2>4, <2>6
    <3> QED BY <2>1, <2>3, <2>6, <3>1
  <2> QED BY <2>5, <2>6
<1> HIDE DEF u
<1>4. r2 = CASE s.head = Ring!Null -> Ring!Alone(s, e)
             [] s.head # Ring!Null /\ p = Ring!Null -> Headed(Ring!insque(s, e, s.tail), e)
             [] s.head # Ring!Null /\ p # Ring!Null
                     -> Tailed(Ring!insque(s, e, p), IF p = s.tail THEN e ELSE s.tail)
  <2>1. [g EXCEPT !.freq[e] = IF Ring!findelem(g, n) = Ring!Null THEN @ ELSE g.freq[Ring!findelem(g, n)] + 1] = m
    <3> DEFINE o == IF Ring!findelem(g, n) = Ring!Null THEN g.freq[e] ELSE g.freq[Ring!findelem(g, n)] + 1
    <3>1. o = u
      BY <1>3
    <3>2. [g EXCEPT !.freq[e] = IF Ring!findelem(g, n) = Ring!Null THEN @ ELSE g.freq[Ring!findelem(g, n)] + 1]
            = [g EXCEPT !.freq = [g.freq EXCEPT ![e] = o]]
      BY <1>2 DEF Rings
    <3> QED BY <3>1, <3>2
  <2> DEFINE m3 == [g EXCEPT !.freq[e] = IF Ring!findelem(g, n) = Ring!Null THEN @ ELSE g.freq[Ring!findelem(g, n)] + 1]
             s3 == Ring!rmelem(m3, n)
  <2>2. r2 = LET p3 == Ring!get_pos_lfu(s3, e)
             IN CASE s3.head = Ring!Null -> Ring!Alone(s3, e)
                  [] s3.head # Ring!Null /\ p3 = Ring!Null -> [Ring!insque(s3, e, s3.tail) EXCEPT !.head = e]
                  [] s3.head # Ring!Null /\ p3 # Ring!Null
                     -> [Ring!insque(s3, e, p3) EXCEPT !.tail = IF p3 = s3.tail THEN e ELSE @]
    BY <1>2 DEF Ring!insque_lfu
  <2>3. s3 = s
    BY <2>1
  <2> HIDE DEF m3, s3, s
  <2>4. r2 = CASE s.head = Ring!Null -> Ring!Alone(s, e)
             [] s.head # Ring!Null /\ p = Ring!Null -> [Ring!insque(s, e, s.tail) EXCEPT !.head = e]
             [] s.head # Ring!Null /\ p # Ring!Null
                     -> [Ring!insque(s, e, p) EXCEPT !.tail = IF p = s.tail THEN e ELSE @]
    BY <2>2, <2>3
  <2> QED BY <2>4 DEF Ring!insque, Headed, Tailed
<1>5. /\ m \in Rings /\ IsRing(m, c) /\ Ring!Contents(m) = v
      /\ m.live = r.live \cup {e} /\ m.fname[e] = n /\ m.freq[e] = u
  <2> DEFINE fr == [g.freq EXCEPT ![e] = u]
  <2>1. fr \in [Elems -> Nat] /\ fr[e] = u /\ \A y \in Elems \ {e} : fr[y] = g.freq[y]
    BY <1>2, <1>3 DEF Rings
  <2>2. m = [g EXCEPT !.freq = fr]
    OBVIOUS
  <2> HIDE DEF fr, m
  <2>3. /\ m \in Rings /\ m.freq = fr /\ m.fname = g.fname /\ m.live = g.live
        /\ m.next = g.next /\ m.prev = g.prev /\ m.head = g.head /\ m.tail = g.tail
    BY <1>2, <2>1, <2>2 DEF Rings
  <2>4. \A y \in Members(c) : y \in Elems \ {e}
    BY <1>1 DEF Rings
  <2>5. IsRing(m, c) /\ Ring!Contents(m) = Ring!Contents(g)
    BY <1>2, <2>1, <2>3, <2>4, AlteredIs
  <2> QED BY <1>2, <2>1, <2>3, <2>5
<1> HIDE DEF m, r2
<1>6. Cleared(r, m, s, e, n)
  BY <1>1, <1>5, ClearedIs DEF v
<1> HIDE DEF s, w, x, p
<1>7. PICK d : /\ s \in Rings /\ IsRing(s, d) /\ e \notin Members(d) /\ s.live = Members(d) \cup {e}
               /\ s.fname[e] = n /\ s.freq[e] = u /\ Ring!Contents(s) = w
  BY <1>5, <1>6 DEF Cleared, v, w
<1> DEFINE k == Len(d)
           j == SelectInSeq(w, LAMBDA y : y.freq > u)
           i == IF j = 0 THEN k + 1 ELSE j
<1>8. /\ k \in Nat /\ \A a \in 1 .. k : d[a] \in Elems /\ d[a] # Ring!Null
      /\ \A a, b \in 1 .. k : d[a] = d[b] => a = b
      /\ k = 0 => s.head = Ring!Null
      /\ k # 0 => s.head = d[1] /\ s.tail = d[k]
      /\ \A a \in 1 .. k : s.prev[d[Behind(k, a)]] = d[a]
  <2>1. /\ d \in Seq(Elems) /\ IF k = 0 THEN s.head = Ring!Null ELSE s.head = d[1] /\ s.tail = d[k]
        /\ Distinct(d) /\ Links(s.next, s.prev, d)
    BY <1>7 DEF IsRing
  <2>2. k \in Nat /\ \A a \in 1 .. k : d[a] \in Elems
    BY <2>1, LenProperties, ElementOfSeq
  <2> QED BY <2>1, <2>2, NoEntry DEF Distinct, Links
<1>9. j \in 0 .. k /\ p = CASE j = 0 -> s.tail [] j = 1 -> Ring!Null [] OTHER -> s.prev[d[j]]
  <2>1. PosOf(s, d, j, Ring!get_pos_lfu(s, e))
    <3>1. j = SelectInSeq(w, LAMBDA y : y.freq > s.freq[e])
      BY <1>7 DEF SelectInSeq
    <3> HIDE DEF j
    <3> QED BY <1>7, <3>1, PosIs
  <2> HIDE DEF j
  <2> QED BY <2>1 DEF p, PosOf
<1>10. Counted(v, n) = IF j = 0 THEN Append(w, x) ELSE InsertAt(w, j, x)
  BY DEF Counted, w, x, u
<1> HIDE DEF j, k
<1>11. w \in Seq(Noted) /\ Len(w) = k /\ x \in Noted
  <2>1. Tells(w, s, d)
    BY <1>7, ContentsIs
  <2> QED BY <1>3, <2>1 DEF Tells, x, Noted, k
<1>12. i \in 1 .. k + 1
  BY <1>8, <1>9
<1>13. Counted(v, n) = InsertAt(w, i, x)
  BY <1>10, <1>11, AppendIs
<1>14. ASSUME k = 0 PROVE r2 = Ring!Alone(s, e)
  BY <1>4, <1>8, <1>14
<1>15. ASSUME k # 0
       PROVE  r2 = Ended(Ring!insque(s, e, d[IF i = 1 THEN k ELSE i - 1]),
                         IF i = 1 THEN e ELSE s.head, IF i = k + 1 THEN e ELSE s.tail)
  <2> DEFINE y == d[IF i = 1 THEN k ELSE i - 1]
             h == IF i = 1 THEN e ELSE s.head
             t == IF i = k + 1 THEN e ELSE s.tail
  <2>1. s.head # Ring!Null /\ s.tail # Ring!Null
    BY <1>8, <1>15
  <2>2. CASE i = 1
    <3>1. p = Ring!Null /\ y = s.tail /\ h = e /\ t = s.tail
      <4>1. j = 1 /\ i # k + 1
        BY <1>8, <1>9, <1>15, <2>2
      <4> QED BY <1>8, <1>9, <1>15, <2>2, <4>1
    <3>2. r2 = Headed(Ring!insque(s, e, s.tail), e)
      BY <1>4, <2>1, <3>1
    <3>3. r2 = Ended(Ring!insque(s, e, s.tail), e, s.tail)
      BY <1>7, <3>2, EndsKept
    <3> HIDE DEF y, h, t
    <3>4. r2 = Ended(Ring!insque(s, e, y), h, t)
      BY <3>1, <3>3
    <3> QED BY <3>4 DEF y, h, t
  <2>3. CASE i # 1
    <3>1. /\ p = d[i - 1] /\ i - 1 \in 1 .. k /\ (p = s.tail <=> i = k + 1)
      <4>1. CASE j = 0
        BY <1>8, <1>9, <1>15, <2>3, <4>1
      <4>2. CASE j # 0
        <5>1. /\ i = j /\ i - 1 \in 1 .. k /\ k \in 1 .. k /\ i \in 1 .. k /\ i # k + 1 /\ i - 1 # k /\ j # 1
              /\ Behind(k, i - 1) = i
          BY <1>8, <1>9, <2>3, <4>2 DEF Behind
        <5>2. p = s.prev[d[i]]
          BY <1>9, <4>2, <5>1
        <5>3. p = d[i - 1]
          BY <1>8, <5>1, <5>2
        <5>4. p # s.tail
          BY <1>8, <5>1, <5>3
        <5> QED BY <5>1, <5>3, <5>4
      <4> QED BY <4>1, <4>2
    <3>2. p # Ring!Null /\ y = p /\ h = s.head /\ t = IF p = s.tail THEN e ELSE s.tail
      BY <1>8, <2>3, <3>1
    <3>3. r2 = Tailed(Ring!insque(s, e, p), IF p = s.tail THEN e ELSE s.tail)
      BY <1>4, <2>1, <3>2
    <3> HIDE DEF y, h, t
    <3>4. r2 = Tailed(Ring!insque(s, e, p), t)
      BY <3>2, <3>3
    <3>5. r2 = Ended(Ring!insque(s, e, p), s.head, t)
      BY <1>7, <3>4, EndsKept
    <3>6. r2 = Ended(Ring!insque(s, e, y), h, t)
      BY <3>2, <3>5
    <3> QED BY <3>6 DEF y, h, t
  <2> QED BY <2>2, <2>3
<1> HIDE DEF i
<1>16. /\ Whole(r2)
       /\ Ring!Contents(r2) = InsertAt(Ring!Contents(s), i, [fname |-> s.fname[e], freq |-> s.freq[e]])
  <2>1. Joins(s, d, i, e, r2)
    BY <1>14, <1>15 DEF Joins, k
  <2>2. i \in 1 .. Len(d) + 1
    BY <1>12 DEF k
  <2> QED BY <1>7, <2>1, <2>2, ComesIn
<1>17. Ring!Contents(r2) = InsertAt(w, i, x)
  BY <1>7, <1>16 DEF x
<1> QED BY <1>13, <1>16, <1>17 DEF r2, g, v

\* remque_lru and remque_lfu: the head leaves.
LEMMA HeadLeaves ==
    ASSUME NEW r, Whole(r), r.head # Ring!Null
    PROVE  /\ Whole(Ring!remqueHead(r))
           /\ Ring!Contents(r) \in Seq(Noted) /\ Len(Ring!Contents(r)) # 0
           /\ Ring!Contents(Ring!remqueHead(r)) = RemoveAt(Ring!Contents(r), 1)
<1> DEFINE r2 == Ring!remqueHead(r)
           s == Ring!Contents(r)
           t == Ring!Contents(r2)
<1>1. PICK c : r \in Rings /\ IsRing(r, c) /\ Members(c) = r.live
  BY DEF Whole
<1>2. Len(c) # 0 /\ Len(c) \in Nat /\ 1 \in 1 .. Len(c)
  <2>1. c \in Seq(Elems) /\ Len(c) # 0
    BY <1>1 DEF IsRing
  <2> QED BY <2>1, LenProperties
<1>3. IsRing(r2, RemoveAt(c, 1)) /\ Freed(r, r2, c[1])
  BY <1>1, <1>2, RemovedIs
<1> HIDE DEF r2
<1>4. Dropped(r, c, r2, RemoveAt(c, 1)) /\ t = RemoveAt(s, 1)
  BY <1>1, <1>2, <1>3, DroppedIs
<1>5. Tells(s, r, c)
  BY <1>1, ContentsIs
<1>6. Whole(r2)
  <2>1. c \in Seq(Elems) /\ Distinct(c) /\ c[1] \in Members(c)
    BY <1>1, <1>2 DEF IsRing, Members
  <2>2. Members(RemoveAt(c, 1)) = r2.live
    BY <1>1, <1>2, <1>3, <2>1, OutIs DEF Freed
  <2> QED BY <1>3, <2>2 DEF Whole, Freed
<1> QED BY <1>2, <1>4, <1>5, <1>6 DEF Tells, r2

\* A file that is removed leaves the ring.
LEMMA UnlinkIs ==
    ASSUME NEW r, Whole(r), NEW n
    PROVE  /\ Whole(Ring!rmelem(r, n))
           /\ Ring!Contents(Ring!rmelem(r, n)) = Without(Ring!Contents(r), n)
<1>1. PICK c : r \in Rings /\ IsRing(r, c) /\ Members(c) = r.live
  BY DEF Whole
<1>2. PICK d : Dropped(r, c, Ring!rmelem(r, n), d)
  BY <1>1, RmelemIs
<1>3. Members(d) = Ring!rmelem(r, n).live
  BY <1>1, <1>2 DEF Dropped
<1> QED BY <1>1, <1>2, <1>3, RmelemIs DEF Whole, Dropped

\* A file that is renamed keeps its entry.
LEMMA RenameIs ==
    ASSUME NEW r, Whole(r), NEW n, NEW m \in Names, Ring!findelem(r, n) # Ring!Null,
           NEW r2, r2 = [r EXCEPT !.fname[Ring!findelem(r, n)] = m]
    PROVE  Whole(r2) /\ Ring!Contents(r2) = Renamed(Ring!Contents(r), n, m)
<1> DEFINE s == Ring!Contents(r)
           a == At(s, n)
           e == Ring!findelem(r, n)
           fn == [r.fname EXCEPT ![e] = m]
           u == Renamed(s, n, m)
<1>1. PICK c : r \in Rings /\ IsRing(r, c) /\ Members(c) = r.live
  BY DEF Whole
<1>2. a \in 0 .. Len(c) /\ e = IF a = 0 THEN Ring!Null ELSE c[a]
  BY <1>1, FoundIs
<1>3. /\ c \in Seq(Elems) /\ Len(c) \in Nat /\ \A i \in 1 .. Len(c) : c[i] \in Elems
      /\ \A i, j \in 1 .. Len(c) : c[i] = c[j] => i = j
  <2>1. c \in Seq(Elems) /\ Distinct(c)
    BY <1>1 DEF IsRing
  <2> QED BY <2>1, LenProperties, ElementOfSeq DEF Distinct
<1>4. Tells(s, r, c)
  BY <1>1, ContentsIs
<1>5. u = [s EXCEPT ![a].fname = m] /\ a # 0
  <2>1. a # 0
    BY <1>2
  <2> QED BY <2>1 DEF Renamed
<1> HIDE DEF a, e, s
<1>6. a \in 1 .. Len(c) /\ e = c[a] /\ e \in Elems
  BY <1>2, <1>3, <1>5
<1>7. r2 = [r EXCEPT !.fname = fn]
  BY <1>1 DEF Rings, e
<1>8. fn \in [Elems -> Names \cup {Ring!Null}] /\ \A x \in Elems : fn[x] = IF x = e THEN m ELSE r.fname[x]
  BY <1>1, <1>6 DEF Rings
<1> HIDE DEF fn
<1>9. /\ r2 \in Rings /\ r2.fname = fn /\ r2.freq = r.freq /\ r2.live = r.live
      /\ r2.next = r.next /\ r2.prev = r.prev /\ r2.head = r.head /\ r2.tail = r.tail
  BY <1>1, <1>7, <1>8 DEF Rings
<1>10. IsRing(r2, c)
  BY <1>1, <1>9 DEF IsRing
<1>11. Tells(u, r2, c)
  <2> DEFINE y == [s[a] EXCEPT !.fname = m]
  <2>1. /\ s \in Seq(Noted) /\ Len(s) = Len(c) /\ DOMAIN s = 1 .. Len(c)
        /\ \A i \in 1 .. Len(c) : s[i] \in Noted /\ s[i].fname = r.fname[c[i]] /\ s[i].freq = r.freq[c[i]]
    <3>1. s \in Seq(Noted) /\ Len(s) = Len(c)
      BY <1>4 DEF Tells
    <3> QED BY <1>4, <3>1, LenProperties, ElementOfSeq DEF Tells
  <2>2. y \in Noted /\ y.fname = m /\ y.freq = s[a].freq
    BY <1>6, <2>1 DEF Noted
  <2>3. u = [s EXCEPT ![a] = y]
    BY <1>5
  <2> HIDE DEF y
  <2>4. u \in Seq(Noted) /\ Len(u) = Len(c) /\ \A i \in 1 .. Len(c) : u[i] = IF i = a THEN y ELSE s[i]
    BY <1>6, <2>1, <2>2, <2>3, ExceptSeq
  <2>5. ASSUME NEW i \in 1 .. Len(c) PROVE u[i].fname = r2.fname[c[i]] /\ u[i].freq = r2.freq[c[i]]
    <3>1. c[i] = e <=> i = a
      BY <1>3, <1>6
    <3> QED BY <1>3, <1>6, <1>8, <1>9, <2>1, <2>2, <2>4, <3>1
  <2> QED BY <2>4, <2>5 DEF Tells
<1>12. Ring!Contents(r2) = u
  BY <1>9, <1>10, <1>11, ContentsIs, TellsOne
<1> QED BY <1>1, <1>9, <1>10, <1>12 DEF Whole, s
-----------------------------------------------------------------------------
(* What the calls do to the order of the entries. *)

\* The counts are in order, as far as one looks.
Sorted(s) == \A i, j \in 1 .. Len(s) : i < j => s[i].freq <= s[j].freq

\* LRU counts nothing.
Uncounted(s) == \A i \in 1 .. Len(s) : s[i].freq = 0

Ordered(s) == s \in Seq(Noted) /\ Sorted(s) /\ (lru => Uncounted(s))

\* An order of any two is one of neighbours.
LEMMA SortedIs ==
    ASSUME NEW s \in Seq(Noted), Sorted(s)
    PROVE  Ascending(s)
<1>1. Len(s) \in Nat
  BY LenProperties
<1>2. ASSUME NEW i \in 1 .. (Len(s) - 1) PROVE s[i].freq <= s[i + 1].freq
  <2>1. i \in 1 .. Len(s) /\ i + 1 \in 1 .. Len(s) /\ i < i + 1
    BY <1>1
  <2> QED BY <2>1 DEF Sorted
<1> QED BY <1>2 DEF Ascending

\* Taking one out keeps the order.
LEMMA OrderedOut ==
    ASSUME NEW s, Ordered(s), NEW i \in 1 .. Len(s)
    PROVE  Ordered(RemoveAt(s, i))
<1> DEFINE k == Len(s)
           u == RemoveAt(s, i)
           Old(j) == IF j < i THEN j ELSE j + 1
<1>1. s \in Seq(Noted) /\ k \in Nat /\ i \in 1 .. k
  BY LenProperties DEF Ordered
<1>2. u \in Seq(Noted) /\ Len(u) = k - 1 /\ \A j \in 1 .. k - 1 : u[j] = s[Old(j)]
  <2>1. u \in Seq(Noted) /\ Len(u) = k - 1 /\ \A j \in 1 .. k - 1 : u[j] = IF j < i THEN s[j] ELSE s[j + 1]
    BY <1>1, RemoveIs
  <2> HIDE DEF u
  <2> QED BY <2>1
<1>3. /\ \A j, l \in 1 .. k : j < l => s[j].freq <= s[l].freq
      /\ lru => \A j \in 1 .. k : s[j].freq = 0
  BY DEF Ordered, Sorted, Uncounted
<1> HIDE DEF u, k
<1>4. ASSUME NEW j \in 1 .. k - 1 PROVE Old(j) \in 1 .. k /\ \A l \in 1 .. k - 1 : j < l => Old(j) < Old(l)
  BY <1>1
<1> HIDE DEF Old
<1>5. Sorted(u) /\ (lru => Uncounted(u))
  BY <1>2, <1>3, <1>4 DEF Sorted, Uncounted
<1> QED BY <1>2, <1>5 DEF Ordered, u

\* x belongs before the i-th.
Belongs(s, i, x) ==
    /\ \A j \in 1 .. Len(s) : j < i => s[j].freq <= x.freq
    /\ \A j \in 1 .. Len(s) : i <= j => x.freq <= s[j].freq
    /\ lru => x.freq = 0

\* So does putting one in where it belongs.
LEMMA OrderedIn ==
    ASSUME NEW s, Ordered(s), NEW i \in 1 .. Len(s) + 1, NEW x \in Noted, Belongs(s, i, x)
    PROVE  Ordered(InsertAt(s, i, x))
<1> DEFINE k == Len(s)
           u == InsertAt(s, i, x)
<1>1. s \in Seq(Noted) /\ k \in Nat /\ i \in 1 .. k + 1
  BY LenProperties DEF Ordered
<1>2. /\ u \in Seq(Noted) /\ Len(u) = k + 1
      /\ \A j \in 1 .. k + 1 : u[j] = IF j < i THEN s[j] ELSE IF j = i THEN x ELSE s[j - 1]
  <2>1. s \in Seq(Noted) /\ i \in 1 .. Len(s) + 1
    BY <1>1
  <2>2. u \in Seq(Noted) /\ IsPut(u, s, i, x)
    BY <2>1, InsertIs
  <2> HIDE DEF u
  <2> QED BY <2>2 DEF IsPut
<1>3. /\ \A j, l \in 1 .. k : j < l => s[j].freq <= s[l].freq
      /\ lru => \A j \in 1 .. k : s[j].freq = 0
      /\ \A j \in 1 .. k : j < i => s[j].freq <= x.freq
      /\ \A j \in 1 .. k : i <= j => x.freq <= s[j].freq
      /\ lru => x.freq = 0
  BY DEF Ordered, Sorted, Uncounted, Belongs
<1> HIDE DEF u, k
<1>4. ASSUME NEW j \in 1 .. k + 1
      PROVE  \/ j < i /\ j \in 1 .. k /\ u[j] = s[j]
             \/ j = i /\ u[j] = x
             \/ j > i /\ j - 1 \in 1 .. k /\ i <= j - 1 /\ u[j] = s[j - 1]
  BY <1>1, <1>2
<1>5. Sorted(u)
  <2> SUFFICES ASSUME NEW j \in 1 .. k + 1, NEW l \in 1 .. k + 1, j < l PROVE u[j].freq <= u[l].freq
    BY <1>2 DEF Sorted
  <2>1. CASE l < i
    <3>1. j < i
      BY <1>1, <2>1
    <3> QED BY <1>3, <1>4, <2>1, <3>1
  <2>2. CASE l = i
    BY <1>3, <1>4, <2>2
  <2>3. CASE l > i
    <3>0. l - 1 \in 1 .. k /\ i <= l - 1 /\ u[l] = s[l - 1]
      BY <1>1, <1>4, <2>3
    <3>1. CASE j < i
      <4>1. j \in 1 .. k /\ u[j] = s[j] /\ j < l - 1
        BY <1>1, <1>4, <3>0, <3>1
      <4> QED BY <1>3, <3>0, <4>1
    <3>2. CASE j = i
      BY <1>1, <1>3, <1>4, <3>0, <3>2
    <3>3. CASE j > i
      <4>1. j - 1 \in 1 .. k /\ u[j] = s[j - 1] /\ j - 1 < l - 1
        BY <1>1, <1>4, <3>3
      <4> QED BY <1>3, <3>0, <4>1
    <3> QED BY <1>1, <3>1, <3>2, <3>3
  <2> QED BY <1>1, <2>1, <2>2, <2>3
<1>6. lru => Uncounted(u)
  BY <1>2, <1>3, <1>4 DEF Uncounted
<1> QED BY <1>2, <1>5, <1>6 DEF Ordered, u

\* Each call of util.c keeps the order.
LEMMA OrderedWithout ==
    ASSUME NEW s, Ordered(s), NEW n
    PROVE  Ordered(Without(s, n))
<1>1. s \in Seq(Noted)
  BY DEF Ordered
<1>2. At(s, n) \in 0 .. Len(s) /\ Len(s) \in Nat
  BY <1>1, PlaceIs, LenProperties
<1>3. CASE At(s, n) = 0
  BY <1>3 DEF Without
<1>4. CASE At(s, n) # 0
  <2>1. At(s, n) \in 1 .. Len(s)
    BY <1>2, <1>4
  <2> QED BY <1>4, <2>1, OrderedOut DEF Without
<1> QED BY <1>3, <1>4

\* An LRU queue takes a file in at the end.
LEMMA OrderedUsed ==
    ASSUME lru, NEW s, Ordered(s), NEW n \in Names
    PROVE  Ordered(Used(s, n))
<1> DEFINE w == Without(s, n)
           x == [fname |-> n, freq |-> 0]
<1>1. Ordered(w)
  BY OrderedWithout
<1> HIDE DEF w
<1>2. w \in Seq(Noted) /\ Len(w) \in Nat /\ \A j \in 1 .. Len(w) : w[j].freq = 0
  <2>1. w \in Seq(Noted)
    BY <1>1 DEF Ordered
  <2> QED BY <1>1, <2>1, LenProperties DEF Ordered, Uncounted
<1>3. x \in Noted /\ x.freq = 0
  BY DEF Noted
<1>4. Used(s, n) = Append(w, x)
  BY DEF Used, w
<1> HIDE DEF x
<1>5. Append(w, x) = InsertAt(w, Len(w) + 1, x)
  BY <1>2, <1>3, AppendIs
<1>6. /\ Len(w) + 1 \in 1 .. Len(w) + 1
      /\ \A j \in 1 .. Len(w) : j < Len(w) + 1 => w[j].freq <= x.freq
      /\ \A j \in 1 .. Len(w) : Len(w) + 1 <= j => x.freq <= w[j].freq
  BY <1>2, <1>3
<1>7. Ordered(InsertAt(w, Len(w) + 1, x))
  BY <1>1, <1>3, <1>6, OrderedIn DEF Belongs
<1> QED BY <1>4, <1>5, <1>7

\* An LFU queue takes a file in before those used more often.
LEMMA OrderedCounted ==
    ASSUME ~lru, NEW s, Ordered(s), NEW n \in Names
    PROVE  Ordered(Counted(s, n))
<1> DEFINE w == Without(s, n)
           u == IF At(s, n) = 0 THEN 1 ELSE s[At(s, n)].freq + 1
           x == [fname |-> n, freq |-> u]
           i == SelectInSeq(w, LAMBDA y : y.freq > u)
           I == {j \in 1 .. Len(w) : w[j].freq > u}
           k == Len(w)
           p == IF i = 0 THEN k + 1 ELSE i
<1>1. Ordered(w)
  BY OrderedWithout
<1>2. u \in Nat
  <2>1. s \in Seq(Noted)
    BY DEF Ordered
  <2>2. At(s, n) \in 0 .. Len(s) /\ Len(s) \in Nat /\ \A j \in 1 .. Len(s) : s[j] \in Noted
    BY <2>1, PlaceIs, LenProperties, ElementOfSeq
  <2>3. \A j \in 1 .. Len(s) : s[j].freq \in Nat
    BY <2>2 DEF Noted
  <2>4. At(s, n) # 0 => At(s, n) \in 1 .. Len(s)
    BY <2>2
  <2> QED BY <2>3, <2>4
<1>3. Counted(s, n) = IF i = 0 THEN Append(w, x) ELSE InsertAt(w, i, x)
  BY DEF Counted
<1>4. i = IF I # {} THEN Min(I) ELSE 0
  BY DEF SelectInSeq
<1> HIDE DEF w, u, i
<1>5. /\ w \in Seq(Noted) /\ k \in Nat /\ \A j \in 1 .. k : w[j].freq \in Nat
      /\ \A j, l \in 1 .. k : j < l => w[j].freq <= w[l].freq
  <2>1. w \in Seq(Noted)
    BY <1>1 DEF Ordered
  <2>2. \A j \in 1 .. k : w[j] \in Noted
    BY <2>1, ElementOfSeq
  <2> QED BY <1>1, <2>1, <2>2, LenProperties DEF Ordered, Sorted, Noted
<1>6. x \in Noted /\ x.freq = u
  BY <1>2 DEF Noted
<1> HIDE DEF x, k
<1>7. /\ I # {} => Min(I) \in I /\ \A j \in I : Min(I) <= j
      /\ \A j \in 1 .. k : j \in I <=> w[j].freq > u
      /\ I \subseteq 1 .. k
  <2>1. I \in SUBSET Nat
    OBVIOUS
  <2>2. I # {} => Min(I) \in I /\ \A j \in I : Min(I) <= j
    <3> HIDE DEF I
    <3> QED BY <2>1, MinIs
  <2> QED BY <2>2 DEF k
<1> HIDE DEF I
<1>8. /\ p \in 1 .. k + 1
      /\ \A j \in 1 .. k : j < p => w[j].freq <= u
      /\ \A j \in 1 .. k : p <= j => u <= w[j].freq
  <2>1. CASE I = {}
    <3>1. p = k + 1
      BY <1>4, <2>1
    <3>2. \A j \in 1 .. k : w[j].freq <= u
      BY <1>2, <1>5, <1>7, <2>1
    <3> QED BY <1>5, <3>1, <3>2
  <2>2. CASE I # {}
    <3>1. p = Min(I) /\ p \in 1 .. k /\ w[p].freq > u
      <4>1. Min(I) \in I /\ Min(I) \in 1 .. k
        BY <1>7, <2>2
      <4>2. Min(I) # 0 /\ w[Min(I)].freq > u
        BY <1>5, <1>7, <4>1
      <4> QED BY <1>4, <2>2, <4>1, <4>2
    <3> HIDE DEF p
    <3>2. ASSUME NEW j \in 1 .. k, j < p PROVE w[j].freq <= u
      BY <1>2, <1>5, <1>7, <2>2, <3>1, <3>2
    <3>3. ASSUME NEW j \in 1 .. k, p <= j PROVE u <= w[j].freq
      <4>1. CASE p = j
        BY <1>2, <1>5, <3>1, <4>1
      <4>2. CASE p < j
        <5>1. w[p].freq <= w[j].freq /\ w[p].freq \in Nat /\ w[j].freq \in Nat
          BY <1>5, <3>1, <4>2
        <5> QED BY <1>2, <3>1, <5>1
      <4>3. k \in Nat
        BY <1>5
      <4>4. p = j \/ p < j
        BY <3>1, <3>3, <4>3
      <4> QED BY <4>1, <4>2, <4>4
    <3> QED BY <1>5, <3>1, <3>2, <3>3
  <2> QED BY <2>1, <2>2
<1>9. Counted(s, n) = InsertAt(w, p, x)
  <2>1. CASE i = 0
    BY <1>3, <1>5, <1>6, <2>1, AppendIs DEF k
  <2>2. CASE i # 0
    BY <1>3, <2>2
  <2> QED BY <2>1, <2>2
<1> HIDE DEF p
<1>10. Ordered(InsertAt(w, p, x))
  BY <1>1, <1>6, <1>8, OrderedIn DEF k, Belongs
<1> QED BY <1>9, <1>10

\* A name changes no count.
LEMMA OrderedRenamed ==
    ASSUME NEW s, Ordered(s), NEW n, NEW m \in Names
    PROVE  Ordered(Renamed(s, n, m))
<1> DEFINE a == At(s, n)
           u == Renamed(s, n, m)
           k == Len(s)
<1>1. s \in Seq(Noted)
  BY DEF Ordered
<1>2. a \in 0 .. k /\ k \in Nat
  BY <1>1, PlaceIs, LenProperties
<1> HIDE DEF a
<1>3. CASE a = 0
  BY <1>3 DEF Renamed, a
<1>4. CASE a # 0
  <2> DEFINE y == [s[a] EXCEPT !.fname = m]
  <2>1. a \in 1 .. k /\ s[a] \in Noted
    BY <1>1, <1>2, <1>4, ElementOfSeq
  <2>2. y \in Noted /\ y.freq = s[a].freq
    BY <2>1 DEF Noted
  <2>3. u = [s EXCEPT ![a] = y]
    <3>1. u = [s EXCEPT ![a].fname = m]
      BY <1>4 DEF Renamed, a
    <3> QED BY <3>1
  <2> HIDE DEF y, u
  <2>4. u \in Seq(Noted) /\ Len(u) = k /\ \A j \in 1 .. k : u[j] = IF j = a THEN y ELSE s[j]
    BY <1>1, <2>1, <2>2, <2>3, ExceptSeq
  <2>5. \A j \in 1 .. k : u[j].freq = s[j].freq
    BY <2>2, <2>4
  <2>6. /\ \A j, l \in 1 .. k : j < l => s[j].freq <= s[l].freq
        /\ lru => \A j \in 1 .. k : s[j].freq = 0
    BY DEF Ordered, Sorted, Uncounted
  <2> HIDE DEF k
  <2>7. Sorted(u) /\ (lru => Uncounted(u))
    BY <2>4, <2>5, <2>6 DEF Sorted, Uncounted
  <2> QED BY <2>4, <2>7 DEF Ordered, u
<1> QED BY <1>3, <1>4

\* Without the first is the rest.
LEMMA RestIs ==
    ASSUME NEW S, NEW s \in Seq(S), Len(s) # 0
    PROVE  RemoveAt(s, 1) = Tail(s)
<1> DEFINE u == RemoveAt(s, 1)
           t == Tail(s)
           k == Len(s)
<1>1. k \in Nat /\ 1 \in 1 .. k
  BY LenProperties
<1>2. u \in Seq(S) /\ Len(u) = k - 1 /\ \A j \in 1 .. k - 1 : u[j] = IF j < 1 THEN s[j] ELSE s[j + 1]
  BY <1>1, RemoveIs
<1>3. t \in Seq(S) /\ Len(t) = k - 1 /\ \A j \in 1 .. k - 1 : t[j] = s[j + 1]
  <2>1. s # <<>>
    BY EmptySeq
  <2>2. t \in Seq(S) /\ Len(t) = Len(s) - 1 /\ \A i \in 1 .. Len(t) : t[i] = s[i + 1]
    BY <2>1, HeadTailProperties
  <2> QED BY <2>2
<1> HIDE DEF u, t, k
<1>4. \A j \in 1 .. k - 1 : u[j] = t[j]
  BY <1>1, <1>2, <1>3
<1>5. u = t
  BY <1>2, <1>3, <1>4, SeqEqual
<1> QED BY <1>5 DEF u, t
-----------------------------------------------------------------------------
(* The ring stays one. *)

RingInv == Whole(q) /\ Ordered(Ring!Contents(q)) /\ lru \in BOOLEAN

\* What an insertion does.
LEMMA InsertDoes ==
    ASSUME RingInv, NEW n \in Names, Ring!Insert(n)
    PROVE  /\ Whole(q') /\ Ring!Contents(q') = Inserted(Ring!Contents(q), n)
           /\ Ordered(Inserted(Ring!Contents(q), n))
<1> DEFINE s == Ring!Contents(q)
<1>1. PICK e \in Elems \ q.live :
         q' = IF lru THEN Ring!insque_lru(Ring!malloc(q, e, n, 0), e)
                     ELSE Ring!insque_lfu(Ring!malloc(q, e, n, 1), e)
  BY DEF Ring!Insert
<1>2. Whole(q) /\ Ordered(s)
  BY DEF RingInv
<1>3. CASE lru
  <2>1. q' = Ring!insque_lru(Ring!malloc(q, e, n, 0), e)
    BY <1>1, <1>3
  <2>2. Whole(q') /\ Ring!Contents(q') = Used(s, n)
    BY <1>2, <2>1, LruIs
  <2>3. Ordered(Used(s, n))
    BY <1>2, <1>3, OrderedUsed
  <2> QED BY <1>3, <2>2, <2>3 DEF Inserted
<1>4. CASE ~lru
  <2>1. q' = Ring!insque_lfu(Ring!malloc(q, e, n, 1), e)
    BY <1>1, <1>4
  <2>2. Whole(q') /\ Ring!Contents(q') = Counted(s, n)
    BY <1>2, <2>1, LfuIs
  <2>3. Ordered(Counted(s, n))
    BY <1>2, <1>4, OrderedCounted
  <2> QED BY <1>4, <2>2, <2>3 DEF Inserted
<1> QED BY <1>3, <1>4

\* What an eviction does.
LEMMA EvictDoes ==
    ASSUME RingInv, Ring!Evict
    PROVE  /\ Whole(q') /\ Ring!Contents(q') = Tail(Ring!Contents(q))
           /\ Ordered(Tail(Ring!Contents(q)))
<1> DEFINE s == Ring!Contents(q)
<1>1. q.head # Ring!Null /\ q' = Ring!remqueHead(q) /\ Whole(q) /\ Ordered(s)
  BY DEF Ring!Evict, RingInv
<1>2. /\ Whole(q') /\ s \in Seq(Noted) /\ Len(s) # 0 /\ Ring!Contents(q') = RemoveAt(s, 1)
  BY <1>1, HeadLeaves
<1> HIDE DEF s
<1>3. RemoveAt(s, 1) = Tail(s)
  BY <1>2, RestIs
<1>4. 1 \in 1 .. Len(s)
  BY <1>2, LenProperties
<1>5. Ordered(RemoveAt(s, 1))
  BY <1>1, <1>4, OrderedOut
<1> QED BY <1>2, <1>3, <1>5 DEF s

\* What a removal does.
LEMMA UnlinkDoes ==
    ASSUME RingInv, NEW n \in Names, Ring!Unlink(n)
    PROVE  /\ Whole(q') /\ Ring!Contents(q') = Without(Ring!Contents(q), n)
           /\ Ordered(Without(Ring!Contents(q), n))
BY UnlinkIs, OrderedWithout DEF Ring!Unlink, RingInv

\* What a renaming does.
LEMMA RenameDoes ==
    ASSUME RingInv, NEW n \in Names, NEW m \in Names, Ring!Rename(n, m)
    PROVE  /\ Whole(q') /\ Ring!Contents(q') = Renamed(Ring!Contents(q), n, m)
           /\ Ordered(Renamed(Ring!Contents(q), n, m))
<1>1. Whole(q) /\ Ordered(Ring!Contents(q))
  BY DEF RingInv
<1>2. Ring!findelem(q, n) # Ring!Null
  BY DEF Ring!Rename
<1>3. q' = [q EXCEPT !.fname[Ring!findelem(q, n)] = m]
  BY DEF Ring!Rename
<1>4. Whole(q') /\ Ring!Contents(q') = Renamed(Ring!Contents(q), n, m)
  BY <1>1, <1>2, <1>3, RenameIs
<1>5. Ordered(Renamed(Ring!Contents(q), n, m))
  BY <1>1, OrderedRenamed
<1> QED BY <1>4, <1>5

\* The ring is empty at first.
LEMMA RingInitInv ==
    ASSUME Ring!Init
    PROVE  RingInv
<1> DEFINE c == <<>>
<1>1. /\ q \in Rings /\ q.head = Ring!Null /\ q.live = {}
  BY DEF Ring!Init, Rings
<1>2. c \in Seq(Elems) /\ Len(c) = 0
  OBVIOUS
<1> HIDE DEF c
<1>3. Distinct(c) /\ Links(q.next, q.prev, c) /\ Members(c) = {}
  BY <1>2 DEF Distinct, Links, Members
<1>4. IsRing(q, c)
  BY <1>1, <1>2, <1>3 DEF IsRing
<1>5. Whole(q)
  BY <1>1, <1>3, <1>4 DEF Whole
<1>6. Tells(Ring!Contents(q), q, c)
  BY <1>1, <1>4, ContentsIs
<1>7. Ordered(Ring!Contents(q))
  BY <1>2, <1>6 DEF Tells, Ordered, Sorted, Uncounted
<1> QED BY <1>5, <1>7 DEF RingInv, Ring!Init

\* The ring is that of the next state.
LEMMA RingNext ==
    ASSUME Whole(q'), Ordered(Ring!Contents(q')), lru \in BOOLEAN, lru' = lru
    PROVE  RingInv'
BY DEF RingInv, Ordered, Whole, Ring!Contents, Ring!Walk

\* The calls keep it a ring, in order.
LEMMA RingCalls ==
    ASSUME RingInv, Ring!Next
    PROVE  Whole(q') /\ Ordered(Ring!Contents(q'))
<1>1. CASE Ring!Evict
  BY <1>1, EvictDoes
<1>2. ASSUME NEW n \in Names, Ring!Insert(n) PROVE Whole(q') /\ Ordered(Ring!Contents(q'))
  BY <1>2, InsertDoes
<1>3. ASSUME NEW n \in Names, Ring!Unlink(n) PROVE Whole(q') /\ Ordered(Ring!Contents(q'))
  BY <1>3, UnlinkDoes
<1>4. ASSUME NEW n \in Names, NEW m \in Names, Ring!Rename(n, m) PROVE Whole(q') /\ Ordered(Ring!Contents(q'))
  BY <1>4, RenameDoes
<1> QED BY <1>1, <1>2, <1>3, <1>4 DEF Ring!Next

\* So the invariant is kept.
LEMMA RingNextInv ==
    ASSUME RingInv, Ring!Next
    PROVE  RingInv'
<1>1. lru' = lru
  BY DEF Ring!Next
<1>2. lru \in BOOLEAN
  BY DEF RingInv
<1> QED BY <1>1, <1>2, RingCalls, RingNext

\* The handlers do not change the kind of the queue, and so not what is said of the ring.
LEMMA RingStays ==
    ASSUME RingInv, q' = q, lru' = lru
    PROVE  RingInv'
<1>1. Whole(q') /\ Ordered(Ring!Contents(q')) /\ lru \in BOOLEAN
  BY DEF RingInv
<1> QED BY <1>1, RingNext

\* Nothing changes it.
LEMMA KindStays ==
    ASSUME [Next]_vars
    PROVE  lru' = lru
BY DEF Next, vars, Remount, mkdir, rmdir, renameDir, write, read, ftruncate, release, create, open,
       mknod, getattr, truncate, chmod, setxattr, unlink, link, rename, Call

\* What the invariant says of the ring is what is checked of it.
LEMMA RingInvIs ==
    ASSUME RingInv
    PROVE  Ring!RingIsWhole /\ Ascending(Ring!Contents(q))
<1>1. PICK c : q \in Rings /\ IsRing(q, c) /\ Members(c) = q.live
  BY DEF RingInv, Whole
<1>2. Ring!Walk(q) = c
  BY <1>1, WalkIs
<1>3. /\ c \in Seq(Elems) /\ Distinct(c) /\ Links(q.next, q.prev, c) /\ Len(c) \in Nat /\ DOMAIN c = 1 .. Len(c)
      /\ Len(c) # 0 => q.tail = c[Len(c)]
  <2>1. c \in Seq(Elems)
    BY <1>1 DEF IsRing
  <2> QED BY <1>1, <2>1, LenProperties DEF IsRing
<1>4. q.live = {c[i] : i \in DOMAIN c} /\ Len(c) = Ring!Cardinality(q.live)
  <2>1. Cardinality(Members(c)) = Len(c)
    BY <1>3, MembersIs
  <2>2. q.live = {c[i] : i \in DOMAIN c}
    BY <1>1, <1>3 DEF Members
  <2> QED BY <1>1, <2>1, <2>2, RingHas
<1>5. ASSUME c # <<>>
      PROVE  /\ q.tail = c[Len(c)] /\ q.prev[c[1]] = q.tail
             /\ \A i \in 1 .. (Len(c) - 1) : q.prev[c[i + 1]] = c[i]
  <2>1. Len(c) # 0
    BY <1>3, <1>5, EmptySeq
  <2>2. \A i \in 1 .. Len(c) : q.prev[c[Behind(Len(c), i)]] = c[i]
    BY <1>3 DEF Links
  <2>3. ASSUME NEW k \in Nat, k # 0
        PROVE  /\ k \in 1 .. k /\ Behind(k, k) = 1
               /\ \A i \in 1 .. (k - 1) : i \in 1 .. k /\ Behind(k, i) = i + 1
    BY <2>3 DEF Behind
  <2>4. /\ Len(c) \in 1 .. Len(c) /\ Behind(Len(c), Len(c)) = 1
        /\ \A i \in 1 .. (Len(c) - 1) : i \in 1 .. Len(c) /\ Behind(Len(c), i) = i + 1
    BY <1>3, <2>1, <2>3
  <2> QED BY <1>3, <2>1, <2>2, <2>4
<1>6. Ring!RingIsWhole
  BY <1>2, <1>4, <1>5 DEF Ring!RingIsWhole
<1>7. Ascending(Ring!Contents(q))
  BY SortedIs DEF RingInv, Ordered
<1> QED BY <1>6, <1>7

\* Every call of util.c does to the ring what HyCache says of the queue.
LEMMA RingKeepsOrder ==
    ASSUME RingInv, Ring!Next
    PROVE  KeepsOrder
<1>1. Ascending(Ring!Contents(q'))
  BY RingCalls, SortedIs DEF Ordered
<1>2. \A n \in Names : Ring!Insert(n) => Ring!Contents(q') = Inserted(Ring!Contents(q), n)
  BY InsertDoes
<1>3. \A n \in Names : Ring!Unlink(n) => Ring!Contents(q') = Without(Ring!Contents(q), n)
  BY UnlinkDoes
<1>4. Ring!Evict => Ring!Contents(q') = Tail(Ring!Contents(q))
  BY EvictDoes
<1>5. \A n, m \in Names : Ring!Rename(n, m) => Ring!Contents(q') = Renamed(Ring!Contents(q), n, m)
  BY RenameDoes
<1> QED BY <1>1, <1>2, <1>3, <1>4, <1>5 DEF KeepsOrder
-----------------------------------------------------------------------------
(* The theorems. *)

\* What is always so, of the files and of the ring.
Inv == HyInv /\ RingInv

\* Applications do neither of what loses files or directories.
Tame == "renameOver" \notin Careless /\ "rmdirFilled" \notin Careless

\* It is so at first.
LEMMA InitInv ==
    ASSUME HyInit
    PROVE  Inv
BY HyInitInv, RingInitInv DEF HyInit, Inv

\* And every step keeps it.
LEMMA NextInv ==
    ASSUME Inv, Tame, [HyNext]_<<part, q, vars>>
    PROVE  Inv'
<1>1. CASE part # "ring" /\ Next /\ UNCHANGED q
  <2>1. HyInv'
    BY <1>1, HyNextInv DEF Inv, Tame
  <2>2. RingInv'
    BY <1>1, KindStays, RingStays DEF Inv
  <2> QED BY <1>1, <2>1, <2>2 DEF Inv
<1>2. CASE part = "ring" /\ Ring!Next /\ UNCHANGED vars
  <2>1. HyInv'
    BY <1>2, HyNextInv DEF Inv, Tame
  <2>2. RingInv'
    BY <1>2, RingNextInv DEF Inv
  <2> QED BY <1>2, <2>1, <2>2 DEF Inv
<1>3. CASE UNCHANGED <<part, q, vars>>
  <2>1. HyInv'
    BY <1>3, HyNextInv DEF Inv, Tame
  <2>2. RingInv'
    BY <1>3, KindStays, RingStays DEF Inv
  <2> QED BY <1>3, <2>1, <2>2 DEF Inv
<1> QED BY <1>1, <1>2, <1>3 DEF HyNext

\* Without the bounds of the parts it is so of the handlers.
LEMMA SpecInv ==
    ASSUME Tame
    PROVE  Spec => []HyInv
<1>1. Init => HyInv
  BY HyInitInv
<1>2. HyInv /\ [Next]_vars => HyInv'
  BY HyNextInv DEF Tame
<1> QED BY <1>1, <1>2, PTL DEF Spec

\* If no application renames a file over another or removes a directory that has files,
\* then always: a file is in one place, to which its link leads; what was created or
\* opened since the mount can be moved out, and what can be moved is on the ssd; the
\* two disks have the same directories; and the links of util.c are one ring of the
\* entries that malloc gave.  This and the next two hold of the parts of MCHyCache, and of
\* the handlers with none of the bounds of these parts.
THEOREM PlacesAgree ==
    ASSUME Tame
    PROVE  /\ HySpec => []DisksAgree
           /\ Spec => [](OnePlace /\ Evictable /\ TreesInStep)
<1>1. HyInit => Inv
  BY InitInv
<1>2. Inv /\ [HyNext]_<<part, q, vars>> => Inv'
  BY NextInv
<1>3. Inv => DisksAgree
  BY HyInvIs, RingInvIs DEF Inv, DisksAgree
<1>4. HyInv => OnePlace /\ Evictable /\ TreesInStep
  BY HyInvIs
<1> QED BY <1>1, <1>2, <1>3, <1>4, SpecInv, PTL DEF HySpec

\* And then, too, create leaves no more on the ssd than its limit, and open of a file on the
\* hdd the limit and that file, unless there is nothing left to move out.
THEOREM LimitIsKept ==
    ASSUME Tame
    PROVE  (HySpec => LimitHolds) /\ (Spec => LimitHolds)
<1>1. HyInit => Inv
  BY InitInv
<1>2. Inv /\ [HyNext]_<<part, q, vars>> => Inv'
  BY NextInv
<1>3. Inv /\ [HyNext]_<<part, q, vars>> => [KeepsLimit]_vars
  BY HyFits DEF Inv
<1>4. HyInv /\ [Next]_vars => [KeepsLimit]_vars
  BY HyFits
<1> QED BY <1>1, <1>2, <1>3, <1>4, SpecInv, PTL DEF HySpec, Spec, LimitHolds

\* If besides no application keeps a file open that others push out, changes the mode of
\* a file renamed on the hdd, or reads through the handle with which it created a file,
\* every handler does what a file system of one disk does in its place.
THEOREM IsOneDisk ==
    ASSUME Careful
    PROVE  (HySpec => OneDisk) /\ (Spec => OneDisk)
<1>0. Tame
  BY DEF Careful, Tame
<1>1. HyInit => Inv
  BY InitInv
<1>2. Inv /\ [HyNext]_<<part, q, vars>> => Inv'
  BY <1>0, NextInv
<1>3. Inv /\ Inv' /\ [HyNext]_<<part, q, vars>> => [KeepsFiles]_vars
  BY HyPlain DEF Inv
<1>4. HyInv /\ HyInv' /\ [Next]_vars => [KeepsFiles]_vars
  BY HyPlain
<1> QED BY <1>0, <1>1, <1>2, <1>3, <1>4, SpecInv, PTL DEF HySpec, Spec, OneDisk

\* Every call of util.c does to the ring what HyCache says of the queue, and the counts
\* of an LFU queue stay in order.
THEOREM RingIsQueue ==
    ASSUME Tame
    PROVE  HySpec => QueueKeepsOrder
<1>1. HyInit => Inv
  BY InitInv
<1>2. Inv /\ [HyNext]_<<part, q, vars>> => Inv'
  BY NextInv
<1>3. Inv /\ [HyNext]_<<part, q, vars>> => [part = "ring" => KeepsOrder]_q
  BY RingKeepsOrder DEF Inv, HyNext
<1> QED BY <1>1, <1>2, <1>3, PTL DEF HySpec, QueueKeepsOrder
=============================================================================
