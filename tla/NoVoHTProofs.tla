---------------------------- MODULE NoVoHTProofs ----------------------------
(***************************************************************************)
(* Proofs about NoVoHT, for every hash function, size of the table, load,   *)
(* set of keys and values, and length of the file: table and file agree in  *)
(* every state a caller or a crash can find them in, and while it is open    *)
(* the table is a map.                                                     *)
(*                                                                         *)
(* The argument: an operation is described by what it does to the set of     *)
(* pairs (In, PairsIn) and to the live records (Match), whatever chain and   *)
(* place they are in.  A chain is a set of pairs with one hash and distinct  *)
(* keys (Chained); the file matches the pairs one to one, and a crash cuts   *)
(* it short before it could hold two values of a key (Fresh).              *)
(***************************************************************************)
EXTENDS NoVoHT, SequenceTheorems, FiniteSetTheorems, WellFoundedInduction, TLAPS

\* The order of the natural numbers, as a relation.
Less == {ss \in Nat \X Nat : ss[1] < ss[2]}

\* The order of the natural numbers is well founded.
LEMMA LessWF == IsWellFoundedOn(Less, Nat)
<1>1. OpToRel(<, Nat) = Less
  BY DEF OpToRel, Less
<1> QED BY <1>1, NatLessThanWellFounded

\* So a set of them that is not empty has a smallest one.
LEMMA HasMin ==
    ASSUME NEW S \in SUBSET Nat, S # {}
    PROVE  \E x \in S : \A y \in S : x <= y
<1>1. PICK x \in S : \A y \in S : ~(<<y, x>> \in Less)
  BY LessWF, WFMin
<1>2. \A y \in S : ~(y < x)
  <2> TAKE y \in S
  <2>1. y < x => <<y, x>> \in Less
    BY DEF Less
  <2> QED BY <1>1, <2>1
<1> QED BY <1>2

\* Induction on a set.
LEMMA Induct ==
    ASSUME NEW S, 0 \in S, \A n \in Nat : n \in S => n + 1 \in S
    PROVE  Nat \subseteq S
<1> SUFFICES ASSUME Nat \ S # {} PROVE FALSE
  OBVIOUS
<1>1. PICK x \in Nat \ S : \A y \in Nat \ S : x <= y
  <2> DEFINE D == Nat \ S
  <2>1. D \in SUBSET Nat /\ D # {}
    OBVIOUS
  <2> HIDE DEF D
  <2>2. \E x \in D : \A y \in D : x <= y
    BY <2>1, HasMin
  <2> QED BY <2>2 DEF D
<1>2. x # 0 /\ x - 1 \in Nat
  BY <1>1
<1>3. x - 1 \in S
  BY <1>1, <1>2
<1> QED BY <1>1, <1>2, <1>3

\* The chains one behind another: what the first i of them make.
LEMMA Flattened ==
    ASSUME NEW X, NEW T \in Seq(Seq(X)), Len(T) # 0
    PROVE  \E e \in [1 .. Len(T) -> Seq(X)] :
              /\ e[1] = T[1] /\ FlattenSeq(T) = e[Len(T)]
              /\ \A i \in 2 .. Len(T) : e[i] = e[i - 1] \o T[i]
<1> DEFINE N == Len(T)
           Cat(s, t) == s \o t
           G(f, n) == /\ f \in [1 .. n -> Seq(X)]
                      /\ \A i \in 1 .. n : i = 1 => f[i] = T[i]
                      /\ \A i \in 1 .. n : i # 1 => f[i] = Cat(f[i - 1], T[i])
           S == {n \in Nat : n <= N => \E f : G(f, n)}
           E == CHOOSE h : h = [i \in 1 .. N |-> IF i = 1 THEN T[i] ELSE Cat(h[i - 1], T[i])]
<1>1. N \in Nat /\ N # 0 /\ \A i \in 1 .. N : T[i] \in Seq(X)
  BY LenProperties, ElementOfSeq
<1>17. ASSUME NEW s \in Seq(X), NEW t \in Seq(X) PROVE Cat(s, t) \in Seq(X)
  BY ConcatProperties
<1> HIDE DEF N, Cat
<1>2. 0 \in S
  <2>1. G([i \in 1 .. 0 |-> <<>>], 0)
    OBVIOUS
  <2> HIDE DEF G
  <2> QED BY <2>1
<1>3. ASSUME NEW n \in Nat, n \in S PROVE n + 1 \in S
  <2> SUFFICES ASSUME n + 1 <= N PROVE \E f : G(f, n + 1)
    <3> HIDE DEF G
    <3> QED BY <1>1
  <2>1. PICK f : G(f, n)
    <3> HIDE DEF G
    <3> QED BY <1>1, <1>3
  <2> DEFINE new == IF n = 0 THEN T[1] ELSE Cat(f[n], T[n + 1])
             g == [i \in 1 .. n + 1 |-> IF i <= n THEN f[i] ELSE new]
  <2>2. new \in Seq(X)
    <3>1. CASE n = 0
      BY <1>1, <3>1
    <3>2. CASE n # 0
      <4>1. f[n] \in Seq(X) /\ T[n + 1] \in Seq(X)
        BY <1>1, <2>1, <3>2
      <4> QED BY <4>1, <3>2, <1>17
    <3> QED BY <3>1, <3>2
  <2>3. g \in [1 .. n + 1 -> Seq(X)]
    <3> HIDE DEF new
    <3> QED BY <2>1, <2>2
  <2>4. ASSUME NEW i \in 1 .. n + 1
        PROVE  (i = 1 => g[i] = T[i]) /\ (i # 1 => g[i] = Cat(g[i - 1], T[i]))
    <3>1. CASE i <= n
      <4>1. g[i] = f[i] /\ (i # 1 => g[i - 1] = f[i - 1])
        <5> HIDE DEF new
        <5> QED BY <3>1
      <4> HIDE DEF g
      <4> QED BY <2>1, <3>1, <4>1
    <3>2. CASE i = n + 1 /\ n = 0
      BY <3>2
    <3>3. CASE i = n + 1 /\ n # 0
      <4>1. g[n + 1] = new /\ g[n] = f[n]
        <5> HIDE DEF new
        <5> QED BY <3>3
      <4>2. new = Cat(f[n], T[n + 1])
        BY <3>3
      <4> HIDE DEF g, new
      <4> QED BY <3>3, <4>1, <4>2
    <3> QED BY <3>1, <3>2, <3>3
  <2>5. G(g, n + 1)
    <3> HIDE DEF g
    <3> QED BY <2>3, <2>4
  <2> HIDE DEF G, g
  <2> QED BY <2>5
<1>4. N \in S
  <2> HIDE DEF S
  <2> QED BY <1>1, <1>2, <1>3, Induct
<1>5. PICK f : G(f, N)
  <2> HIDE DEF G
  <2> QED BY <1>1, <1>4
<1>6. f = [i \in 1 .. N |-> IF i = 1 THEN T[i] ELSE Cat(f[i - 1], T[i])]
  BY <1>5
<1>7. E = [i \in 1 .. N |-> IF i = 1 THEN T[i] ELSE Cat(E[i - 1], T[i])]
  <2> DEFINE P(h) == h = [i \in 1 .. N |-> IF i = 1 THEN T[i] ELSE Cat(h[i - 1], T[i])]
  <2>1. P(f)
    BY <1>6
  <2> HIDE DEF P
  <2>2. P(CHOOSE h : P(h))
    BY <2>1, Zenon
  <2> QED BY <2>2 DEF P
<1>8. FlattenSeq(T) = E[N]
  BY <1>1 DEF FlattenSeq, N, Cat
<1> HIDE DEF E
<1>15. /\ \A i \in 1 .. N : i = 1 => E[i] = T[i]
       /\ \A i \in 1 .. N : i # 1 => E[i] = Cat(E[i - 1], T[i])
  <2> DEFINE H == [i \in 1 .. N |-> IF i = 1 THEN T[i] ELSE Cat(E[i - 1], T[i])]
  <2>1. /\ \A i \in 1 .. N : i = 1 => H[i] = T[i]
        /\ \A i \in 1 .. N : i # 1 => H[i] = Cat(E[i - 1], T[i])
    OBVIOUS
  <2>2. H = [i \in 1 .. N |-> H[i]]
    OBVIOUS
  <2>3. E = H
    BY <1>7
  <2> HIDE DEF H
  <2> QED BY <2>1, <2>3
<1>16. E = [i \in 1 .. N |-> E[i]]
  <2> DEFINE H == [i \in 1 .. N |-> IF i = 1 THEN T[i] ELSE Cat(E[i - 1], T[i])]
  <2>1. /\ \A i \in 1 .. N : i = 1 => H[i] = T[i]
        /\ \A i \in 1 .. N : i # 1 => H[i] = Cat(E[i - 1], T[i])
    OBVIOUS
  <2>2. H = [i \in 1 .. N |-> H[i]]
    OBVIOUS
  <2>3. E = H
    BY <1>7
  <2> HIDE DEF H
  <2> QED BY <2>2, <2>3
<1> DEFINE D == {n \in Nat : n + 1 <= N => E[n + 1] \in Seq(X)}
<1>9. 0 \in D
  BY <1>1, <1>15
<1>10. ASSUME NEW n \in Nat, n \in D PROVE n + 1 \in D
  <2> SUFFICES ASSUME n + 1 + 1 <= N PROVE E[n + 1 + 1] \in Seq(X)
    OBVIOUS
  <2>1. E[n + 1] \in Seq(X) /\ T[n + 2] \in Seq(X) /\ E[n + 2] = Cat(E[n + 1], T[n + 2])
    <3>1. n + 2 \in 1 .. N /\ n + 2 # 1 /\ n + 2 - 1 = n + 1
      BY <1>1
    <3> QED BY <1>1, <1>15, <1>10, <3>1
  <2>2. E[n + 2] \in Seq(X)
    BY <2>1, <1>17
  <2> QED BY <2>2
<1>11. Nat \subseteq D
  <2> HIDE DEF D
  <2> QED BY <1>9, <1>10, Induct
<1>12. \A i \in 1 .. N : E[i] \in Seq(X)
  <2> TAKE i \in 1 .. N
  <2>1. i - 1 \in D
    <3> HIDE DEF D
    <3> QED BY <1>1, <1>11
  <2> QED BY <2>1, <1>1
<1>13. E \in [1 .. N -> Seq(X)]
  BY <1>16, <1>12
<1>14. E[1] = T[1] /\ \A i \in 2 .. N : E[i] = Cat(E[i - 1], T[i])
  BY <1>1, <1>15
<1> QED BY <1>8, <1>13, <1>14 DEF N, Cat

\* Where the chains are among all the pairs: off[s] pairs come before chain s.
Lies(T, F, off) ==
    /\ \A s \in 1 .. Len(T) : \A j \in 1 .. Len(T[s]) :
           off[s] + j \in 1 .. Len(F) /\ F[off[s] + j] = T[s][j]
    /\ \A p \in 1 .. Len(F) : \E s \in 1 .. Len(T) : \E j \in 1 .. Len(T[s]) : p = off[s] + j
    /\ \A s, t \in 1 .. Len(T) : s < t => off[s] + Len(T[s]) <= off[t]

\* FlattenSeq keeps every element of every chain, and has no other.
LEMMA FlatIndex ==
    ASSUME NEW X, NEW T \in Seq(Seq(X))
    PROVE  /\ FlattenSeq(T) \in Seq(X)
           /\ \E off \in [1 .. Len(T) -> Nat] : Lies(T, FlattenSeq(T), off)
<1>1. CASE Len(T) = 0
  <2>1. FlattenSeq(T) = T /\ T = <<>>
    BY <1>1, EmptySeq DEF FlattenSeq
  <2>2. Lies(<<>>, <<>>, [s \in 1 .. 0 |-> 0])
    BY DEF Lies
  <2>3. FlattenSeq(T) \in Seq(X)
    BY <2>1, EmptySeq
  <2>4. [s \in 1 .. 0 |-> 0] \in [1 .. Len(T) -> Nat]
    BY <1>1
  <2> QED BY <2>1, <2>2, <2>3, <2>4
<1>2. CASE Len(T) # 0
  <2> DEFINE N == Len(T)
  <2>1. PICK e \in [1 .. N -> Seq(X)] :
           /\ e[1] = T[1] /\ FlattenSeq(T) = e[N]
           /\ \A i \in 2 .. N : e[i] = e[i - 1] \o T[i]
    BY <1>2, Flattened
  <2>2. N \in Nat /\ N # 0 /\ \A i \in 1 .. N : T[i] \in Seq(X)
    BY <1>2, LenProperties, ElementOfSeq
  <2> HIDE DEF N
  <2>3. ASSUME NEW i \in 2 .. N
        PROVE  /\ Len(e[i]) = Len(e[i - 1]) + Len(T[i])
               /\ \A j \in 1 .. Len(e[i - 1]) : e[i][j] = e[i - 1][j]
               /\ \A j \in 1 .. Len(T[i]) : e[i][Len(e[i - 1]) + j] = T[i][j]
    <3> DEFINE a == e[i - 1]
               b == T[i]
    <3>1. a \in Seq(X) /\ b \in Seq(X) /\ e[i] = a \o b
      <4>1. i - 1 \in 1 .. N /\ i \in 1 .. N
        BY <2>2
      <4>2. e[i] = a \o b
        BY <2>1
      <4>3. a \in Seq(X) /\ b \in Seq(X)
        BY <2>1, <2>2, <4>1
      <4> QED BY <4>2, <4>3
    <3> HIDE DEF a, b
    <3>2. Len(a) \in Nat /\ Len(b) \in Nat
      BY <3>1, LenProperties
    <3>3. /\ Len(a \o b) = Len(a) + Len(b)
          /\ \A j \in 1 .. Len(a) + Len(b) : (a \o b)[j] = IF j <= Len(a) THEN a[j] ELSE b[j - Len(a)]
      BY <3>1, ConcatProperties
    <3> DEFINE c == a \o b
    <3>4. /\ Len(c) = Len(a) + Len(b)
          /\ \A j \in 1 .. Len(a) + Len(b) : c[j] = IF j <= Len(a) THEN a[j] ELSE b[j - Len(a)]
      BY <3>3
    <3>5. e[i] = c
      BY <3>1
    <3> HIDE DEF c
    <3>6. ASSUME NEW j \in 1 .. Len(b) PROVE c[Len(a) + j] = b[j]
      <4>1. Len(a) + j \in 1 .. Len(a) + Len(b) /\ ~(Len(a) + j <= Len(a)) /\ Len(a) + j - Len(a) = j
        BY <3>2
      <4> QED BY <3>4, <4>1
    <3>7. \A j \in 1 .. Len(a) : c[j] = a[j]
      BY <3>2, <3>4
    <3> QED BY <3>4, <3>5, <3>6, <3>7 DEF a, b
  <2> DEFINE off == [s \in 1 .. N |-> IF s = 1 THEN 0 ELSE Len(e[s - 1])]
             A(i) == \A s \in 1 .. i : off[s] + Len(T[s]) <= Len(e[i])
             B(i) == \A s \in 1 .. i : \A j \in 1 .. Len(T[s]) : e[i][off[s] + j] = T[s][j]
             C(i) == \A p \in 1 .. Len(e[i]) : \E s \in 1 .. i : \E j \in 1 .. Len(T[s]) : p = off[s] + j
             D == {n \in Nat : n + 1 <= N => A(n + 1) /\ B(n + 1) /\ C(n + 1)}
  <2>4. /\ \A i \in 1 .. N : Len(e[i]) \in Nat /\ Len(T[i]) \in Nat
        /\ off[1] = 0 /\ \A i \in 2 .. N : off[i] = Len(e[i - 1])
        /\ off \in [1 .. N -> Nat]
    <3>1. \A i \in 1 .. N : Len(e[i]) \in Nat /\ Len(T[i]) \in Nat
      BY <2>1, <2>2, LenProperties
    <3>2. \A i \in 2 .. N : i - 1 \in 1 .. N
      BY <2>2
    <3>3. off \in [1 .. N -> Nat]
      BY <2>2, <3>1, <3>2
    <3>4. 1 \in 1 .. N /\ \A i \in 2 .. N : i \in 1 .. N /\ i # 1
      BY <2>2
    <3>5. off[1] = 0
      BY <3>4
    <3>6. \A i \in 2 .. N : off[i] = Len(e[i - 1])
      BY <3>4
    <3> HIDE DEF off
    <3> QED BY <3>1, <3>3, <3>5, <3>6
  <2> HIDE DEF off
  <2>5. 0 \in D
    <3>0. e[1] = T[1] /\ off[1] = 0 /\ Len(T[1]) \in Nat /\ \A s \in 1 .. 1 : s = 1
      BY <2>1, <2>2, <2>4
    <3>1. A(1) /\ B(1)
      <4>1. A(1)
        BY <3>0
      <4>2. B(1)
        BY <3>0
      <4> QED BY <4>1, <4>2
    <3>2. C(1)
      <4> TAKE p \in 1 .. Len(e[1])
      <4>1. p = off[1] + p /\ p \in 1 .. Len(T[1]) /\ 1 \in 1 .. 1
        BY <2>1, <2>2, <2>4
      <4> QED BY <4>1
    <3> HIDE DEF A, B, C
    <3> QED BY <3>1, <3>2
  <2>6. ASSUME NEW n \in Nat, n \in D PROVE n + 1 \in D
    <3> SUFFICES ASSUME n + 2 <= N PROVE A(n + 2) /\ B(n + 2) /\ C(n + 2)
      OBVIOUS
    <3> DEFINE k == n + 1
               i == n + 2
    <3>0. /\ k \in 1 .. N /\ i \in 2 .. N /\ i \in 1 .. N /\ i - 1 = k /\ k \in Nat /\ i = k + 1
          /\ 1 .. i = 1 .. k \cup {i}
      BY <2>2
    <3>1. A(k) /\ B(k) /\ C(k)
      <4> HIDE DEF A, B, C
      <4> QED BY <2>6, <2>2
    <3>2. /\ Len(e[i]) = Len(e[k]) + Len(T[i])
          /\ \A j \in 1 .. Len(e[k]) : e[i][j] = e[k][j]
          /\ \A j \in 1 .. Len(T[i]) : e[i][Len(e[k]) + j] = T[i][j]
      <4> HIDE DEF k, i
      <4> QED BY <2>3, <3>0
    <3>3. off[i] = Len(e[k]) /\ Len(e[k]) \in Nat /\ Len(T[i]) \in Nat
      <4> HIDE DEF k, i
      <4> QED BY <2>4, <3>0
    <3>4. \A s \in 1 .. k : off[s] \in Nat /\ Len(T[s]) \in Nat
      <4> HIDE DEF k, i
      <4> QED BY <2>4, <3>0, <2>2
    <3> HIDE DEF k, i
    <3>8. Len(e[i]) = Len(e[k]) + Len(T[i])
      BY <3>2
    <3>9. /\ \A a \in Nat : a <= Len(e[k]) => a <= Len(e[i])
          /\ \A a, b \in Nat : a + b <= Len(e[k]) => \A j \in 1 .. b : a + j \in 1 .. Len(e[k])
      <4> DEFINE x == Len(e[k])
                 y == Len(e[i])
                 z == Len(T[i])
      <4>1. y = x + z /\ x \in Nat /\ z \in Nat
        BY <3>3, <3>8
      <4> HIDE DEF x, y, z
      <4>2. \A a \in Nat : a <= x => a <= y
        BY <4>1
      <4>3. \A a, b \in Nat : a + b <= x => \A j \in 1 .. b : a + j \in 1 .. x
        BY <4>1
      <4> QED BY <4>2, <4>3 DEF x, y
    <3>5. A(i)
      <4> TAKE s \in 1 .. i
      <4>1. CASE s = i
        BY <4>1, <3>8, <3>3
      <4>2. CASE s \in 1 .. k
        <5>1. off[s] + Len(T[s]) <= Len(e[k])
          BY <3>1, <4>2
        <5>2. off[s] + Len(T[s]) \in Nat
          BY <3>4, <4>2
        <5> QED BY <5>1, <5>2, <3>9
      <4> QED BY <4>1, <4>2, <3>0
    <3>6. B(i)
      <4> TAKE s \in 1 .. i
      <4> TAKE j \in 1 .. Len(T[s])
      <4>1. CASE s = i
        BY <4>1, <3>2, <3>3
      <4>2. CASE s \in 1 .. k
        <5>1. off[s] + Len(T[s]) <= Len(e[k]) /\ e[k][off[s] + j] = T[s][j]
          BY <3>1, <4>2
        <5>3. off[s] \in Nat /\ Len(T[s]) \in Nat /\ j \in 1 .. Len(T[s])
          BY <3>4, <4>2
        <5>2. off[s] + j \in 1 .. Len(e[k])
          BY <5>1, <5>3, <3>9
        <5> QED BY <5>1, <5>2, <3>2
      <4> QED BY <4>1, <4>2, <3>0
    <3>7. C(i)
      <4> TAKE p \in 1 .. Len(e[i])
      <4>1. CASE p <= Len(e[k])
        <5>1. PICK s \in 1 .. k : \E j \in 1 .. Len(T[s]) : p = off[s] + j
          BY <3>1, <3>3, <4>1
        <5> QED BY <5>1, <3>0
      <4>2. CASE p > Len(e[k])
        <5>1. p - Len(e[k]) \in 1 .. Len(T[i]) /\ p = off[i] + (p - Len(e[k]))
          BY <3>8, <3>3, <4>2, <3>0
        <5>2. i \in 1 .. i
          BY <3>0
        <5> QED BY <5>1, <5>2
      <4> QED BY <4>1, <4>2, <3>3
    <3> QED BY <3>5, <3>6, <3>7 DEF i
  <2>7. A(N) /\ B(N) /\ C(N)
    <3>1. N - 1 \in D
      <4> HIDE DEF D
      <4>1. Nat \subseteq D
        BY <2>5, <2>6, Induct
      <4> QED BY <4>1, <2>2
    <3> HIDE DEF A, B, C
    <3> QED BY <3>1, <2>2
  <2>8. FlattenSeq(T) \in Seq(X)
    BY <2>1, <2>2
  <2>9. \A s, t \in 1 .. N : s < t => off[s] + Len(T[s]) <= off[t]
    <3> TAKE s, t \in 1 .. N
    <3> HAVE s < t
    <3>1. t - 1 \in D /\ t - 1 \in 1 .. N /\ t - 1 - 1 \in D
      <4> HIDE DEF D
      <4>1. Nat \subseteq D
        BY <2>5, <2>6, Induct
      <4> QED BY <4>1, <2>2
    <3>2. A(t - 1)
      <4> HIDE DEF A, B, C
      <4> QED BY <3>1, <2>2
    <3>3. s \in 1 .. (t - 1) /\ t \in 2 .. N
      BY <2>2
    <3>4. off[s] + Len(T[s]) <= Len(e[t - 1])
      BY <3>2, <3>3
    <3>5. off[t] = Len(e[t - 1])
      BY <3>3, <2>4
    <3> QED BY <3>4, <3>5
  <2>10. Lies(T, FlattenSeq(T), off)
    <3> DEFINE F == FlattenSeq(T)
    <3>1. F = e[N] /\ N = Len(T)
      BY <2>1 DEF N
    <3> HIDE DEF F
    <3>2. \A s \in 1 .. N : \A j \in 1 .. Len(T[s]) : off[s] + j \in 1 .. Len(F) /\ F[off[s] + j] = T[s][j]
      <4> TAKE s \in 1 .. N
      <4> TAKE j \in 1 .. Len(T[s])
      <4>1. off[s] \in Nat /\ Len(T[s]) \in Nat /\ off[s] + Len(T[s]) <= Len(e[N]) /\ Len(e[N]) \in Nat
        BY <2>7, <2>4, <2>2
      <4>2. e[N][off[s] + j] = T[s][j]
        BY <2>7
      <4>3. off[s] + j \in 1 .. Len(e[N])
        BY <4>1
      <4> QED BY <4>2, <4>3, <3>1
    <3>3. \A p \in 1 .. Len(F) : \E s \in 1 .. N : \E j \in 1 .. Len(T[s]) : p = off[s] + j
      BY <2>7, <3>1
    <3> QED BY <3>1, <3>2, <3>3, <2>9 DEF Lies, F
  <2> QED BY <2>4, <2>8, <2>10 DEF N
<1> QED BY <1>1, <1>2, LenProperties
-----------------------------------------------------------------------------
(* Tables. *)

Tables == Seq(Seq(Pair))

\* The pair p is in a chain.
In(T, p) == \E s \in 1 .. Len(T) : \E j \in 1 .. Len(T[s]) : T[s][j] = p

\* Every pair is in the chain of its key, which has no other of that key.
Chained(T) ==
    /\ \A s \in 1 .. Len(T) : \A j \in 1 .. Len(T[s]) : Slot(T[s][j].key, Len(T)) = s
    /\ \A s \in 1 .. Len(T) : \A i, j \in 1 .. Len(T[s]) : T[s][i].key = T[s][j].key => i = j

\* A key has a chain.
LEMMA SlotIs ==
    ASSUME NEW k \in Key, NEW n \in Nat \ {0}
    PROVE  Slot(k, n) \in 1 .. n
<1>1. Hash[k] \in Nat
  BY HashAssumption
<1> DEFINE h == Hash[k]
<1> HIDE DEF h
<1>2. h \in Nat
  BY <1>1 DEF h
<1>3. h % n \in 0 .. n - 1
  BY <1>2
<1> QED BY <1>3 DEF Slot, h

\* The types of what is in a table.
LEMMA TableTypes ==
    ASSUME NEW T \in Tables
    PROVE  /\ Len(T) \in Nat /\ T \in [1 .. Len(T) -> Seq(Pair)] /\ DOMAIN T = 1 .. Len(T)
           /\ \A s \in 1 .. Len(T) :
                 /\ T[s] \in Seq(Pair) /\ Len(T[s]) \in Nat /\ DOMAIN T[s] = 1 .. Len(T[s])
                 /\ \A j \in 1 .. Len(T[s]) : T[s][j] \in Pair
<1>1. Len(T) \in Nat /\ T \in [1 .. Len(T) -> Seq(Pair)] /\ DOMAIN T = 1 .. Len(T)
  BY LenProperties DEF Tables
<1>2. ASSUME NEW s \in 1 .. Len(T)
      PROVE  /\ T[s] \in Seq(Pair) /\ Len(T[s]) \in Nat /\ DOMAIN T[s] = 1 .. Len(T[s])
             /\ \A j \in 1 .. Len(T[s]) : T[s][j] \in Pair
  <2>1. T[s] \in Seq(Pair)
    BY <1>1
  <2> DEFINE c == T[s]
  <2> HIDE DEF c
  <2>2. c \in Seq(Pair)
    BY <2>1 DEF c
  <2>3. Len(c) \in Nat /\ DOMAIN c = 1 .. Len(c) /\ \A j \in 1 .. Len(c) : c[j] \in Pair
    BY <2>2, LenProperties, ElementOfSeq
  <2> QED BY <2>2, <2>3 DEF c
<1> QED BY <1>1, <1>2

\* A function from 1..n is a sequence.
LEMMA AsSeq ==
    ASSUME NEW X, NEW n \in Nat, NEW f \in [1 .. n -> X]
    PROVE  f \in Seq(X) /\ Len(f) = n
  OBVIOUS

\* The search in a chain.
LEMMA FindIs ==
    ASSUME NEW c \in Seq(Pair), NEW k
    PROVE  \/ Find(c, k) = 0 /\ \A j \in 1 .. Len(c) : c[j].key # k
           \/ Find(c, k) \in 1 .. Len(c) /\ c[Find(c, k)].key = k
<1> DEFINE I == {j \in 1 .. Len(c) : c[j].key = k}
<1>1. Find(c, k) = IF I # {} THEN Min(I) ELSE 0
  BY DEF Find, SelectInSeq
<1>2. ASSUME I # {} PROVE Min(I) \in I
  <2>1. I \in SUBSET Nat
    BY LenProperties
  <2> HIDE DEF I
  <2>2. \E x \in I : \A y \in I : x <= y
    BY <1>2, <2>1, HasMin
  <2> QED BY <2>2 DEF Min
<1>3. CASE I # {}
  BY <1>1, <1>2, <1>3
<1>4. CASE I = {}
  BY <1>1, <1>4
<1> QED BY <1>3, <1>4

\* A key has one pair.
LEMMA OnePair ==
    ASSUME NEW T \in Tables, Chained(T), NEW p, NEW q, In(T, p), In(T, q), p.key = q.key
    PROVE  p = q
<1>1. PICK s \in 1 .. Len(T) : \E j \in 1 .. Len(T[s]) : T[s][j] = p
  BY DEF In
<1>2. PICK t \in 1 .. Len(T) : \E j \in 1 .. Len(T[t]) : T[t][j] = q
  BY DEF In
<1>3. s = Slot(p.key, Len(T)) /\ t = Slot(q.key, Len(T))
  BY <1>1, <1>2 DEF Chained
<1>4. s = t
  BY <1>3
<1> QED BY <1>1, <1>2, <1>4 DEF Chained

\* All the pairs of a table, one behind another.
LEMMA AllPairs ==
    ASSUME NEW T \in Tables
    PROVE  /\ PairsOf(T) \in Seq(Pair)
           /\ \A p : In(T, p) <=> \E i \in 1 .. Len(PairsOf(T)) : PairsOf(T)[i] = p
           /\ Chained(T) => \A i, j \in 1 .. Len(PairsOf(T)) :
                               PairsOf(T)[i].key = PairsOf(T)[j].key => i = j
<1> DEFINE F == PairsOf(T)
<1>1. F \in Seq(Pair) /\ \E off \in [1 .. Len(T) -> Nat] : Lies(T, F, off)
  BY FlatIndex DEF PairsOf, Tables
<1> HIDE DEF F
<1>2. PICK off \in [1 .. Len(T) -> Nat] : Lies(T, F, off)
  BY <1>1
<1>3. \A s \in 1 .. Len(T) : \A j \in 1 .. Len(T[s]) : off[s] + j \in 1 .. Len(F) /\ F[off[s] + j] = T[s][j]
  BY <1>2 DEF Lies
<1>4. \A p \in 1 .. Len(F) : \E s \in 1 .. Len(T) : \E j \in 1 .. Len(T[s]) : p = off[s] + j
  BY <1>2 DEF Lies
<1>5. ASSUME NEW p PROVE In(T, p) <=> \E i \in 1 .. Len(F) : F[i] = p
  <2>1. In(T, p) => \E i \in 1 .. Len(F) : F[i] = p
    BY <1>3 DEF In
  <2>2. ASSUME NEW i \in 1 .. Len(F), F[i] = p PROVE In(T, p)
    <3>1. PICK s \in 1 .. Len(T) : \E j \in 1 .. Len(T[s]) : i = off[s] + j
      BY <1>4
    <3>2. PICK j \in 1 .. Len(T[s]) : i = off[s] + j
      BY <3>1
    <3>3. T[s][j] = p
      BY <1>3, <2>2, <3>2
    <3> QED BY <3>3 DEF In
  <2> QED BY <2>1, <2>2
<1>6. ASSUME Chained(T), NEW i \in 1 .. Len(F), NEW k \in 1 .. Len(F), F[i].key = F[k].key
      PROVE  i = k
  <2>1. PICK s \in 1 .. Len(T) : \E j \in 1 .. Len(T[s]) : i = off[s] + j
    BY <1>4
  <2>2. PICK j \in 1 .. Len(T[s]) : i = off[s] + j
    BY <2>1
  <2>3. PICK t \in 1 .. Len(T) : \E l \in 1 .. Len(T[t]) : k = off[t] + l
    BY <1>4
  <2>4. PICK l \in 1 .. Len(T[t]) : k = off[t] + l
    BY <2>3
  <2>5. T[s][j] = F[i] /\ T[t][l] = F[k]
    BY <1>3, <2>2, <2>4
  <2>6. s = Slot(F[i].key, Len(T)) /\ t = Slot(F[k].key, Len(T))
    BY <1>6, <2>5 DEF Chained
  <2>7. s = t
    BY <2>6, <1>6
  <2>8. j = l
    BY <1>6, <2>5, <2>7 DEF Chained
  <2> QED BY <2>2, <2>4, <2>7, <2>8
<1> QED BY <1>1, <1>5, <1>6 DEF F

\* A table with a new chain.
LEMMA NewChain ==
    ASSUME NEW T \in Tables, Chained(T), NEW s \in 1 .. Len(T), NEW c \in Seq(Pair),
           \A j \in 1 .. Len(c) : Slot(c[j].key, Len(T)) = s,
           \A i, j \in 1 .. Len(c) : c[i].key = c[j].key => i = j
    PROVE  /\ [T EXCEPT ![s] = c] \in Tables /\ Len([T EXCEPT ![s] = c]) = Len(T)
           /\ Chained([T EXCEPT ![s] = c])
           /\ \A p : In([T EXCEPT ![s] = c], p)
                        <=> \/ \E j \in 1 .. Len(c) : c[j] = p
                            \/ In(T, p) /\ Slot(p.key, Len(T)) # s
<1> DEFINE R == [T EXCEPT ![s] = c]
<1>0. R \in [1 .. Len(T) -> Seq(Pair)] /\ Len(T) \in Nat
  BY TableTypes
<1>2. \A t \in 1 .. Len(T) : R[t] = IF t = s THEN c ELSE T[t]
  BY TableTypes
<1>1. R \in Tables /\ Len(R) = Len(T)
  <2> HIDE DEF R
  <2> QED BY <1>0, AsSeq DEF Tables
<1> HIDE DEF R
<1>3. Chained(R)
  <2>1. ASSUME NEW t \in 1 .. Len(T)
        PROVE  /\ \A j \in 1 .. Len(R[t]) : Slot(R[t][j].key, Len(T)) = t
               /\ \A i, j \in 1 .. Len(R[t]) : R[t][i].key = R[t][j].key => i = j
    <3>1. CASE t = s
      BY <1>2, <3>1
    <3>2. CASE t # s
      <4>1. R[t] = T[t]
        BY <1>2, <3>2
      <4> QED BY <4>1 DEF Chained
    <3> QED BY <3>1, <3>2
  <2> QED BY <1>1, <2>1 DEF Chained
<1>4. ASSUME NEW p
      PROVE  In(R, p) <=> \/ \E j \in 1 .. Len(c) : c[j] = p
                          \/ In(T, p) /\ Slot(p.key, Len(T)) # s
  <2>1. ASSUME NEW t \in 1 .. Len(T), NEW j \in 1 .. Len(R[t]), R[t][j] = p
        PROVE  \/ \E i \in 1 .. Len(c) : c[i] = p
               \/ In(T, p) /\ Slot(p.key, Len(T)) # s
    <3>1. CASE t = s
      BY <1>2, <2>1, <3>1
    <3>2. CASE t # s
      <4>1. T[t][j] = p /\ j \in 1 .. Len(T[t])
        BY <1>2, <2>1, <3>2
      <4>2. Slot(p.key, Len(T)) = t
        BY <4>1 DEF Chained
      <4> QED BY <3>2, <4>1, <4>2 DEF In
    <3> QED BY <3>1, <3>2
  <2>2. ASSUME NEW j \in 1 .. Len(c), c[j] = p PROVE In(R, p)
    BY <1>1, <1>2, <2>2 DEF In
  <2>3. ASSUME In(T, p), Slot(p.key, Len(T)) # s PROVE In(R, p)
    <3>1. PICK t \in 1 .. Len(T) : \E j \in 1 .. Len(T[t]) : T[t][j] = p
      BY <2>3 DEF In
    <3>2. t # s
      BY <2>3, <3>1 DEF Chained
    <3> QED BY <1>1, <1>2, <3>1, <3>2 DEF In
  <2>4. In(R, p) => \/ \E i \in 1 .. Len(c) : c[i] = p
                    \/ In(T, p) /\ Slot(p.key, Len(T)) # s
    BY <1>1, <2>1 DEF In
  <2> QED BY <2>2, <2>3, <2>4
<1> QED BY <1>1, <1>3, <1>4 DEF R

\* The pair of a key is the one that is found in its chain.
LEMMA FoundIn ==
    ASSUME NEW T \in Tables, Chained(T), Len(T) > 0, NEW k \in Key
    PROVE  LET s == Slot(k, Len(T)) IN
           /\ s \in 1 .. Len(T)
           /\ Find(T[s], k) = 0 => \A p : In(T, p) => p.key # k
           /\ Find(T[s], k) # 0 =>
                 /\ Find(T[s], k) \in 1 .. Len(T[s]) /\ T[s][Find(T[s], k)].key = k
                 /\ In(T, T[s][Find(T[s], k)])
                 /\ \A p : In(T, p) /\ p.key = k => p = T[s][Find(T[s], k)]
<1> DEFINE s == Slot(k, Len(T))
           i == Find(T[s], k)
<1>1. s \in 1 .. Len(T)
  BY SlotIs, TableTypes
<1>2. T[s] \in Seq(Pair)
  BY <1>1, TableTypes
<1>3. \/ i = 0 /\ \A j \in 1 .. Len(T[s]) : T[s][j].key # k
      \/ i \in 1 .. Len(T[s]) /\ T[s][i].key = k
  BY <1>2, FindIs
<1>4. ASSUME NEW p, In(T, p), p.key = k PROVE \E j \in 1 .. Len(T[s]) : T[s][j] = p
  <2>1. PICK t \in 1 .. Len(T) : \E j \in 1 .. Len(T[t]) : T[t][j] = p
    BY <1>4 DEF In
  <2>2. t = Slot(p.key, Len(T))
    BY <2>1 DEF Chained
  <2>3. t = s
    BY <2>2, <1>4
  <2> QED BY <2>1, <2>3
<1>5. \A j \in 1 .. Len(T[s]) : In(T, T[s][j])
  BY <1>1 DEF In
<1> HIDE DEF s, i
<1>6. i = 0 => \A p : In(T, p) => p.key # k
  <2> HAVE i = 0
  <2>1. \A j \in 1 .. Len(T[s]) : T[s][j].key # k
    <3>1. i \notin 1 .. Len(T[s])
      BY <1>2, LenProperties
    <3> QED BY <1>3, <3>1
  <2> QED BY <1>4, <2>1
<1>7. i # 0 => /\ i \in 1 .. Len(T[s]) /\ T[s][i].key = k /\ In(T, T[s][i])
               /\ \A p : In(T, p) /\ p.key = k => p = T[s][i]
  <2> HAVE i # 0
  <2>1. i \in 1 .. Len(T[s]) /\ T[s][i].key = k
    BY <1>3
  <2>2. In(T, T[s][i])
    BY <1>5, <2>1
  <2>3. \A p : In(T, p) /\ p.key = k => p = T[s][i]
    BY <2>1, <2>2, OnePair
  <2> QED BY <2>1, <2>2, <2>3
<1> QED BY <1>1, <1>6, <1>7 DEF s, i

\* A table with another pair.
Over(T, s, i, q) == [T EXCEPT ![s][i] = q]

\* put of a key that is there.
LEMMA Replaced ==
    ASSUME NEW T \in Tables, Chained(T), Len(T) > 0, NEW k \in Key, NEW q \in Pair, q.key = k,
           NEW s, s = Slot(k, Len(T)), NEW i, i = Find(T[s], k), i # 0
    PROVE  LET R == Over(T, s, i, q) IN
           /\ R \in Tables /\ Len(R) = Len(T) /\ Chained(R)
           /\ \A p : In(R, p) <=> p = q \/ (In(T, p) /\ p.key # k)
<1> DEFINE c == [T[s] EXCEPT ![i] = q]
<1>1. s \in 1 .. Len(T) /\ T[s] \in Seq(Pair) /\ i \in 1 .. Len(T[s]) /\ T[s][i].key = k
  BY FoundIn, TableTypes
<1>2. c \in Seq(Pair) /\ Len(c) = Len(T[s]) /\ \A j \in 1 .. Len(T[s]) : c[j] = IF j = i THEN q ELSE T[s][j]
  BY <1>1, ExceptSeq
<1> HIDE DEF c
<1>3. \A j \in 1 .. Len(c) : Slot(c[j].key, Len(T)) = s
  BY <1>1, <1>2 DEF Chained
<1>4. \A j, l \in 1 .. Len(c) : c[j].key = c[l].key => j = l
  <2> TAKE j, l \in 1 .. Len(c)
  <2>1. c[j].key = T[s][j].key /\ c[l].key = T[s][l].key
    BY <1>1, <1>2
  <2> QED BY <1>1, <1>2, <2>1 DEF Chained
<1> DEFINE R == [T EXCEPT ![s] = c]
<1>5. /\ R \in Tables /\ Len(R) = Len(T) /\ Chained(R)
      /\ \A p : In(R, p) <=> \/ \E j \in 1 .. Len(c) : c[j] = p
                             \/ In(T, p) /\ Slot(p.key, Len(T)) # s
  <2> HIDE DEF R
  <2> QED BY <1>1, <1>2, <1>3, <1>4, NewChain DEF R
<1> HIDE DEF R
<1>6. ASSUME NEW p PROVE In(R, p) <=> p = q \/ (In(T, p) /\ p.key # k)
  <2>1. ASSUME NEW j \in 1 .. Len(c), c[j] = p PROVE p = q \/ (In(T, p) /\ p.key # k)
    <3>1. CASE j = i
      BY <1>2, <2>1, <3>1
    <3>2. CASE j # i
      <4>1. T[s][j] = p /\ j \in 1 .. Len(T[s])
        BY <1>2, <2>1, <3>2
      <4>2. p.key # k
        BY <1>1, <3>2, <4>1 DEF Chained
      <4> QED BY <1>1, <4>1, <4>2 DEF In
    <3> QED BY <3>1, <3>2
  <2>2. ASSUME In(T, p), Slot(p.key, Len(T)) # s PROVE p.key # k
    BY <2>2
  <2>3. p = q => \E j \in 1 .. Len(c) : c[j] = p
    BY <1>1, <1>2
  <2>4. ASSUME In(T, p), p.key # k, Slot(p.key, Len(T)) = s PROVE \E j \in 1 .. Len(c) : c[j] = p
    <3>1. PICK t \in 1 .. Len(T) : \E j \in 1 .. Len(T[t]) : T[t][j] = p
      BY <2>4 DEF In
    <3>2. t = s
      BY <2>4, <3>1 DEF Chained
    <3>3. PICK j \in 1 .. Len(T[s]) : T[s][j] = p
      BY <3>1, <3>2
    <3>4. j # i
      BY <1>1, <2>4, <3>3
    <3> QED BY <1>2, <3>3, <3>4
  <2> QED BY <1>5, <2>1, <2>2, <2>3, <2>4
<1>7. Over(T, s, i, q) = R
  BY DEF R, c, Over
<1> QED BY <1>5, <1>6, <1>7

\* A table with another chain.
With(T, s, c) == [T EXCEPT ![s] = c]

\* The chain d with the pair q at one of its ends.
Longer(d, q) == {Append(d, q), <<q>> \o d}

\* A pair of a new key, before or behind the others of its chain.
LEMMA Joined ==
    ASSUME NEW T \in Tables, Chained(T), Len(T) > 0, NEW q \in Pair, \A p : In(T, p) => p.key # q.key,
           NEW s, s = Slot(q.key, Len(T)), NEW c \in Longer(T[s], q)
    PROVE  /\ With(T, s, c) \in Tables /\ Len(With(T, s, c)) = Len(T)
           /\ Chained(With(T, s, c))
           /\ \A p : In(With(T, s, c), p) <=> p = q \/ In(T, p)
<1> DEFINE d == T[s]
           n == Len(d)
<1>1. s \in 1 .. Len(T) /\ d \in Seq(Pair) /\ n \in Nat
  <2>1. q.key \in Key
    BY DEF Pair
  <2> QED BY <2>1, SlotIs, TableTypes
<1>2. /\ \A j \in 1 .. n : Slot(d[j].key, Len(T)) = s /\ d[j].key # q.key /\ In(T, d[j])
      /\ \A i, j \in 1 .. n : d[i].key = d[j].key => i = j
  <2>1. \A j \in 1 .. n : In(T, d[j])
    BY <1>1 DEF In
  <2>2. \A j \in 1 .. n : Slot(d[j].key, Len(T)) = s
    BY <1>1 DEF Chained
  <2>3. \A i, j \in 1 .. n : d[i].key = d[j].key => i = j
    BY <1>1 DEF Chained
  <2> QED BY <2>1, <2>2, <2>3
<1> HIDE DEF d, n
<1>3. \E at \in [1 .. n -> 1 .. n + 1], x \in 1 .. n + 1 :
         /\ c \in Seq(Pair) /\ Len(c) = n + 1 /\ c[x] = q
         /\ \A j \in 1 .. n : c[at[j]] = d[j]
         /\ \A i \in 1 .. n + 1 : i = x \/ \E j \in 1 .. n : i = at[j]
  <2>1. CASE c = Append(d, q)
    <3> DEFINE at == [j \in 1 .. n |-> j]
    <3>1. at \in [1 .. n -> 1 .. n + 1] /\ n + 1 \in 1 .. n + 1
      BY <1>1
    <3>2. c \in Seq(Pair) /\ Len(c) = n + 1 /\ c[n + 1] = q /\ \A j \in 1 .. n : c[j] = d[j]
      BY <1>1, <2>1 DEF n
    <3>3. \A j \in 1 .. n : c[at[j]] = d[j]
      BY <3>2
    <3>4. \A i \in 1 .. n + 1 : i = n + 1 \/ \E j \in 1 .. n : i = at[j]
      BY <1>1
    <3> HIDE DEF at
    <3> QED BY <3>1, <3>2, <3>3, <3>4
  <2>2. CASE c = <<q>> \o d
    <3> DEFINE at == [j \in 1 .. n |-> j + 1]
               e == <<q>>
    <3>0. e \in Seq(Pair) /\ Len(e) = 1 /\ e[1] = q
      OBVIOUS
    <3> HIDE DEF e
    <3>1. at \in [1 .. n -> 1 .. n + 1] /\ 1 \in 1 .. n + 1
      BY <1>1
    <3>7. c = e \o d
      BY <2>2 DEF e
    <3>2. /\ c \in Seq(Pair) /\ Len(c) = Len(e) + Len(d)
          /\ \A i \in 1 .. Len(e) + Len(d) : c[i] = IF i <= Len(e) THEN e[i] ELSE d[i - Len(e)]
      BY <1>1, <3>0, <3>7, ConcatProperties
    <3>3. /\ c \in Seq(Pair) /\ Len(c) = 1 + n
          /\ \A i \in 1 .. 1 + n : c[i] = IF i <= 1 THEN e[i] ELSE d[i - 1]
      BY <3>0, <3>2 DEF n
    <3>4. c \in Seq(Pair) /\ Len(c) = n + 1 /\ c[1] = q /\ \A j \in 1 .. n : c[j + 1] = d[j]
      BY <3>0, <3>3, <1>1
    <3>5. \A j \in 1 .. n : c[at[j]] = d[j]
      BY <3>4
    <3>6. \A i \in 1 .. n + 1 : i = 1 \/ \E j \in 1 .. n : i = at[j]
      <4> TAKE i \in 1 .. n + 1
      <4>1. i # 1 => i - 1 \in 1 .. n /\ i = at[i - 1]
        BY <1>1
      <4> QED BY <4>1
    <3> HIDE DEF at
    <3> QED BY <3>1, <3>4, <3>5, <3>6
  <2> QED BY <2>1, <2>2 DEF d, Longer
<1>4. PICK at \in [1 .. n -> 1 .. n + 1], x \in 1 .. n + 1 :
         /\ c \in Seq(Pair) /\ Len(c) = n + 1 /\ c[x] = q
         /\ \A j \in 1 .. n : c[at[j]] = d[j]
         /\ \A i \in 1 .. n + 1 : i = x \/ \E j \in 1 .. n : i = at[j]
  BY <1>3
<1>5. \A j \in 1 .. Len(c) : Slot(c[j].key, Len(T)) = s
  <2> TAKE j \in 1 .. Len(c)
  <2>1. CASE j = x
    BY <1>4, <2>1
  <2>2. CASE j # x
    <3>1. PICK k \in 1 .. n : j = at[k]
      BY <1>4, <2>2
    <3> QED BY <1>2, <1>4, <3>1
  <2> QED BY <2>1, <2>2
<1>6. \A i, j \in 1 .. Len(c) : c[i].key = c[j].key => i = j
  <2> TAKE i, j \in 1 .. Len(c)
  <2> HAVE c[i].key = c[j].key
  <2>3. \A m \in 1 .. Len(c) : m # x => c[m].key # q.key
    <3> TAKE m \in 1 .. Len(c)
    <3> HAVE m # x
    <3>1. PICK k \in 1 .. n : m = at[k]
      BY <1>4
    <3> QED BY <1>2, <1>4, <3>1
  <2>1. CASE i = x \/ j = x
    BY <1>4, <2>1, <2>3
  <2>2. CASE i # x /\ j # x
    <3>1. PICK k \in 1 .. n : i = at[k]
      BY <1>4, <2>2
    <3>2. PICK l \in 1 .. n : j = at[l]
      BY <1>4, <2>2
    <3>3. d[k].key = d[l].key
      BY <1>4, <3>1, <3>2
    <3> QED BY <1>2, <3>1, <3>2, <3>3
  <2> QED BY <2>1, <2>2
<1> DEFINE R == [T EXCEPT ![s] = c]
<1>7. /\ R \in Tables /\ Len(R) = Len(T) /\ Chained(R)
      /\ \A p : In(R, p) <=> \/ \E j \in 1 .. Len(c) : c[j] = p
                             \/ In(T, p) /\ Slot(p.key, Len(T)) # s
  <2> HIDE DEF R
  <2> QED BY <1>1, <1>4, <1>5, <1>6, NewChain DEF R
<1> HIDE DEF R
<1>8. ASSUME NEW p PROVE In(R, p) <=> p = q \/ In(T, p)
  <2>1. ASSUME NEW j \in 1 .. Len(c), c[j] = p PROVE p = q \/ In(T, p)
    BY <1>2, <1>4, <2>1
  <2>2. p = q => \E j \in 1 .. Len(c) : c[j] = p
    BY <1>4
  <2>3. ASSUME In(T, p), Slot(p.key, Len(T)) = s PROVE \E j \in 1 .. Len(c) : c[j] = p
    <3>1. PICK t \in 1 .. Len(T) : \E j \in 1 .. Len(T[t]) : T[t][j] = p
      BY <2>3 DEF In
    <3>2. t = s
      BY <2>3, <3>1 DEF Chained
    <3>3. PICK j \in 1 .. n : d[j] = p
      BY <3>1, <3>2 DEF d, n
    <3> QED BY <1>4, <3>3
  <2> QED BY <1>7, <2>1, <2>2, <2>3
<1> QED BY <1>7, <1>8 DEF R, With

\* A sequence without its i-th element.
LEMMA RemoveIs ==
    ASSUME NEW S, NEW s \in Seq(S), NEW i \in 1 .. Len(s)
    PROVE  /\ RemoveAt(s, i) \in Seq(S) /\ Len(RemoveAt(s, i)) = Len(s) - 1
           /\ \A j \in 1 .. Len(s) - 1 : RemoveAt(s, i)[j] = IF j < i THEN s[j] ELSE s[j + 1]
<1> DEFINE a == SubSeq(s, 1, i - 1)
           b == SubSeq(s, i + 1, Len(s))
           n == Len(s)
<1>0. n \in Nat /\ i \in 1 .. n /\ \A j \in 1 .. n : s[j] \in S
  BY LenProperties, ElementOfSeq
<1> HIDE DEF n
<1>1. a \in Seq(S) /\ Len(a) = i - 1 /\ \A j \in 1 .. i - 1 : a[j] = s[j]
  <2>1. \A j \in 1 .. (i - 1) : s[j] \in S
    BY <1>0
  <2>2. /\ a \in Seq(S) /\ Len(a) = IF 1 <= i - 1 THEN i - 1 - 1 + 1 ELSE 0
        /\ \A j \in 1 .. (i - 1 - 1 + 1) : a[j] = s[1 + j - 1]
    BY <1>0, <2>1, SubSeqProperties
  <2> HIDE DEF a
  <2> QED BY <1>0, <2>2
<1>2. b \in Seq(S) /\ Len(b) = n - i /\ \A j \in 1 .. n - i : b[j] = s[i + j]
  <2>1. \A j \in (i + 1) .. n : s[j] \in S
    BY <1>0
  <2>2. /\ b \in Seq(S) /\ Len(b) = IF i + 1 <= n THEN n - (i + 1) + 1 ELSE 0
        /\ \A j \in 1 .. (n - (i + 1) + 1) : b[j] = s[i + 1 + j - 1]
    BY <1>0, <2>1, SubSeqProperties DEF n
  <2> HIDE DEF b
  <2> QED BY <1>0, <2>2
<1>3. RemoveAt(s, i) = a \o b
  BY DEF RemoveAt
<1> HIDE DEF a, b
<1> DEFINE c == a \o b
<1>4. /\ c \in Seq(S) /\ Len(c) = Len(a) + Len(b)
      /\ \A j \in 1 .. Len(a) + Len(b) : c[j] = IF j <= Len(a) THEN a[j] ELSE b[j - Len(a)]
  BY <1>1, <1>2, ConcatProperties
<1>5. RemoveAt(s, i) = c
  BY <1>3
<1> HIDE DEF c
<1>6. Len(c) = n - 1
  BY <1>0, <1>1, <1>2, <1>4
<1>7. ASSUME NEW j \in 1 .. n - 1 PROVE c[j] = IF j < i THEN s[j] ELSE s[j + 1]
  <2>1. c[j] = IF j <= i - 1 THEN a[j] ELSE b[j - (i - 1)]
    BY <1>0, <1>1, <1>2, <1>4
  <2>2. CASE j < i
    BY <1>0, <1>1, <2>1, <2>2
  <2>3. CASE ~(j < i)
    <3>1. j - (i - 1) \in 1 .. n - i /\ i + (j - (i - 1)) = j + 1
      BY <1>0, <2>3
    <3>2. b[j - (i - 1)] = s[j + 1]
      BY <1>2, <3>1
    <3> QED BY <1>0, <2>1, <2>3, <3>2
  <2> QED BY <2>2, <2>3
<1> QED BY <1>4, <1>5, <1>6, <1>7 DEF n

\* A table without a pair.
Cut(T, s, i) == [T EXCEPT ![s] = RemoveAt(@, i)]

\* remove.
LEMMA Dropped ==
    ASSUME NEW T \in Tables, Chained(T), Len(T) > 0, NEW k \in Key,
           NEW s, s = Slot(k, Len(T)), NEW i, i = Find(T[s], k), i # 0
    PROVE  LET R == Cut(T, s, i) IN
           /\ R \in Tables /\ Len(R) = Len(T) /\ Chained(R)
           /\ \A p : In(R, p) <=> In(T, p) /\ p.key # k
<1> DEFINE d == T[s]
           n == Len(d)
           c == RemoveAt(d, i)
<1>1. s \in 1 .. Len(T) /\ d \in Seq(Pair) /\ i \in 1 .. n /\ d[i].key = k /\ n \in Nat
  BY FoundIn, TableTypes, LenProperties
<1>2. /\ \A j \in 1 .. n : Slot(d[j].key, Len(T)) = s
      /\ \A j, l \in 1 .. n : d[j].key = d[l].key => j = l
      /\ \A j \in 1 .. n : In(T, d[j])
  BY <1>1 DEF Chained, In
<1> HIDE DEF d
<1>3. /\ c \in Seq(Pair) /\ Len(c) = n - 1
      /\ \A j \in 1 .. n - 1 : c[j] = IF j < i THEN d[j] ELSE d[j + 1]
  BY <1>1, RemoveIs
<1> HIDE DEF n, c
<1> DEFINE to(j) == IF j < i THEN j ELSE j + 1
<1>4. \A j \in 1 .. n - 1 : to(j) \in 1 .. n /\ to(j) # i /\ c[j] = d[to(j)]
  BY <1>1, <1>3
<1>5. \A l \in 1 .. n : l # i => \E j \in 1 .. n - 1 : to(j) = l
  <2> TAKE l \in 1 .. n
  <2> HAVE l # i
  <2>1. CASE l < i
    BY <1>1, <2>1
  <2>2. CASE l > i
    <3>1. l - 1 \in 1 .. n - 1 /\ to(l - 1) = l
      BY <1>1, <2>2
    <3> QED BY <3>1
  <2> QED BY <1>1, <2>1, <2>2
<1>6. \A j, l \in 1 .. n - 1 : to(j) = to(l) => j = l
  BY <1>1
<1> HIDE DEF to
<1>7. \A j \in 1 .. Len(c) : Slot(c[j].key, Len(T)) = s
  BY <1>2, <1>3, <1>4
<1>8. \A j, l \in 1 .. Len(c) : c[j].key = c[l].key => j = l
  <2> TAKE j, l \in 1 .. Len(c)
  <2> HAVE c[j].key = c[l].key
  <2>1. to(j) = to(l)
    BY <1>2, <1>3, <1>4
  <2> QED BY <1>3, <1>6, <2>1
<1> DEFINE R == [T EXCEPT ![s] = c]
<1>9. /\ R \in Tables /\ Len(R) = Len(T) /\ Chained(R)
      /\ \A p : In(R, p) <=> \/ \E j \in 1 .. Len(c) : c[j] = p
                             \/ In(T, p) /\ Slot(p.key, Len(T)) # s
  <2> HIDE DEF R
  <2> QED BY <1>1, <1>3, <1>7, <1>8, NewChain DEF R
<1> HIDE DEF R
<1>10. ASSUME NEW p PROVE In(R, p) <=> In(T, p) /\ p.key # k
  <2>1. ASSUME NEW j \in 1 .. Len(c), c[j] = p PROVE In(T, p) /\ p.key # k
    <3>1. to(j) \in 1 .. n /\ to(j) # i /\ p = d[to(j)]
      BY <1>3, <1>4, <2>1
    <3> QED BY <1>1, <1>2, <3>1
  <2>2. ASSUME In(T, p), p.key # k, Slot(p.key, Len(T)) = s PROVE \E j \in 1 .. Len(c) : c[j] = p
    <3>1. PICK t \in 1 .. Len(T) : \E j \in 1 .. Len(T[t]) : T[t][j] = p
      BY <2>2 DEF In
    <3>2. t = s
      BY <2>2, <3>1 DEF Chained
    <3>3. PICK l \in 1 .. n : d[l] = p
      BY <3>1, <3>2 DEF d, n
    <3>4. PICK j \in 1 .. n - 1 : to(j) = l
      BY <1>1, <1>5, <2>2, <3>3
    <3> QED BY <1>3, <1>4, <3>3, <3>4
  <2>3. In(T, p) /\ Slot(p.key, Len(T)) # s => p.key # k
    OBVIOUS
  <2> QED BY <1>9, <2>1, <2>2, <2>3
<1>11. Cut(T, s, i) = R
  BY DEF R, c, d, Cut
<1> QED BY <1>9, <1>10, <1>11

\* A pair at another place in the file.
At(p, i) == [p EXCEPT !.pos = i]

\* writeFile: the pairs are the same but for their places, the indices in the order
\* of the chains.
LEMMA Moved ==
    ASSUME NEW T \in Tables, Chained(T)
    PROVE  LET R == Repositioned(T) IN
           /\ R \in Tables /\ Len(R) = Len(T) /\ Chained(R)
           /\ \A p : In(R, p) <=> \E q : In(T, q) /\ p = At(q, Find(PairsOf(T), q.key))
<1> DEFINE F == PairsOf(T)
           to(q) == At(q, Find(F, q.key))
           R == Repositioned(T)
<1>1. R = [s \in 1 .. Len(T) |-> [j \in 1 .. Len(T[s]) |-> to(T[s][j])]]
  <2>1. DOMAIN T = 1 .. Len(T) /\ \A s \in 1 .. Len(T) : DOMAIN T[s] = 1 .. Len(T[s])
    BY TableTypes
  <2>2. R = [s \in DOMAIN T |-> [j \in DOMAIN T[s] |-> to(T[s][j])]]
    BY DEF Repositioned, At, Find
  <2> HIDE DEF R, to
  <2> QED BY <2>1, <2>2
<1>2. ASSUME NEW q \in Pair PROVE to(q) \in Pair /\ to(q).key = q.key
  <2>1. Find(F, q.key) \in Nat
    <3>1. F \in Seq(Pair)
      BY AllPairs
    <3> HIDE DEF F
    <3>2. Len(F) \in Nat
      BY <3>1, LenProperties
    <3> QED BY <3>1, <3>2, FindIs
  <2> QED BY <2>1 DEF At, Pair
<1> HIDE DEF R, to
<1>3. \A s \in 1 .. Len(T) : /\ T[s] \in Seq(Pair) /\ Len(T[s]) \in Nat
                             /\ \A j \in 1 .. Len(T[s]) : T[s][j] \in Pair
  BY TableTypes
<1>4. ASSUME NEW s \in 1 .. Len(T)
      PROVE  /\ R[s] \in Seq(Pair) /\ Len(R[s]) = Len(T[s])
             /\ \A j \in 1 .. Len(T[s]) : R[s][j] = to(T[s][j])
  <2> DEFINE n == Len(T[s])
             c == [j \in 1 .. n |-> to(T[s][j])]
  <2>1. R[s] = c
    BY <1>1
  <2>2. c \in [1 .. n -> Pair] /\ n \in Nat
    BY <1>2, <1>3
  <2>3. \A j \in 1 .. n : c[j] = to(T[s][j])
    OBVIOUS
  <2> HIDE DEF c, n
  <2>4. c \in Seq(Pair) /\ Len(c) = n
    BY <2>2, AsSeq
  <2> QED BY <2>1, <2>3, <2>4 DEF n
<1>5. R \in Tables /\ Len(R) = Len(T)
  <2>1. R \in [1 .. Len(T) -> Seq(Pair)] /\ Len(T) \in Nat
    BY <1>1, <1>4, TableTypes
  <2> QED BY <2>1, AsSeq DEF Tables
<1>6. Chained(R)
  <2>1. ASSUME NEW s \in 1 .. Len(T), NEW j \in 1 .. Len(T[s])
        PROVE  R[s][j].key = T[s][j].key
    BY <1>2, <1>3, <1>4
  <2>2. \A s \in 1 .. Len(R) : \A j \in 1 .. Len(R[s]) : Slot(R[s][j].key, Len(R)) = s
    BY <1>4, <1>5, <2>1 DEF Chained
  <2>3. \A s \in 1 .. Len(R) : \A i, j \in 1 .. Len(R[s]) : R[s][i].key = R[s][j].key => i = j
    BY <1>4, <1>5, <2>1 DEF Chained
  <2> QED BY <2>2, <2>3 DEF Chained
<1>7. ASSUME NEW p PROVE In(R, p) <=> \E q : In(T, q) /\ p = to(q)
  <2>1. ASSUME NEW s \in 1 .. Len(R), NEW j \in 1 .. Len(R[s]), R[s][j] = p
        PROVE  \E q : In(T, q) /\ p = to(q)
    <3>1. s \in 1 .. Len(T) /\ j \in 1 .. Len(T[s]) /\ p = to(T[s][j])
      BY <1>4, <1>5, <2>1
    <3>2. In(T, T[s][j])
      BY <3>1 DEF In
    <3> QED BY <3>1, <3>2
  <2>2. ASSUME NEW q, In(T, q), p = to(q) PROVE In(R, p)
    <3>1. PICK s \in 1 .. Len(T) : \E j \in 1 .. Len(T[s]) : T[s][j] = q
      BY <2>2 DEF In
    <3>2. PICK j \in 1 .. Len(T[s]) : T[s][j] = q
      BY <3>1
    <3>3. s \in 1 .. Len(R) /\ j \in 1 .. Len(R[s]) /\ R[s][j] = p
      BY <1>4, <1>5, <2>2, <3>2
    <3> QED BY <3>3 DEF In
  <2> QED BY <2>1, <2>2 DEF In
<1> QED BY <1>5, <1>6, <1>7 DEF R, to

\* An empty table.
LEMMA EmptyIs ==
    ASSUME NEW n \in Nat
    PROVE  /\ EmptyTable(n) \in Tables /\ Len(EmptyTable(n)) = n /\ Chained(EmptyTable(n))
           /\ \A p : ~In(EmptyTable(n), p)
<1> DEFINE E == EmptyTable(n)
<1>1. E \in [1 .. n -> Seq(Pair)] /\ \A s \in 1 .. n : E[s] = <<>>
  BY EmptySeq DEF EmptyTable
<1> HIDE DEF E
<1>2. E \in Tables /\ Len(E) = n
  BY <1>1, AsSeq DEF Tables
<1>3. \A s \in 1 .. Len(E) : \A j \in 1 .. Len(E[s]) : FALSE
  BY <1>1, <1>2
<1>4. Chained(E)
  BY <1>3 DEF Chained
<1>5. \A p : ~In(E, p)
  BY <1>3 DEF In
<1> QED BY <1>2, <1>4, <1>5 DEF E

\* resize: the pairs are the same, in chains of their own.
LEMMA ResizedIs ==
    ASSUME NEW T \in Tables, Chained(T), NEW n \in Nat \ {0}
    PROVE  LET R == Resized(T, n) IN
           /\ R \in Tables /\ Len(R) = n /\ Chained(R)
           /\ \A p : In(R, p) <=> In(T, p)
<1> DEFINE F == PairsOf(T)
           N == Len(F)
           one(R, q) == [R EXCEPT ![Slot(q.key, n)] = <<q>> \o @]
           Q(R, m) == /\ R \in Tables /\ Len(R) = n /\ Chained(R)
                      /\ \A p : In(R, p) <=> \E i \in 1 .. m : F[i] = p
           G(f, m) == /\ f = [i \in 0 .. m |-> f[i]]
                      /\ f[0] = EmptyTable(n)
                      /\ \A i \in 1 .. m : f[i] = one(f[i - 1], F[i])
           E == CHOOSE h : h = [i \in 0 .. N |-> IF i = 0 THEN EmptyTable(n) ELSE one(h[i - 1], F[i])]
<1>1. /\ F \in Seq(Pair) /\ N \in Nat /\ \A i \in 1 .. N : F[i] \in Pair
      /\ \A p : In(T, p) <=> \E i \in 1 .. N : F[i] = p
      /\ \A i, j \in 1 .. N : F[i].key = F[j].key => i = j
  <2>1. /\ F \in Seq(Pair) /\ \A p : In(T, p) <=> \E i \in 1 .. N : F[i] = p
        /\ \A i, j \in 1 .. N : F[i].key = F[j].key => i = j
    BY AllPairs
  <2> HIDE DEF F
  <2> QED BY <2>1, LenProperties, ElementOfSeq
<1>2. Resized(T, n) = E[N]
  BY DEF Resized
<1> HIDE DEF F, N, one
<1>3. ASSUME NEW R, NEW m \in Nat, m + 1 <= N, Q(R, m) PROVE Q(one(R, F[m + 1]), m + 1)
  <2> DEFINE q == F[m + 1]
             s == Slot(q.key, n)
             c == <<q>> \o R[s]
  <2>1. q \in Pair
    BY <1>1, <1>3
  <2>2. \A p : In(R, p) => p.key # q.key
    <3> TAKE p
    <3> HAVE In(R, p)
    <3>1. PICK i \in 1 .. m : F[i] = p
      BY <1>3
    <3>2. i \in 1 .. N /\ m + 1 \in 1 .. N /\ i # m + 1
      BY <1>1, <1>3
    <3> QED BY <1>1, <3>1, <3>2
  <2>3. one(R, q) = With(R, s, c)
    BY DEF one, With
  <2>9. c \in Longer(R[s], q)
    BY DEF Longer
  <2>10. R \in Tables /\ Chained(R) /\ Len(R) = n /\ s = Slot(q.key, Len(R)) /\ Len(R) > 0
    BY <1>3
  <2> HIDE DEF q, c, s
  <2> DEFINE W == With(R, s, c)
  <2>4. W \in Tables /\ Len(W) = n /\ Chained(W) /\ \A p : In(W, p) <=> p = q \/ In(R, p)
    BY <2>1, <2>2, <2>9, <2>10, Joined
  <2> HIDE DEF W
  <2>5. ASSUME NEW p PROVE (p = q \/ In(R, p)) <=> \E i \in 1 .. m + 1 : F[i] = p
    <3>1. 1 .. m + 1 = (1 .. m) \cup {m + 1}
      OBVIOUS
    <3>2. In(R, p) <=> \E i \in 1 .. m : F[i] = p
      BY <1>3
    <3> QED BY <3>1, <3>2 DEF q
  <2>7. W \in Tables /\ Len(W) = n /\ Chained(W) /\ \A p : In(W, p) <=> \E i \in 1 .. m + 1 : F[i] = p
    BY <2>4, <2>5
  <2>8. one(R, F[m + 1]) = W
    BY <2>3 DEF q, W
  <2> QED BY <2>7, <2>8
<1> DEFINE S == {m \in Nat : \E f : G(f, m)}
<1>4. 0 \in S
  <2>1. G([i \in 0 .. 0 |-> EmptyTable(n)], 0)
    OBVIOUS
  <2> HIDE DEF G
  <2> QED BY <2>1
<1>5. ASSUME NEW m \in Nat, m \in S PROVE m + 1 \in S
  <2>1. PICK f : G(f, m)
    <3> HIDE DEF G
    <3> QED BY <1>5
  <2> DEFINE new == one(f[m], F[m + 1])
             g == [i \in 0 .. m + 1 |-> IF i <= m THEN f[i] ELSE new]
  <2> HIDE DEF new
  <2>2. \A i \in 0 .. m : g[i] = f[i]
    OBVIOUS
  <2>3. g[m + 1] = new
    OBVIOUS
  <2>4. g = [i \in 0 .. m + 1 |-> g[i]]
    OBVIOUS
  <2> HIDE DEF g
  <2>5. g[0] = EmptyTable(n)
    BY <2>1, <2>2
  <2>6. ASSUME NEW i \in 1 .. m + 1 PROVE g[i] = one(g[i - 1], F[i])
    <3>1. CASE i <= m
      <4>1. i \in 1 .. m /\ i - 1 \in 0 .. m /\ i \in 0 .. m
        BY <3>1
      <4> QED BY <2>1, <2>2, <4>1
    <3>2. CASE i = m + 1
      <4>1. g[i] = new /\ g[i - 1] = f[m]
        BY <2>2, <2>3, <3>2
      <4>2. g[i] = one(f[m], F[i]) /\ g[i - 1] = f[m]
        BY <3>2, <4>1 DEF new
      <4> QED BY <4>2
    <3> QED BY <3>1, <3>2
  <2>7. G(g, m + 1)
    BY <2>4, <2>5, <2>6
  <2> HIDE DEF G
  <2> QED BY <2>7
<1>6. PICK f : G(f, N)
  <2>1. N \in S
    <3> HIDE DEF S
    <3> QED BY <1>1, <1>4, <1>5, Induct
  <2> HIDE DEF G
  <2> QED BY <2>1
<1>7. f = [i \in 0 .. N |-> IF i = 0 THEN EmptyTable(n) ELSE one(f[i - 1], F[i])]
  <2> DEFINE H == [i \in 0 .. N |-> IF i = 0 THEN EmptyTable(n) ELSE one(f[i - 1], F[i])]
  <2>1. \A i \in 0 .. N : f[i] = H[i]
    <3> TAKE i \in 0 .. N
    <3>1. CASE i = 0
      BY <1>6, <3>1
    <3>2. CASE i # 0
      <4>1. i \in 1 .. N /\ H[i] = one(f[i - 1], F[i])
        BY <1>1, <3>2
      <4> HIDE DEF H
      <4> QED BY <1>6, <4>1
    <3> QED BY <3>1, <3>2
  <2>2. H = [i \in 0 .. N |-> H[i]]
    OBVIOUS
  <2> HIDE DEF H
  <2>3. H = f
    BY <1>6, <2>1, <2>2
  <2> QED BY <2>3 DEF H
<1>8. E = [i \in 0 .. N |-> IF i = 0 THEN EmptyTable(n) ELSE one(E[i - 1], F[i])]
  <2> DEFINE P(h) == h = [i \in 0 .. N |-> IF i = 0 THEN EmptyTable(n) ELSE one(h[i - 1], F[i])]
  <2>1. P(f)
    BY <1>7
  <2> HIDE DEF P
  <2>2. P(CHOOSE h : P(h))
    BY <2>1, Zenon
  <2> QED BY <2>2 DEF P
<1> HIDE DEF E
<1>9. E[0] = EmptyTable(n) /\ \A i \in 1 .. N : E[i] = one(E[i - 1], F[i])
  <2> DEFINE H == [i \in 0 .. N |-> IF i = 0 THEN EmptyTable(n) ELSE one(E[i - 1], F[i])]
  <2>1. H[0] = EmptyTable(n) /\ \A i \in 1 .. N : H[i] = one(E[i - 1], F[i])
    BY <1>1
  <2>2. E = H
    BY <1>8
  <2> HIDE DEF H
  <2> QED BY <2>1, <2>2
<1> DEFINE D == {m \in Nat : m <= N => Q(E[m], m)}
<1>10. 0 \in D
  <2>1. Q(EmptyTable(n), 0)
    BY EmptyIs
  <2> HIDE DEF Q
  <2> QED BY <1>9, <2>1
<1>11. ASSUME NEW m \in Nat, m \in D PROVE m + 1 \in D
  <2> SUFFICES ASSUME m + 1 <= N PROVE Q(E[m + 1], m + 1)
    <3> HIDE DEF Q
    <3> QED OBVIOUS
  <2> HIDE DEF Q
  <2>1. Q(E[m], m)
    BY <1>1, <1>11
  <2>2. E[m + 1] = one(E[m], F[m + 1])
    <3>1. m + 1 \in 1 .. N /\ m + 1 - 1 = m
      BY <1>1
    <3> QED BY <1>9, <3>1
  <2>3. Q(one(E[m], F[m + 1]), m + 1)
    BY <1>3, <2>1
  <2> QED BY <2>2, <2>3
<1>12. Q(E[N], N)
  <2>1. N \in D
    <3> HIDE DEF D
    <3> QED BY <1>1, <1>10, <1>11, Induct
  <2> HIDE DEF Q
  <2> QED BY <2>1, <1>1
<1> QED BY <1>1, <1>2, <1>12
-----------------------------------------------------------------------------
(* The file. *)

Recs(f)     == Flushed(f).disk
Rec(p)      == [key |-> p.key, val |-> p.val, dead |-> FALSE]
PairsIn(T)  == UNION {{T[s][j] : j \in 1 .. Len(T[s])} : s \in 1 .. Len(T)}
Unique(S)   == \A p, q \in S : p.key = q.key => p = q

\* The live records are those of the pairs of S, each at the place its pair knows.
Match(S, recs) ==
    /\ \A p \in S : p.pos \in Live(recs) /\ recs[p.pos].key = p.key /\ recs[p.pos].val = p.val
    /\ \A i \in Live(recs) : \E p \in S : p.pos = i

\* No key has two live records.
Fresh(recs) == \A i, j \in Live(recs) : recs[i].key = recs[j].key => i = j

\* What is in a table, as a set.
LEMMA PairsInIs ==
    ASSUME NEW T \in Tables
    PROVE  /\ PairsIn(T) \subseteq Pair
           /\ \A p : p \in PairsIn(T) <=> In(T, p)
<1>1. \A p : p \in PairsIn(T) <=> In(T, p)
  BY DEF PairsIn, In
<1>2. \A p : In(T, p) => p \in Pair
  BY TableTypes DEF In
<1> QED BY <1>1, <1>2

\* The pairs of a table have different keys.
LEMMA UniqueIn ==
    ASSUME NEW T \in Tables, Chained(T)
    PROVE  Unique(PairsIn(T))
  BY PairsInIs, OnePair DEF Unique

\* A mark sets the flag of one record.
LEMMA MarkedIs ==
    ASSUME NEW recs \in Seq(Record), NEW i \in 0 .. Len(recs)
    PROVE  /\ Marked(recs, i) \in Seq(Record) /\ Len(Marked(recs, i)) = Len(recs)
           /\ \A j \in 1 .. Len(recs) :
                 /\ Marked(recs, i)[j].key = recs[j].key /\ Marked(recs, i)[j].val = recs[j].val
                 /\ j # i => Marked(recs, i)[j] = recs[j]
           /\ i # 0 => Marked(recs, i)[i].dead
           /\ Live(Marked(recs, i)) = Live(recs) \ {i}
<1>0. Len(recs) \in Nat /\ DOMAIN recs = 1 .. Len(recs) /\ \A j \in 1 .. Len(recs) : recs[j] \in Record
  BY LenProperties, ElementOfSeq
<1>1. CASE i = 0
  BY <1>0, <1>1 DEF Marked, Live
<1>2. CASE i # 0
  <2> DEFINE m == [recs EXCEPT ![i].dead = TRUE]
             r == [recs[i] EXCEPT !.dead = TRUE]
  <2>1. i \in 1 .. Len(recs) /\ Marked(recs, i) = m
    BY <1>0, <1>2 DEF Marked
  <2>2. r \in Record /\ r.key = recs[i].key /\ r.val = recs[i].val /\ r.dead = TRUE
    BY <1>0, <2>1 DEF Record
  <2>3. m = [recs EXCEPT ![i] = r]
    OBVIOUS
  <2> HIDE DEF r
  <2>4. /\ m \in Seq(Record) /\ Len(m) = Len(recs)
        /\ \A j \in 1 .. Len(recs) : m[j] = IF j = i THEN r ELSE recs[j]
    <3> DEFINE n == Len(recs)
               w == [recs EXCEPT ![i] = r]
    <3>1. recs \in [1 .. n -> Record] /\ n \in Nat
      BY LenProperties
    <3> HIDE DEF n
    <3>2. w \in [1 .. n -> Record] /\ \A j \in 1 .. n : w[j] = IF j = i THEN r ELSE recs[j]
      BY <2>2, <3>1
    <3> HIDE DEF w
    <3>3. w \in Seq(Record) /\ Len(w) = n
      BY <3>1, <3>2, AsSeq
    <3> QED BY <2>3, <3>2, <3>3 DEF n, w
  <2> HIDE DEF m
  <2>5. DOMAIN m = 1 .. Len(recs)
    BY <2>4, LenProperties
  <2>6. Live(m) = Live(recs) \ {i}
    BY <1>0, <2>1, <2>2, <2>4, <2>5 DEF Live
  <2> QED BY <2>1, <2>2, <2>4, <2>6
<1> QED BY <1>1, <1>2

\* A new record is live.
LEMMA AddedIs ==
    ASSUME NEW recs \in Seq(Record), NEW r \in Record, ~r.dead
    PROVE  /\ Append(recs, r) \in Seq(Record) /\ Len(Append(recs, r)) = Len(recs) + 1
           /\ \A j \in 1 .. Len(recs) : Append(recs, r)[j] = recs[j]
           /\ Append(recs, r)[Len(recs) + 1] = r
           /\ Live(Append(recs, r)) = Live(recs) \cup {Len(recs) + 1}
<1> DEFINE n == Len(recs)
           a == Append(recs, r)
<1>1. n \in Nat /\ DOMAIN recs = 1 .. n
  BY LenProperties
<1>2. a \in Seq(Record) /\ Len(a) = n + 1 /\ a[n + 1] = r /\ \A j \in 1 .. n : a[j] = recs[j]
  OBVIOUS
<1>3. DOMAIN a = 1 .. n + 1
  BY <1>2, LenProperties
<1> HIDE DEF a, n
<1>4. Live(a) = Live(recs) \cup {n + 1}
  BY <1>1, <1>2, <1>3 DEF Live
<1> QED BY <1>2, <1>4 DEF a, n

\* What the file and the buffer hold.
LEMMA RecsIs ==
    ASSUME NEW f \in File, f.mark \in 0 .. Len(f.disk)
    PROVE  /\ Recs(f) \in Seq(Record) /\ Len(Recs(f)) \in Nat
           /\ Recs(f) = Marked(f.disk, f.mark) \o f.tail
           /\ Flushed(f) \in File
<1>1. f.disk \in Seq(Record) /\ f.tail \in Seq(Record)
  BY DEF File
<1>2. Recs(f) = Marked(f.disk, f.mark) \o f.tail
  BY DEF Recs, Flushed
<1>3. Marked(f.disk, f.mark) \in Seq(Record)
  BY <1>1, MarkedIs
<1>4. Recs(f) \in Seq(Record)
  BY <1>1, <1>2, <1>3, ConcatProperties
<1>5. Flushed(f) \in File
  <2>1. Flushed(f) = [disk |-> Recs(f), mark |-> 0, tail |-> <<>>]
    BY DEF Flushed, Recs
  <2> QED BY <1>4, <2>1, EmptySeq DEF File
<1> QED BY <1>2, <1>4, <1>5, LenProperties

\* write.
LEMMA WrittenIs ==
    ASSUME NEW f \in File, f.mark \in 0 .. Len(f.disk), NEW k \in Key, NEW v \in Val
    PROVE  LET g == Written(f, k, v)
               r == [key |-> k, val |-> v, dead |-> FALSE] IN
           /\ g \in File /\ g.mark = 0 /\ r \in Record
           /\ Recs(g) = Append(Recs(f), r) /\ g.disk \o g.tail = Append(Recs(f), r)
<1> DEFINE g == Written(f, k, v)
           r == [key |-> k, val |-> v, dead |-> FALSE]
<1>1. r \in Record
  BY DEF Record
<1>2. g.disk = Recs(f) /\ g.mark = 0 /\ g.tail = <<r>> /\ g = [disk |-> Recs(f), mark |-> 0, tail |-> <<r>>]
  <2>1. Flushed(f) = [disk |-> Recs(f), mark |-> 0, tail |-> <<>>]
    BY DEF Flushed, Recs
  <2>2. g = [Flushed(f) EXCEPT !.tail = <<r>>]
    BY DEF Written, r
  <2> HIDE DEF g
  <2>3. g = [disk |-> Recs(f), mark |-> 0, tail |-> <<r>>]
    <3> HIDE DEF r
    <3> QED BY <2>1, <2>2
  <2> HIDE DEF r
  <2> QED BY <2>3
<1> HIDE DEF r
<1>3. Recs(f) \in Seq(Record)
  BY RecsIs
<1>4. <<r>> \in Seq(Record)
  BY <1>1
<1>5. g \in File
  BY <1>2, <1>3, <1>4 DEF File
<1>6. Recs(f) \o <<r>> = Append(Recs(f), r)
  BY <1>3
<1>7. Recs(g) = g.disk \o g.tail
  BY <1>2 DEF Recs, Flushed, Marked
<1> QED BY <1>1, <1>2, <1>5, <1>6, <1>7 DEF r

\* mark.
LEMMA MarkIs ==
    ASSUME NEW f \in File, f.mark \in 0 .. Len(f.disk), NEW i \in 1 .. Len(Recs(f))
    PROVE  LET g == Mark(f, i) IN
           /\ g \in File /\ g.mark = i /\ g.disk = Recs(f)
           /\ Recs(g) = Marked(Recs(f), i) /\ g.disk \o g.tail = Recs(f)
<1> DEFINE g == Mark(f, i)
<1>1. g = [disk |-> Recs(f), mark |-> i, tail |-> <<>>]
  <2>1. Flushed(f) = [disk |-> Recs(f), mark |-> 0, tail |-> <<>>]
    BY DEF Flushed, Recs
  <2>2. g = [Flushed(f) EXCEPT !.mark = i]
    BY DEF Mark
  <2> HIDE DEF g
  <2> QED BY <2>1, <2>2
<1>2. g.disk = Recs(f) /\ g.mark = i /\ g.tail = <<>>
  BY <1>1
<1> HIDE DEF g
<1>3. Recs(f) \in Seq(Record) /\ Len(Recs(f)) \in Nat
  BY RecsIs
<1>4. g \in File
  BY <1>1, <1>3, EmptySeq DEF File
<1>5. Marked(Recs(f), i) \in Seq(Record)
  BY <1>3, MarkedIs
<1>6. Recs(g) = Marked(Recs(f), i) \o <<>>
  BY <1>2 DEF Recs, Flushed
<1>7. Recs(g) = Marked(Recs(f), i)
  BY <1>5, <1>6, ConcatEmptySeq
<1>8. g.disk \o g.tail = Recs(f)
  BY <1>2, <1>3, ConcatEmptySeq
<1> QED BY <1>2, <1>4, <1>7, <1>8 DEF g

\* mark and write.
LEMMA UpdatedIs ==
    ASSUME NEW f \in File, f.mark \in 0 .. Len(f.disk), NEW i \in 1 .. Len(Recs(f)),
           NEW k \in Key, NEW v \in Val
    PROVE  LET g == Updated(f, i, k, v)
               r == [key |-> k, val |-> v, dead |-> FALSE] IN
           /\ g \in File /\ g.mark = 0 /\ r \in Record
           /\ Recs(g) = Append(Marked(Recs(f), i), r) /\ g.disk \o g.tail = Append(Marked(Recs(f), i), r)
<1> DEFINE m == Mark(f, i)
<1>1. m \in File /\ m.mark = i /\ m.disk = Recs(f) /\ Recs(m) = Marked(Recs(f), i)
  BY MarkIs
<1>2. m.mark \in 0 .. Len(m.disk)
  BY <1>1, RecsIs
<1> HIDE DEF m
<1>3. /\ Written(m, k, v) \in File /\ Written(m, k, v).mark = 0
      /\ [key |-> k, val |-> v, dead |-> FALSE] \in Record
      /\ Recs(Written(m, k, v)) = Append(Recs(m), [key |-> k, val |-> v, dead |-> FALSE])
      /\ Written(m, k, v).disk \o Written(m, k, v).tail = Append(Recs(m), [key |-> k, val |-> v, dead |-> FALSE])
  BY <1>1, <1>2, WrittenIs
<1>4. Updated(f, i, k, v) = Written(m, k, v)
  BY DEF Updated, m
<1> QED BY <1>1, <1>3, <1>4

\* writeFile.
LEMMA RewrittenIs ==
    ASSUME NEW pairs \in Seq(Pair)
    PROVE  LET g == Rewritten(pairs) IN
           /\ g \in File /\ g.mark = 0 /\ g.disk = <<>> /\ g.tail = Records(pairs)
           /\ Recs(g) = Records(pairs) /\ g.disk \o g.tail = Records(pairs)
           /\ Records(pairs) \in Seq(Record) /\ Len(Records(pairs)) = Len(pairs)
           /\ \A i \in 1 .. Len(pairs) : Records(pairs)[i] = Rec(pairs[i])
           /\ Live(Records(pairs)) = 1 .. Len(pairs)
<1> DEFINE g == Rewritten(pairs)
           R == Records(pairs)
           n == Len(pairs)
<1>1. n \in Nat /\ DOMAIN pairs = 1 .. n /\ \A i \in 1 .. n : pairs[i] \in Pair
  BY LenProperties, ElementOfSeq
<1> HIDE DEF n
<1>2. R = [i \in 1 .. n |-> Rec(pairs[i])]
  BY <1>1 DEF Records, Rec
<1>3. \A i \in 1 .. n : Rec(pairs[i]) \in Record /\ ~Rec(pairs[i]).dead
  BY <1>1 DEF Rec, Record, Pair
<1>4. R \in [1 .. n -> Record] /\ \A i \in 1 .. n : R[i] = Rec(pairs[i])
  BY <1>2, <1>3
<1> HIDE DEF R
<1>5. R \in Seq(Record) /\ Len(R) = n /\ DOMAIN R = 1 .. n
  BY <1>1, <1>4, AsSeq
<1>6. Live(R) = 1 .. n
  BY <1>3, <1>4, <1>5 DEF Live
<1>7. g = [disk |-> <<>>, mark |-> 0, tail |-> R]
  BY DEF Rewritten, R
<1>8. g.disk = <<>> /\ g.mark = 0 /\ g.tail = R
  BY <1>7
<1>9. g \in File
  BY <1>5, <1>7, EmptySeq DEF File
<1> HIDE DEF g
<1>10. <<>> \o R = R
  BY <1>5, ConcatEmptySeq
<1>11. Recs(g) = <<>> \o R
  BY <1>8 DEF Recs, Flushed, Marked
<1> QED BY <1>4, <1>5, <1>6, <1>8, <1>9, <1>10, <1>11 DEF g, R, n

\* No key has two live records when every live record is that of a pair.
LEMMA MatchFresh ==
    ASSUME NEW S, NEW recs, Unique(S), Match(S, recs)
    PROVE  Fresh(recs)
<1> SUFFICES ASSUME NEW i \in Live(recs), NEW j \in Live(recs), recs[i].key = recs[j].key
             PROVE  i = j
  BY DEF Fresh
<1>1. PICK p \in S : p.pos = i
  BY DEF Match
<1>2. PICK q \in S : q.pos = j
  BY DEF Match
<1>3. p.key = q.key
  BY <1>1, <1>2 DEF Match
<1> QED BY <1>1, <1>2, <1>3 DEF Unique

\* The mark of a pair that goes.
LEMMA MatchMarked ==
    ASSUME NEW S, NEW recs \in Seq(Record), Unique(S), Match(S, recs), NEW o \in S
    PROVE  /\ o.pos \in 1 .. Len(recs)
           /\ Match(S \ {o}, Marked(recs, o.pos))
<1>1. o.pos \in Live(recs) /\ recs[o.pos].key = o.key
  BY DEF Match
<1>2. DOMAIN recs = 1 .. Len(recs) /\ Len(recs) \in Nat
  BY LenProperties
<1>3. Live(recs) \subseteq 1 .. Len(recs)
  BY <1>2 DEF Live
<1>4. o.pos \in 1 .. Len(recs)
  BY <1>1, <1>3
<1> DEFINE m == Marked(recs, o.pos)
<1>5. /\ \A j \in 1 .. Len(recs) : m[j].key = recs[j].key /\ m[j].val = recs[j].val
      /\ Live(m) = Live(recs) \ {o.pos}
  BY <1>2, <1>4, MarkedIs
<1> HIDE DEF m
<1>6. ASSUME NEW p \in S \ {o}
      PROVE  p.pos \in Live(m) /\ m[p.pos].key = p.key /\ m[p.pos].val = p.val
  <2>1. p.pos \in Live(recs) /\ recs[p.pos].key = p.key /\ recs[p.pos].val = p.val
    BY DEF Match
  <2>2. p.pos # o.pos
    BY <1>1, <2>1 DEF Unique
  <2> QED BY <1>3, <1>5, <2>1, <2>2
<1>7. ASSUME NEW i \in Live(m) PROVE \E p \in S \ {o} : p.pos = i
  <2>1. i \in Live(recs) /\ i # o.pos
    BY <1>5
  <2> QED BY <2>1 DEF Match
<1> QED BY <1>4, <1>6, <1>7 DEF Match, m

\* The record of a pair that comes.
LEMMA MatchAdded ==
    ASSUME NEW S, NEW recs \in Seq(Record), Match(S, recs), NEW q \in Pair, q.pos = Len(recs) + 1
    PROVE  Match(S \cup {q}, Append(recs, Rec(q)))
<1> DEFINE r == Rec(q)
           a == Append(recs, r)
<1>1. r \in Record /\ ~r.dead /\ r.key = q.key /\ r.val = q.val
  BY DEF Rec, Record, Pair
<1> HIDE DEF r
<1>2. /\ \A j \in 1 .. Len(recs) : a[j] = recs[j]
      /\ a[Len(recs) + 1] = r /\ Live(a) = Live(recs) \cup {Len(recs) + 1}
  BY <1>1, AddedIs
<1> HIDE DEF a
<1>3. Live(recs) \subseteq 1 .. Len(recs)
  BY LenProperties DEF Live
<1>4. ASSUME NEW p \in S \cup {q}
      PROVE  p.pos \in Live(a) /\ a[p.pos].key = p.key /\ a[p.pos].val = p.val
  <2>1. CASE p = q
    BY <1>1, <1>2, <2>1
  <2>2. CASE p \in S
    <3>1. p.pos \in Live(recs) /\ recs[p.pos].key = p.key /\ recs[p.pos].val = p.val
      BY <2>2 DEF Match
    <3> QED BY <1>2, <1>3, <3>1
  <2> QED BY <2>1, <2>2
<1>5. ASSUME NEW i \in Live(a) PROVE \E p \in S \cup {q} : p.pos = i
  BY <1>2 DEF Match
<1> QED BY <1>4, <1>5 DEF Match, a, r

\* The file that writeFile leaves.
LEMMA MatchMoved ==
    ASSUME NEW T \in Tables, Chained(T)
    PROVE  Match(PairsIn(Repositioned(T)), Records(PairsOf(T)))
<1> DEFINE F == PairsOf(T)
           n == Len(F)
           P == PairsIn(Repositioned(T))
           recs == Records(F)
           at(q) == Find(F, q.key)
<1>1. /\ F \in Seq(Pair)
      /\ \A p : In(T, p) <=> \E i \in 1 .. n : F[i] = p
      /\ \A i, j \in 1 .. n : F[i].key = F[j].key => i = j
  BY AllPairs
<1>2. \A p : p \in P <=> \E q : In(T, q) /\ p = At(q, at(q))
  BY Moved, PairsInIs
<1> HIDE DEF F, P
<1>3. n \in Nat /\ \A i \in 1 .. n : F[i] \in Pair
  BY <1>1, LenProperties, ElementOfSeq
<1>4. Live(recs) = 1 .. n /\ \A i \in 1 .. n : recs[i] = Rec(F[i])
  BY <1>1, RewrittenIs
<1> HIDE DEF recs
<1>5. ASSUME NEW i \in 1 .. n PROVE at(F[i]) = i
  <2>1. \/ at(F[i]) = 0 /\ \A j \in 1 .. n : F[j].key # F[i].key
        \/ at(F[i]) \in 1 .. n /\ F[at(F[i])].key = F[i].key
    BY <1>1, FindIs
  <2> HIDE DEF at
  <2> QED BY <1>1, <2>1
<1> HIDE DEF n, at
<1>6. ASSUME NEW p \in P PROVE p.pos \in Live(recs) /\ recs[p.pos].key = p.key /\ recs[p.pos].val = p.val
  <2>1. PICK q : In(T, q) /\ p = At(q, at(q))
    BY <1>2
  <2>2. PICK i \in 1 .. n : F[i] = q
    BY <1>1, <2>1 DEF n
  <2>3. q \in Pair /\ at(q) = i
    BY <1>3, <1>5, <2>2
  <2>4. p.pos = i /\ p.key = q.key /\ p.val = q.val
    BY <2>1, <2>3 DEF At, Pair
  <2>5. Rec(q).key = q.key /\ Rec(q).val = q.val
    BY DEF Rec
  <2>6. recs[p.pos] = Rec(q) /\ p.pos \in Live(recs)
    BY <1>4, <2>2, <2>4
  <2> QED BY <2>4, <2>5, <2>6
<1>7. ASSUME NEW i \in Live(recs) PROVE \E p \in P : p.pos = i
  <2>1. i \in 1 .. n /\ F[i] \in Pair /\ at(F[i]) = i
    BY <1>3, <1>4, <1>5
  <2>2. In(T, F[i])
    BY <1>1, <2>1 DEF n
  <2>3. At(F[i], at(F[i])) \in P
    BY <1>2, <2>2
  <2>4. At(F[i], at(F[i])).pos = i
    BY <2>1 DEF At, Pair
  <2> QED BY <2>3, <2>4
<1> QED BY <1>6, <1>7 DEF Match, P, recs, F
-----------------------------------------------------------------------------
(* The inductive invariant. *)

FileInv == /\ Match(PairsIn(kvpairs), Recs(db))
           /\ Fresh(db.disk \o db.tail)

ClosedInv == db.mark = 0 /\ db.tail = <<>> /\ OneLiveValue

IInv == /\ TypeOK
        /\ Chained(kvpairs)
        /\ db.mark \in 0 .. Len(db.disk)
        /\ open /\ dbfile => FileInv
        /\ ~dbfile => open /\ db = NoFile
        /\ ~open => ClosedInv

\* put: one pair of the key, and the file has its record last.
LEMMA PutStep ==
    ASSUME IInv, NEW k \in Key, NEW v \in Val, put(k, v)
    PROVE  /\ kvpairs' \in Tables /\ Len(kvpairs') > 0 /\ Chained(kvpairs') /\ open
           /\ \E at \in Nat : LET q == [key |-> k, val |-> v, pos |-> at] IN
                 PairsIn(kvpairs') = {p \in PairsIn(kvpairs) : p.key # k} \cup {q}
           /\ numEl' \in Int
           /\ db' \in File /\ db'.mark \in 0 .. Len(db'.disk)
           /\ dbfile => FileInv'
           /\ ~dbfile => db' = db
<1> DEFINE table == IF Full THEN Resized(kvpairs, 2 * Len(kvpairs)) ELSE kvpairs
           count == IF Full THEN 0 ELSE numEl
           s     == Slot(k, Len(table))
           i     == Find(table[s], k)
           at    == IF dbfile THEN End(db) ELSE 0
           q     == [key |-> k, val |-> v, pos |-> at]
           S     == PairsIn(table)
<1>0. /\ open /\ count \in Int
      /\ \/ /\ i # 0
            /\ kvpairs' = [table EXCEPT ![s][i] = q]
            /\ numEl' = count
            /\ db' = IF dbfile THEN Updated(db, table[s][i].pos, k, v) ELSE db
         \/ /\ i = 0
            /\ kvpairs' = [table EXCEPT ![s] = Append(@, q)]
            /\ numEl' = count + 1
            /\ db' = IF dbfile THEN Written(db, k, v) ELSE db
      /\ UNCHANGED dbfile
  BY DEF put, IInv, TypeOK
<1>1. kvpairs \in Tables /\ Len(kvpairs) > 0 /\ Chained(kvpairs)
  BY DEF IInv, TypeOK, Tables
<1>2. table \in Tables /\ Len(table) > 0 /\ Chained(table) /\ S = PairsIn(kvpairs)
  <2>1. CASE ~Full
    BY <1>1, <2>1
  <2>2. CASE Full
    <3> DEFINE n == 2 * Len(kvpairs)
               R == Resized(kvpairs, n)
    <3>1. n \in Nat \ {0}
      BY <1>1, TableTypes
    <3> HIDE DEF n
    <3>2. R \in Tables /\ Len(R) = n /\ Chained(R) /\ \A p : In(R, p) <=> In(kvpairs, p)
      BY <1>1, <3>1, ResizedIs
    <3> HIDE DEF R
    <3>3. PairsIn(R) = PairsIn(kvpairs)
      BY <1>1, <3>2, PairsInIs
    <3>4. table = R
      BY <2>2 DEF R, n
    <3> QED BY <3>1, <3>2, <3>3, <3>4
  <2> QED BY <2>1, <2>2
<1>3. db \in File /\ db.mark \in 0 .. Len(db.disk) /\ (dbfile => FileInv)
  BY <1>0 DEF IInv, TypeOK
<1>4. Recs(db) \in Seq(Record) /\ Len(Recs(db)) \in Nat
  BY <1>3, RecsIs
<1>5. at \in Nat /\ (dbfile => at = Len(Recs(db)) + 1)
  BY <1>4 DEF End, Recs
<1> HIDE DEF at
<1>6. q \in Pair /\ q.key = k /\ q.pos = at /\ Rec(q) = [key |-> k, val |-> v, dead |-> FALSE]
  BY <1>5 DEF Pair, Rec
<1>7. /\ s \in 1 .. Len(table)
      /\ i = 0 => \A p : In(table, p) => p.key # k
      /\ i # 0 => /\ table[s][i].key = k /\ In(table, table[s][i])
                  /\ \A p : In(table, p) /\ p.key = k => p = table[s][i]
  BY <1>2, FoundIn
<1>8. Unique(S) /\ \A p : p \in S <=> In(table, p)
  BY <1>2, UniqueIn, PairsInIs
<1>12. s = Slot(q.key, Len(table)) /\ s = Slot(k, Len(table)) /\ i = Find(table[s], k)
  BY <1>6
<1> HIDE DEF table, q, s, i
<1>9. CASE i # 0
  <2> DEFINE o == table[s][i]
             R == Over(table, s, i, q)
             S1 == S \ {o}
  <2>1. R \in Tables /\ Len(R) = Len(table) /\ Chained(R) /\ \A p : In(R, p) <=> p = q \/ (In(table, p) /\ p.key # k)
    BY <1>2, <1>6, <1>9, <1>12, Replaced
  <2>2. kvpairs' = R
    BY <1>0, <1>9 DEF Over
  <2> HIDE DEF R
  <2>3. o \in S /\ o.key = k /\ \A p \in S : p.key = k => p = o
    BY <1>7, <1>8, <1>9
  <2> HIDE DEF o
  <2>4. S1 = {p \in S : p.key # k}
    BY <2>3
  <2> HIDE DEF S1
  <2>5. PairsIn(R) = {p \in S : p.key # k} \cup {q}
    BY <1>8, <2>1, PairsInIs
  <2>6. numEl' \in Int
    BY <1>0, <1>9
  <2>7. ASSUME dbfile PROVE db' \in File /\ db'.mark = 0 /\ FileInv'
    <3>1. Match(S, Recs(db))
      BY <1>2, <1>3, <2>7 DEF FileInv
    <3> DEFINE m == Marked(Recs(db), o.pos)
    <3>2. o.pos \in 1 .. Len(Recs(db)) /\ Match(S1, m)
      BY <1>4, <1>8, <2>3, <3>1, MatchMarked DEF S1
    <3>3. m \in Seq(Record) /\ Len(m) = Len(Recs(db))
      BY <1>4, <3>2, MarkedIs
    <3>4. db' = Updated(db, o.pos, k, v)
      BY <1>0, <1>9, <2>7 DEF o
    <3>5. /\ db' \in File /\ db'.mark = 0
          /\ Recs(db') = Append(m, Rec(q)) /\ db'.disk \o db'.tail = Append(m, Rec(q))
      <4> DEFINE g == Updated(db, o.pos, k, v)
                 r == [key |-> k, val |-> v, dead |-> FALSE]
      <4>1. g \in File /\ g.mark = 0 /\ Recs(g) = Append(m, r) /\ g.disk \o g.tail = Append(m, r)
        BY <1>3, <3>2, UpdatedIs
      <4>2. db' = g /\ Rec(q) = r
        BY <1>6, <3>4
      <4> HIDE DEF g, r
      <4> QED BY <4>1, <4>2
    <3> HIDE DEF m
    <3>6. Match(S1 \cup {q}, Append(m, Rec(q)))
      BY <1>5, <1>6, <2>7, <3>2, <3>3, MatchAdded
    <3>7. Match(PairsIn(kvpairs'), Recs(db'))
      BY <2>2, <2>4, <2>5, <3>5, <3>6
    <3>8. Fresh(Recs(db'))
      BY <2>1, <2>2, <3>7, UniqueIn, MatchFresh
    <3>9. FileInv'
      BY <3>5, <3>7, <3>8 DEF FileInv
    <3> QED BY <3>5, <3>9
  <2>8. db'.mark \in 0 .. Len(db'.disk) /\ db' \in File /\ (~dbfile => db' = db)
    <3>1. CASE dbfile
      <4>1. db'.disk \in Seq(Record)
        BY <2>7, <3>1 DEF File
      <4> QED BY <2>7, <3>1, <4>1, LenProperties
    <3>2. CASE ~dbfile
      BY <1>0, <1>3, <1>9, <3>2
    <3> QED BY <3>1, <3>2
  <2>9. \E a \in Nat : PairsIn(kvpairs') = {p \in PairsIn(kvpairs) : p.key # k} \cup {[key |-> k, val |-> v, pos |-> a]}
    BY <1>2, <1>5, <2>2, <2>5 DEF q
  <2> QED BY <1>0, <1>2, <2>1, <2>2, <2>6, <2>7, <2>8, <2>9
<1>10. CASE i = 0
  <2> DEFINE c == Append(table[s], q)
             R == With(table, s, c)
  <2>0. c \in Longer(table[s], q)
    BY DEF Longer
  <2>11. \A p : In(table, p) => p.key # q.key
    BY <1>6, <1>7, <1>10
  <2> HIDE DEF c
  <2>1. R \in Tables /\ Len(R) = Len(table) /\ Chained(R) /\ \A p : In(R, p) <=> p = q \/ In(table, p)
    BY <1>2, <1>6, <1>12, <2>0, <2>11, Joined
  <2>2. kvpairs' = R
    BY <1>0, <1>10 DEF With, c
  <2> HIDE DEF R
  <2>4. S = {p \in S : p.key # k}
    BY <1>7, <1>8, <1>10
  <2>5. PairsIn(R) = S \cup {q}
    BY <1>8, <2>1, PairsInIs
  <2>6. numEl' \in Int
    BY <1>0, <1>10
  <2>7. ASSUME dbfile PROVE db' \in File /\ db'.mark = 0 /\ FileInv'
    <3>1. Match(S, Recs(db))
      BY <1>2, <1>3, <2>7 DEF FileInv
    <3>4. db' = Written(db, k, v)
      BY <1>0, <1>10, <2>7
    <3>5. /\ db' \in File /\ db'.mark = 0
          /\ Recs(db') = Append(Recs(db), Rec(q)) /\ db'.disk \o db'.tail = Append(Recs(db), Rec(q))
      <4> DEFINE g == Written(db, k, v)
                 r == [key |-> k, val |-> v, dead |-> FALSE]
                 x == Append(Recs(db), r)
      <4>1. g \in File /\ g.mark = 0 /\ Recs(g) = x /\ g.disk \o g.tail = x
        BY <1>3, WrittenIs
      <4>2. db' = g /\ Rec(q) = r
        BY <1>6, <3>4
      <4>3. x = Append(Recs(db), Rec(q))
        BY <4>2
      <4> HIDE DEF g, r, x
      <4> QED BY <4>1, <4>2, <4>3
    <3>6. Match(S \cup {q}, Append(Recs(db), Rec(q)))
      BY <1>4, <1>5, <1>6, <2>7, <3>1, MatchAdded
    <3>7. Match(PairsIn(kvpairs'), Recs(db'))
      BY <2>2, <2>5, <3>5, <3>6
    <3>8. Fresh(Recs(db'))
      BY <2>1, <2>2, <3>7, UniqueIn, MatchFresh
    <3>9. FileInv'
      BY <3>5, <3>7, <3>8 DEF FileInv
    <3> QED BY <3>5, <3>9
  <2>8. db'.mark \in 0 .. Len(db'.disk) /\ db' \in File /\ (~dbfile => db' = db)
    <3>1. CASE dbfile
      <4>1. db'.disk \in Seq(Record)
        BY <2>7, <3>1 DEF File
      <4> QED BY <2>7, <3>1, <4>1, LenProperties
    <3>2. CASE ~dbfile
      BY <1>0, <1>3, <1>10, <3>2
    <3> QED BY <3>1, <3>2
  <2>9. \E a \in Nat : PairsIn(kvpairs') = {p \in PairsIn(kvpairs) : p.key # k} \cup {[key |-> k, val |-> v, pos |-> a]}
    BY <1>2, <1>5, <2>2, <2>4, <2>5 DEF q
  <2> QED BY <1>0, <1>2, <2>1, <2>2, <2>6, <2>7, <2>8, <2>9
<1> QED BY <1>9, <1>10

\* Some pair of S has the key x and the value w.
Holds(S, x, w) == \E p \in S : p.key = x /\ p.val = w

\* The table and the file after writeFile.
LEMMA CompactStep ==
    ASSUME NEW T \in Tables, Chained(T), Len(T) > 0,
           kvpairs' = Repositioned(T), db' = Rewritten(PairsOf(T))
    PROVE  /\ kvpairs' \in Tables /\ Len(kvpairs') > 0 /\ Chained(kvpairs')
           /\ \A x, w : Holds(PairsIn(kvpairs'), x, w) <=> Holds(PairsIn(T), x, w)
           /\ db' \in File /\ db'.mark \in 0 .. Len(db'.disk) /\ FileInv'
<1> DEFINE R == Repositioned(T)
           F == PairsOf(T)
<1>1. R \in Tables /\ Len(R) = Len(T) /\ Chained(R)
      /\ \A p : In(R, p) <=> \E q : In(T, q) /\ p = At(q, Find(F, q.key))
  BY Moved
<1>2. F \in Seq(Pair)
  BY AllPairs
<1>3. Match(PairsIn(R), Records(F))
  BY MatchMoved
<1> HIDE DEF R, F
<1>4. /\ db' \in File /\ db'.mark = 0 /\ db'.disk = <<>>
      /\ Recs(db') = Records(F) /\ db'.disk \o db'.tail = Records(F)
  BY <1>2, RewrittenIs DEF F
<1>5. kvpairs' = R
  BY DEF R
<1>6. Fresh(Records(F))
  BY <1>1, <1>3, UniqueIn, MatchFresh
<1>7. FileInv'
  BY <1>3, <1>4, <1>5, <1>6 DEF FileInv
<1>8. db'.mark \in 0 .. Len(db'.disk)
  BY <1>4, EmptySeq
<1>9. ASSUME NEW x, NEW w PROVE Holds(PairsIn(R), x, w) <=> Holds(PairsIn(T), x, w)
  <2>1. \A q : In(T, q) => /\ At(q, Find(F, q.key)).key = q.key
                           /\ At(q, Find(F, q.key)).val = q.val
    <3> TAKE q
    <3> HAVE In(T, q)
    <3>1. q \in Pair
      BY PairsInIs
    <3> QED BY <3>1 DEF At, Pair
  <2>2. \A p : p \in PairsIn(R) <=> \E q : In(T, q) /\ p = At(q, Find(F, q.key))
    BY <1>1, PairsInIs
  <2>3. \A p : p \in PairsIn(T) <=> In(T, p)
    BY PairsInIs
  <2>4. ASSUME Holds(PairsIn(R), x, w) PROVE Holds(PairsIn(T), x, w)
    <3>1. PICK p \in PairsIn(R) : p.key = x /\ p.val = w
      BY <2>4 DEF Holds
    <3>2. PICK q : In(T, q) /\ p = At(q, Find(F, q.key))
      BY <2>2
    <3>3. q \in PairsIn(T) /\ q.key = x /\ q.val = w
      BY <2>1, <2>3, <3>1, <3>2
    <3> QED BY <3>3 DEF Holds
  <2>5. ASSUME Holds(PairsIn(T), x, w) PROVE Holds(PairsIn(R), x, w)
    <3>1. PICK q \in PairsIn(T) : q.key = x /\ q.val = w
      BY <2>5 DEF Holds
    <3>2. In(T, q)
      BY <2>3
    <3> DEFINE p == At(q, Find(F, q.key))
    <3>3. p \in PairsIn(R) /\ p.key = x /\ p.val = w
      BY <2>1, <2>2, <3>1, <3>2
    <3> QED BY <3>3 DEF Holds
  <2> QED BY <2>4, <2>5
<1> QED BY <1>1, <1>4, <1>5, <1>7, <1>8, <1>9

\* remove of a key that is there: it is gone, and its record is dead.
LEMMA RemoveStep ==
    ASSUME IInv, NEW k \in Key, remove(k), Find(kvpairs[Slot(k, Len(kvpairs))], k) # 0
    PROVE  /\ kvpairs' \in Tables /\ Len(kvpairs') > 0 /\ Chained(kvpairs') /\ open
           /\ \E w : Holds(PairsIn(kvpairs), k, w)
           /\ \A x, w : Holds(PairsIn(kvpairs'), x, w) <=> Holds(PairsIn(kvpairs), x, w) /\ x # k
           /\ db' \in File /\ db'.mark \in 0 .. Len(db'.disk)
           /\ dbfile => FileInv'
           /\ ~dbfile => db' = db
<1> DEFINE s == Slot(k, Len(kvpairs))
           i == Find(kvpairs[s], k)
           o == kvpairs[s][i]
           table == [kvpairs EXCEPT ![s] = RemoveAt(@, i)]
           S == PairsIn(kvpairs)
<1>0. /\ open /\ i # 0
      /\ \/ /\ kvpairs' = table
            /\ db' = IF dbfile THEN Mark(db, o.pos) ELSE db
         \/ Compacted(table)
      /\ UNCHANGED dbfile
  BY DEF remove
<1>1. kvpairs \in Tables /\ Len(kvpairs) > 0 /\ Chained(kvpairs)
  BY DEF IInv, TypeOK, Tables
<1>2. /\ table \in Tables /\ Len(table) = Len(kvpairs) /\ Chained(table)
      /\ \A p : In(table, p) <=> In(kvpairs, p) /\ p.key # k
  <2>1. table = Cut(kvpairs, s, i) /\ s = Slot(k, Len(kvpairs)) /\ i = Find(kvpairs[s], k)
    BY DEF Cut
  <2> HIDE DEF table, s, i
  <2> QED BY <1>0, <1>1, <2>1, Dropped
<1>3. db \in File /\ db.mark \in 0 .. Len(db.disk) /\ (dbfile => FileInv)
  BY <1>0 DEF IInv, TypeOK
<1>4. Recs(db) \in Seq(Record) /\ Len(Recs(db)) \in Nat
  BY <1>3, RecsIs
<1>5. In(kvpairs, o) /\ o.key = k /\ \A p : In(kvpairs, p) /\ p.key = k => p = o
  BY <1>0, <1>1, FoundIn
<1> HIDE DEF table, o, s, i
<1>6. o \in S /\ Unique(S) /\ PairsIn(table) = S \ {o} /\ \A p \in S : p.key = k <=> p = o
  BY <1>1, <1>2, <1>5, PairsInIs, UniqueIn
<1>7. Holds(S, k, o.val)
  BY <1>5, <1>6 DEF Holds
<1>8. \A x, w : Holds(PairsIn(table), x, w) <=> Holds(S, x, w) /\ x # k
  BY <1>6 DEF Holds
<1>9. CASE dbfile /\ kvpairs' = table /\ db' = Mark(db, o.pos)
  <2>1. Match(S, Recs(db))
    BY <1>3, <1>9 DEF FileInv
  <2> DEFINE m == Marked(Recs(db), o.pos)
  <2>2. o.pos \in 1 .. Len(Recs(db)) /\ Match(S \ {o}, m)
    BY <1>4, <1>6, <2>1, MatchMarked
  <2>3. /\ db' \in File /\ db'.mark = o.pos /\ db'.disk = Recs(db)
        /\ Recs(db') = m /\ db'.disk \o db'.tail = Recs(db)
    BY <1>3, <1>9, <2>2, MarkIs
  <2> HIDE DEF m
  <2>4. Fresh(Recs(db))
    BY <1>6, <2>1, MatchFresh
  <2>5. FileInv'
    BY <1>6, <1>9, <2>2, <2>3, <2>4 DEF FileInv
  <2>6. db'.mark \in 0 .. Len(db'.disk)
    BY <2>2, <2>3
  <2> QED BY <1>0, <1>1, <1>2, <1>7, <1>8, <1>9, <2>3, <2>5, <2>6
<1>10. CASE ~dbfile /\ kvpairs' = table /\ db' = db
  BY <1>0, <1>1, <1>2, <1>3, <1>7, <1>8, <1>10
<1>11. CASE dbfile /\ kvpairs' = Repositioned(table) /\ db' = Rewritten(PairsOf(table))
  <2>1. /\ kvpairs' \in Tables /\ Len(kvpairs') > 0 /\ Chained(kvpairs')
        /\ \A x, w : Holds(PairsIn(kvpairs'), x, w) <=> Holds(PairsIn(table), x, w)
        /\ db' \in File /\ db'.mark \in 0 .. Len(db'.disk) /\ FileInv'
    BY <1>1, <1>2, <1>11, CompactStep
  <2> QED BY <1>0, <1>7, <1>8, <1>11, <2>1
<1> QED BY <1>0, <1>9, <1>10, <1>11 DEF Compacted

\* What a crash leaves of a file has no more than one live record of a key.
LEMMA CrashIs ==
    ASSUME NEW f \in File, NEW m \in 0 .. Len(f.disk), NEW n \in 0 .. Len(f.tail),
           Fresh(f.disk \o f.tail)
    PROVE  /\ Marked(f.disk, m) \o SubSeq(f.tail, 1, n) \in Seq(Record)
           /\ Fresh(Marked(f.disk, m) \o SubSeq(f.tail, 1, n))
<1> DEFINE d == f.disk
           t == f.tail
           D == Marked(d, m)
           u == SubSeq(t, 1, n)
           a == d \o t
           x == D \o u
<1>1. d \in Seq(Record) /\ t \in Seq(Record) /\ m \in 0 .. Len(d) /\ n \in 0 .. Len(t)
  BY DEF File
<1>2. Fresh(a)
  OBVIOUS
<1> HIDE DEF d, t
<1>3. Len(d) \in Nat /\ Len(t) \in Nat /\ \A i \in 1 .. Len(t) : t[i] \in Record
  BY <1>1, LenProperties, ElementOfSeq
<1>4. /\ D \in Seq(Record) /\ Len(D) = Len(d)
      /\ \A i \in 1 .. Len(d) : D[i].key = d[i].key
      /\ Live(D) = Live(d) \ {m}
  BY <1>1, MarkedIs
<1> HIDE DEF D
<1>5. u \in Seq(Record) /\ Len(u) = n /\ \A i \in 1 .. n : u[i] = t[i]
  <2>1. \A i \in 1 .. n : t[i] \in Record
    BY <1>1, <1>3
  <2>2. /\ u \in Seq(Record) /\ Len(u) = IF 1 <= n THEN n - 1 + 1 ELSE 0
        /\ \A i \in 1 .. (n - 1 + 1) : u[i] = t[1 + i - 1]
    BY <1>1, <1>3, <2>1, SubSeqProperties
  <2> HIDE DEF u
  <2> QED BY <1>1, <1>3, <2>2
<1> HIDE DEF u
<1>6. /\ a \in Seq(Record) /\ Len(a) = Len(d) + Len(t)
      /\ \A i \in 1 .. Len(d) + Len(t) : a[i] = IF i <= Len(d) THEN d[i] ELSE t[i - Len(d)]
  BY <1>1, ConcatProperties
<1>7. /\ x \in Seq(Record) /\ Len(x) = Len(D) + Len(u)
      /\ \A i \in 1 .. Len(D) + Len(u) : x[i] = IF i <= Len(D) THEN D[i] ELSE u[i - Len(D)]
  <2>1. D \in Seq(Record) /\ u \in Seq(Record)
    BY <1>4, <1>5
  <2> QED BY <2>1, ConcatProperties
<1> HIDE DEF a, x
<1>8. DOMAIN a = 1 .. Len(a) /\ DOMAIN x = 1 .. Len(x) /\ DOMAIN d = 1 .. Len(d) /\ DOMAIN D = 1 .. Len(D)
  BY <1>1, <1>4, <1>6, <1>7, LenProperties
<1>9. ASSUME NEW i \in Live(x) PROVE i \in Live(a) /\ a[i].key = x[i].key
  <2>1. i \in 1 .. Len(d) + n /\ ~x[i].dead
    BY <1>4, <1>5, <1>7, <1>8 DEF Live
  <2>2. CASE i <= Len(d)
    <3>1. i \in 1 .. Len(d) /\ x[i] = D[i] /\ a[i] = d[i] /\ i \in 1 .. Len(a)
      BY <1>1, <1>3, <1>4, <1>5, <1>6, <1>7, <2>1, <2>2
    <3>2. i \in Live(D)
      BY <1>4, <1>8, <2>1, <3>1 DEF Live
    <3>3. i \in Live(d)
      BY <1>4, <3>2
    <3> QED BY <1>4, <1>8, <3>1, <3>3 DEF Live
  <2>3. CASE i > Len(d)
    <3> DEFINE j == i - Len(d)
    <3>1. j \in 1 .. n /\ i \in 1 .. Len(a) /\ x[i] = u[j] /\ a[i] = t[j]
      BY <1>1, <1>3, <1>4, <1>5, <1>6, <1>7, <2>1, <2>3
    <3>2. x[i] = a[i]
      BY <1>5, <3>1
    <3> QED BY <1>8, <2>1, <3>1, <3>2 DEF Live
  <2> QED BY <1>3, <2>1, <2>2, <2>3
<1>10. Fresh(x)
  BY <1>2, <1>9 DEF Fresh
<1> QED BY <1>7, <1>10 DEF x, u, D, d, t
-----------------------------------------------------------------------------
(* The invariant holds. *)

\* A table without pairs and a file without records match.
LEMMA EmptyMatch ==
    ASSUME NEW n \in Nat
    PROVE  PairsIn(EmptyTable(n)) = {} /\ Recs(NoFile) = <<>> /\ Live(<<>>) = {} /\ NoFile \in File
<1>1. PairsIn(EmptyTable(n)) = {}
  BY EmptyIs, PairsInIs
<1>2. Recs(NoFile) = <<>> \o <<>>
  BY DEF Recs, Flushed, Marked, NoFile
<1>3. <<>> \o <<>> = <<>>
  OBVIOUS
<1>4. Live(<<>>) = {}
  BY DEF Live
<1>5. NoFile \in File
  BY EmptySeq DEF NoFile, File
<1> QED BY <1>1, <1>2, <1>3, <1>4, <1>5

\* A table that is constructed satisfies it.
LEMMA InvInit == Init => IInv
<1> SUFFICES ASSUME Init PROVE IInv
  OBVIOUS
<1> USE DEF Init
<1>1. FirstSize \in Nat /\ FirstSize > 0
  BY SizeAssumption
<1>2. /\ kvpairs \in Tables /\ Len(kvpairs) > 0 /\ Chained(kvpairs)
      /\ PairsIn(kvpairs) = {} /\ Recs(db) = <<>> /\ Live(<<>>) = {} /\ db \in File
  BY <1>1, EmptyIs, EmptyMatch
<1>3. TypeOK
  BY <1>2, FileAssumption DEF TypeOK, Tables
<1>4. db.mark = 0 /\ db.disk = <<>> /\ db.tail = <<>>
  BY DEF NoFile
<1>5. db.mark \in 0 .. Len(db.disk)
  BY <1>4, EmptySeq
<1>6. <<>> \o <<>> = <<>>
  OBVIOUS
<1>7. FileInv
  BY <1>2, <1>4, <1>6 DEF FileInv, Match, Fresh
<1> QED BY <1>2, <1>3, <1>5, <1>7 DEF IInv

\* The first live record of a file that has one.
LEMMA FirstLiveIs ==
    ASSUME NEW recs \in Seq(Record), Live(recs) # {}
    PROVE  \E i \in Live(recs) : FirstLive(recs) = recs[i] /\ recs[i] \in Record
<1>1. DOMAIN recs = 1 .. Len(recs) /\ Len(recs) \in Nat /\ \A i \in 1 .. Len(recs) : recs[i] \in Record
  BY LenProperties, ElementOfSeq
<1> DEFINE L == Live(recs)
<1>2. L \in SUBSET Nat /\ L # {} /\ L \subseteq 1 .. Len(recs)
  BY <1>1 DEF Live
<1> HIDE DEF L
<1>3. \E i \in L : \A j \in L : i <= j
  BY <1>2, HasMin
<1> DEFINE x == CHOOSE i \in L : \A j \in L : i <= j
<1>4. x \in L
  BY <1>3
<1>5. FirstLive(recs) = recs[x]
  BY DEF FirstLive, L
<1> HIDE DEF x
<1> QED BY <1>1, <1>2, <1>4, <1>5 DEF L

\* The table while it is opened again: empty, or with one pair.
LEMMA OpenStep ==
    ASSUME IInv, Open
    PROVE  /\ kvpairs' \in Tables /\ Len(kvpairs') > 0 /\ Chained(kvpairs')
           /\ db' \in File /\ db'.mark \in 0 .. Len(db'.disk) /\ FileInv'
<1> DEFINE first == FirstLive(db.disk)
           found == Live(db.disk) # {}
           E == EmptyTable(FirstSize)
           s == Slot(first.key, FirstSize)
           q == [key |-> first.key, val |-> first.val, pos |-> Len(db.disk) + 1]
           table == IF ~found THEN E ELSE [E EXCEPT ![s] = <<q>>]
<1>1. ~open /\ dbfile
  BY DEF IInv, Open
<1>2. kvpairs' = Repositioned(table) /\ db' = Rewritten(PairsOf(table))
  BY <1>1 DEF Open, Compacted
<1>3. FirstSize \in Nat \ {0}
  BY SizeAssumption
<1>4. E \in Tables /\ Len(E) = FirstSize /\ Chained(E) /\ \A p : ~In(E, p)
  BY <1>3, EmptyIs
<1>5. db.disk \in Seq(Record)
  BY DEF IInv, TypeOK, File
<1>6. table \in Tables /\ Len(table) > 0 /\ Chained(table)
  <2>1. CASE ~found
    BY <1>3, <1>4, <2>1
  <2>2. CASE found
    <3>1. first \in Record
      BY <1>5, <2>2, FirstLiveIs
    <3>2. q \in Pair /\ q.key = first.key /\ first.key \in Key
      BY <1>5, <3>1, LenProperties DEF Pair, Record
    <3>3. s \in 1 .. FirstSize
      BY <1>3, <3>2, SlotIs
    <3> DEFINE c == <<q>>
    <3>4. table = [E EXCEPT ![s] = c]
      BY <2>2
    <3> HIDE DEF q, first, E, table
    <3>5. c \in Seq(Pair) /\ Len(c) = 1 /\ \A j \in 1 .. Len(c) : c[j] = q
      BY <3>2
    <3> HIDE DEF c
    <3>6. \A j \in 1 .. Len(c) : Slot(c[j].key, Len(E)) = s
      BY <1>4, <3>2, <3>5
    <3>7. \A i, j \in 1 .. Len(c) : c[i].key = c[j].key => i = j
      BY <3>5
    <3> HIDE DEF s
    <3>8. [E EXCEPT ![s] = c] \in Tables /\ Len([E EXCEPT ![s] = c]) = Len(E) /\ Chained([E EXCEPT ![s] = c])
      BY <1>4, <3>3, <3>5, <3>6, <3>7, NewChain
    <3> QED BY <1>3, <1>4, <3>4, <3>8
  <2> QED BY <2>1, <2>2
<1> HIDE DEF table
<1> QED BY <1>2, <1>6, CompactStep

\* Every operation, a close, a crash and an open keep it.
LEMMA InvNext == IInv /\ [Next]_vars => IInv'
<1> SUFFICES ASSUME IInv, [Next]_vars PROVE IInv'
  OBVIOUS
<1>0. /\ TypeOK /\ kvpairs \in Tables /\ Len(kvpairs) > 0 /\ Chained(kvpairs)
      /\ db \in File /\ db.mark \in 0 .. Len(db.disk)
      /\ open /\ dbfile => FileInv
      /\ ~dbfile => open /\ db = NoFile
      /\ ~open => ClosedInv
  BY DEF IInv, TypeOK, Tables
<1>1. ASSUME UNCHANGED vars PROVE IInv'
  BY <1>0, <1>1 DEF vars, IInv, TypeOK, FileInv, ClosedInv, OneLiveValue
<1>2. ASSUME NEW k \in Key, get(k) PROVE IInv'
  <2> DEFINE s == Slot(k, Len(kvpairs))
             i == Find(kvpairs[s], k)
  <2>1. open /\ ret' = (IF i = 0 THEN NoVal ELSE kvpairs[s][i].val)
        /\ UNCHANGED <<dbfile, open, kvpairs, numEl, nRem, db>>
    BY <1>2 DEF get
  <2>2. ret' \in Val \cup {NoVal}
    <3>1. CASE i = 0
      BY <2>1, <3>1
    <3>2. CASE i # 0
      <4>1. In(kvpairs, kvpairs[s][i])
        BY <1>0, <3>2, FoundIn
      <4>2. kvpairs[s][i] \in Pair
        BY <1>0, <4>1, PairsInIs
      <4>3. kvpairs[s][i].val \in Val
        BY <4>2 DEF Pair
      <4> QED BY <2>1, <3>2, <4>3
    <3> QED BY <3>1, <3>2
  <2> HIDE DEF s, i
  <2>3. TypeOK'
    BY <1>0, <2>1, <2>2 DEF TypeOK
  <2> QED BY <1>0, <2>1, <2>3 DEF IInv, FileInv
<1>3. ASSUME NEW k \in Key, NEW v \in Val, put(k, v) PROVE IInv'
  <2>1. /\ kvpairs' \in Tables /\ Len(kvpairs') > 0 /\ Chained(kvpairs') /\ open
        /\ numEl' \in Int
        /\ db' \in File /\ db'.mark \in 0 .. Len(db'.disk)
        /\ dbfile => FileInv'
        /\ ~dbfile => db' = db
    BY <1>3, PutStep
  <2>2. ret' = "done" /\ UNCHANGED <<dbfile, open, nRem>>
    BY <1>3 DEF put
  <2>3. TypeOK'
    BY <1>0, <2>1, <2>2 DEF TypeOK, Tables
  <2> QED BY <1>0, <2>1, <2>2, <2>3 DEF IInv
<1>4. ASSUME NEW k \in Key, remove(k) PROVE IInv'
  <2> DEFINE i == Find(kvpairs[Slot(k, Len(kvpairs))], k)
  <2>1. CASE i = 0
    <3>1. ret' = "missing" /\ UNCHANGED <<dbfile, open, kvpairs, numEl, nRem, db>>
      BY <1>4, <2>1 DEF remove
    <3>2. TypeOK'
      BY <1>0, <3>1 DEF TypeOK
    <3> QED BY <1>0, <3>1, <3>2 DEF IInv, FileInv, ClosedInv, OneLiveValue
  <2>2. CASE i # 0
    <3>1. /\ kvpairs' \in Tables /\ Len(kvpairs') > 0 /\ Chained(kvpairs') /\ open
          /\ db' \in File /\ db'.mark \in 0 .. Len(db'.disk)
          /\ dbfile => FileInv'
          /\ ~dbfile => db' = db
      BY <1>4, <2>2, RemoveStep
    <3>2. /\ ret' = "done" /\ UNCHANGED <<dbfile, open>> /\ numEl' = numEl - 1
          /\ \/ nRem + 1 < MagicNumber /\ nRem' = nRem + 1
             \/ nRem' = 0
      BY <1>4, <2>2 DEF remove
    <3>3. nRem' \in 0 .. MagicNumber - 1
      BY <1>0, <3>2, FileAssumption DEF TypeOK
    <3>4. TypeOK'
      BY <1>0, <3>1, <3>2, <3>3 DEF TypeOK, Tables
    <3> QED BY <1>0, <3>1, <3>2, <3>4 DEF IInv
  <2> QED BY <2>1, <2>2
<1>5. ASSUME Gone, dbfile, db' \in File, db'.mark = 0, db'.tail = <<>>, Fresh(db'.disk) PROVE IInv'
  <2>1. FirstSize \in Nat /\ FirstSize > 0
    BY SizeAssumption
  <2>2. kvpairs' \in Tables /\ Len(kvpairs') > 0 /\ Chained(kvpairs')
    BY <1>5, <2>1, EmptyIs DEF Gone
  <2>3. ~open' /\ numEl' = 0 /\ nRem' = 0 /\ UNCHANGED <<dbfile, ret>>
    BY <1>5 DEF Gone
  <2>4. TypeOK'
    <3>1. open' \in BOOLEAN /\ dbfile' \in BOOLEAN
      BY <1>0, <1>5, Zenon DEF TypeOK, Gone
    <3>2. nRem' \in 0 .. MagicNumber - 1 /\ numEl' \in Int
      BY <2>3, FileAssumption
    <3>3. ret' \in Val \union {NoVal, "done", "missing"}
      BY <1>0, <2>3 DEF TypeOK
    <3> QED BY <1>5, <2>2, <3>1, <3>2, <3>3 DEF TypeOK, Tables
  <2>5. OneLiveValue'
    BY <1>5 DEF OneLiveValue, Fresh
  <2>6. db'.mark \in 0 .. Len(db'.disk)
    <3>1. db'.disk \in Seq(Record)
      BY <1>5 DEF File
    <3> QED BY <1>5, <3>1, LenProperties
  <2> QED BY <1>5, <2>2, <2>3, <2>4, <2>5, <2>6 DEF IInv, ClosedInv
<1>6. /\ PairsOf(kvpairs) \in Seq(Pair)
      /\ Fresh(Records(PairsOf(kvpairs)))
  <2>1. Match(PairsIn(Repositioned(kvpairs)), Records(PairsOf(kvpairs)))
    BY <1>0, MatchMoved
  <2>2. Repositioned(kvpairs) \in Tables /\ Chained(Repositioned(kvpairs))
    BY <1>0, Moved
  <2> QED BY <1>0, <2>1, <2>2, AllPairs, UniqueIn, MatchFresh
<1>7. ASSUME Close PROVE IInv'
  <2> DEFINE g == Rewritten(PairsOf(kvpairs))
  <2>1. /\ g \in File /\ g.mark = 0 /\ g.disk = <<>> /\ Recs(g) = Records(PairsOf(kvpairs))
    BY <1>6, RewrittenIs
  <2>2. db' = Flushed(g) /\ dbfile /\ Gone
    BY <1>7 DEF Close
  <2> HIDE DEF g
  <2>3. g.mark \in 0 .. Len(g.disk)
    BY <2>1, EmptySeq
  <2>4. Flushed(g) \in File
    BY <2>1, <2>3, RecsIs
  <2>5. Flushed(g).mark = 0 /\ Flushed(g).tail = <<>> /\ Flushed(g).disk = Recs(g)
    BY DEF Flushed, Recs
  <2> QED BY <1>5, <1>6, <2>1, <2>2, <2>4, <2>5
<1>8. ASSUME Crash PROVE IInv'
  <2>1. dbfile /\ open /\ Gone
    BY <1>8 DEF Crash
  <2>2. PICK f \in {db, Rewritten(PairsOf(kvpairs))}, marked \in BOOLEAN :
           \E n \in 0 .. Len(f.tail) :
              db' = [NoFile EXCEPT !.disk = (IF marked THEN Marked(f.disk, f.mark) ELSE f.disk)
                                               \o SubSeq(f.tail, 1, n)]
    BY <1>8 DEF Crash
  <2>3. f \in File /\ f.mark \in 0 .. Len(f.disk) /\ Fresh(f.disk \o f.tail)
    <3>1. CASE f = db
      BY <1>0, <2>1, <3>1 DEF FileInv
    <3>2. CASE f = Rewritten(PairsOf(kvpairs))
      <4>1. f \in File /\ f.mark = 0 /\ f.disk = <<>> /\ f.disk \o f.tail = Records(PairsOf(kvpairs))
        BY <1>6, <3>2, RewrittenIs
      <4> QED BY <1>6, <4>1, EmptySeq
    <3> QED BY <2>2, <3>1, <3>2
  <2>4. PICK n \in 0 .. Len(f.tail) :
           db' = [NoFile EXCEPT !.disk = (IF marked THEN Marked(f.disk, f.mark) ELSE f.disk)
                                            \o SubSeq(f.tail, 1, n)]
    BY <2>2
  <2> DEFINE m == IF marked THEN f.mark ELSE 0
             x == Marked(f.disk, m) \o SubSeq(f.tail, 1, n)
  <2>5. m \in 0 .. Len(f.disk)
    <3>1. f.disk \in Seq(Record)
      BY <2>3 DEF File
    <3> QED BY <2>3, <3>1, LenProperties
  <2>6. (IF marked THEN Marked(f.disk, f.mark) ELSE f.disk) = Marked(f.disk, m)
    BY DEF Marked
  <2>7. db' = [NoFile EXCEPT !.disk = x]
    BY <2>4, <2>6
  <2> HIDE DEF m
  <2>8. x \in Seq(Record) /\ Fresh(x)
    BY <2>3, <2>5, CrashIs
  <2> HIDE DEF x
  <2>9. db' = [disk |-> x, mark |-> 0, tail |-> <<>>]
    BY <2>7 DEF NoFile
  <2>10. db' \in File /\ db'.mark = 0 /\ db'.tail = <<>> /\ db'.disk = x
    BY <2>8, <2>9, EmptySeq DEF File
  <2> QED BY <1>5, <2>1, <2>8, <2>10
<1>9. ASSUME Open PROVE IInv'
  <2>1. /\ kvpairs' \in Tables /\ Len(kvpairs') > 0 /\ Chained(kvpairs')
        /\ db' \in File /\ db'.mark \in 0 .. Len(db'.disk) /\ FileInv'
    BY <1>9, OpenStep
  <2>2. ~open /\ open' = TRUE /\ numEl' \in Int /\ nRem' = 0 /\ UNCHANGED <<dbfile, ret>>
    BY <1>9 DEF Open
  <2>3. TypeOK'
    BY <1>0, <2>1, <2>2, FileAssumption DEF TypeOK, Tables
  <2>4. dbfile
    BY <1>0, <2>2
  <2> QED BY <2>1, <2>2, <2>3, <2>4 DEF IInv
<1>10. ASSUME CrashOpening PROVE IInv'
  <2> DEFINE d == db.disk
             r == FirstLive(d)
             x == Append(d, r)
  <2>1. /\ ~open /\ Live(d) # {} /\ db' = [db EXCEPT !.disk = x]
        /\ UNCHANGED <<dbfile, open, kvpairs, numEl, nRem, ret>>
    BY <1>10 DEF CrashOpening
  <2>2. db.mark = 0 /\ db.tail = <<>> /\ dbfile /\ d \in Seq(Record)
        /\ \A i, j \in Live(d) : d[i].key = d[j].key => d[i] = d[j]
    BY <1>0, <2>1 DEF ClosedInv, OneLiveValue, File
  <2>11. db = [disk |-> d, mark |-> db.mark, tail |-> db.tail]
    BY <1>0 DEF File
  <2> HIDE DEF d
  <2>3. PICK m \in Live(d) : r = d[m] /\ r \in Record
    BY <2>1, <2>2, FirstLiveIs
  <2>4. ~r.dead
    BY <2>3 DEF Live
  <2> HIDE DEF r
  <2>5. /\ x \in Seq(Record) /\ Len(x) = Len(d) + 1
        /\ \A j \in 1 .. Len(d) : x[j] = d[j]
        /\ x[Len(d) + 1] = r
        /\ Live(x) = Live(d) \cup {Len(d) + 1}
    BY <2>2, <2>3, <2>4, AddedIs
  <2> HIDE DEF x
  <2>6. db' = [disk |-> x, mark |-> 0, tail |-> <<>>]
    BY <2>1, <2>2, <2>11
  <2>7. db' \in File /\ db'.mark = 0 /\ db'.tail = <<>> /\ db'.disk = x
    BY <2>5, <2>6, EmptySeq DEF File
  <2>8. ASSUME NEW i \in Live(x), NEW j \in Live(x), x[i].key = x[j].key PROVE x[i] = x[j]
    <3>1. ASSUME NEW l \in Live(x) PROVE \E h \in Live(d) : x[l] = d[h]
      <4>1. CASE l \in Live(d)
        <5>1. l \in 1 .. Len(d)
          BY <2>2, <4>1, LenProperties DEF Live
        <5> QED BY <2>5, <4>1, <5>1
      <4>2. CASE l = Len(d) + 1
        BY <2>3, <2>5, <4>2
      <4> QED BY <2>5, <4>1, <4>2
    <3>2. PICK h \in Live(d) : x[i] = d[h]
      BY <3>1
    <3>3. PICK g \in Live(d) : x[j] = d[g]
      BY <3>1
    <3> QED BY <2>2, <2>8, <3>2, <3>3
  <2>9. OneLiveValue'
    BY <2>7, <2>8 DEF OneLiveValue
  <2>10. TypeOK' /\ Chained(kvpairs')
    BY <1>0, <2>1, <2>7 DEF TypeOK
  <2>12. db'.mark \in 0 .. Len(db'.disk)
    BY <2>5, <2>7, LenProperties
  <2> QED BY <2>1, <2>2, <2>7, <2>9, <2>10, <2>12 DEF IInv, ClosedInv
<1> QED BY <1>1, <1>2, <1>3, <1>4, <1>7, <1>8, <1>9, <1>10 DEF Next
-----------------------------------------------------------------------------
(* What the invariant says of the table and its file. *)

\* The set of pairs is the same along the chains and along the flattened table.
LEMMA PairsAre ==
    ASSUME NEW T \in Tables
    PROVE  ToSet(PairsOf(T)) = PairsIn(T)
<1>1. /\ PairsOf(T) \in Seq(Pair)
      /\ \A p : In(T, p) <=> \E i \in 1 .. Len(PairsOf(T)) : PairsOf(T)[i] = p
  BY AllPairs
<1>2. \A p : p \in PairsIn(T) <=> In(T, p)
  BY PairsInIs
<1>3. DOMAIN PairsOf(T) = 1 .. Len(PairsOf(T))
  BY <1>1, LenProperties
<1> QED BY <1>1, <1>2, <1>3 DEF ToSet

\* One live record for every pair: the positions number the live records.
LEMMA CountLive ==
    ASSUME NEW T \in Tables, Chained(T), NEW recs, Match(PairsIn(T), recs)
    PROVE  Cardinality(Live(recs)) = Len(PairsOf(T))
<1> DEFINE F == PairsOf(T)
           f == [i \in 1 .. Len(F) |-> F[i].pos]
<1>1. /\ F \in Seq(Pair) /\ Len(F) \in Nat
      /\ \A p : p \in PairsIn(T) <=> \E i \in 1 .. Len(F) : F[i] = p
      /\ \A i, j \in 1 .. Len(F) : F[i].key = F[j].key => i = j
  BY AllPairs, PairsInIs, LenProperties
<1> HIDE DEF F
<1>2. \A i \in 1 .. Len(F) : F[i] \in PairsIn(T)
  BY <1>1
<1>3. \A i \in 1 .. Len(F) : f[i] = F[i].pos
  OBVIOUS
<1>4. f \in [1 .. Len(F) -> Live(recs)]
  BY <1>2 DEF Match
<1>5. \A i, j \in 1 .. Len(F) : f[i] = f[j] => i = j
  <2> SUFFICES ASSUME NEW i \in 1 .. Len(F), NEW j \in 1 .. Len(F), F[i].pos = F[j].pos
               PROVE  i = j
    BY <1>3
  <2>1. recs[F[i].pos].key = F[i].key /\ recs[F[j].pos].key = F[j].key
    BY <1>2 DEF Match
  <2> QED BY <1>1, <2>1
<1>6. \A l \in Live(recs) : \E i \in 1 .. Len(F) : f[i] = l
  <2> TAKE l \in Live(recs)
  <2>1. PICK p \in PairsIn(T) : p.pos = l
    BY DEF Match
  <2>2. PICK i \in 1 .. Len(F) : F[i] = p
    BY <1>1, <2>1
  <2> QED BY <1>3, <2>1, <2>2
<1> HIDE DEF f
<1>7. f \in Bijection(1 .. Len(F), Live(recs))
  BY <1>4, <1>5, <1>6 DEF Bijection, Injection, Surjection, IsInjective
<1>8. ExistsBijection(1 .. Len(F), Live(recs))
  BY <1>7 DEF ExistsBijection
<1> QED BY <1>1, <1>8, FS_CountingElements DEF F

\* The records on the disk are the first of all the records.
LEMMA LiveOnDisk ==
    ASSUME NEW a \in Seq(Record), NEW b \in Seq(Record), Fresh(a \o b)
    PROVE  Fresh(a)
<1>1. /\ Len(a) \in Nat /\ Len(b) \in Nat /\ a \o b \in Seq(Record)
      /\ Len(a \o b) = Len(a) + Len(b)
      /\ \A i \in 1 .. Len(a) + Len(b) : (a \o b)[i] = IF i <= Len(a) THEN a[i] ELSE b[i - Len(a)]
  BY LenProperties, ConcatProperties
<1>2. DOMAIN a = 1 .. Len(a) /\ DOMAIN (a \o b) = 1 .. Len(a) + Len(b)
  BY <1>1, LenProperties
<1> DEFINE c == a \o b
<1>3. /\ DOMAIN c = 1 .. Len(a) + Len(b)
      /\ \A i \in 1 .. Len(a) : c[i] = a[i]
  BY <1>1, <1>2
<1> HIDE DEF c
<1>4. \A i \in Live(a) : i \in Live(c) /\ c[i] = a[i]
  BY <1>1, <1>2, <1>3 DEF Live
<1>5. Fresh(c)
  BY DEF c
<1> QED BY <1>4, <1>5 DEF Fresh

\* What the inductive invariant says of the table and of its file is TableIsSound.
LEMMA InvSound == IInv => TableIsSound
<1> SUFFICES ASSUME IInv PROVE TableIsSound
  OBVIOUS
<1>1. TypeOK /\ Chained(kvpairs) /\ kvpairs \in Tables /\ db \in File
  BY DEF IInv, TypeOK, Tables
<1>2. WellHashed
  <2>1. /\ DOMAIN kvpairs = 1 .. Len(kvpairs)
        /\ \A s \in 1 .. Len(kvpairs) : DOMAIN kvpairs[s] = 1 .. Len(kvpairs[s])
    BY <1>1, TableTypes
  <2>2. \A s \in DOMAIN kvpairs : \A j \in DOMAIN kvpairs[s] :
           Slot(kvpairs[s][j].key, Len(kvpairs)) = s
    BY <1>1, <2>1 DEF Chained
  <2> DEFINE F == PairsOf(kvpairs)
  <2>3. F \in Seq(Pair) /\ \A i, j \in 1 .. Len(F) : F[i].key = F[j].key => i = j
    BY <1>1, AllPairs
  <2> HIDE DEF F
  <2>4. DOMAIN F = 1 .. Len(F)
    BY <2>3, LenProperties
  <2>5. IsInjective([i \in DOMAIN F |-> F[i].key])
    BY <2>3, <2>4 DEF IsInjective
  <2> QED BY <2>2, <2>5 DEF WellHashed, F
<1>3. FileIsTable
  <2> SUFFICES ASSUME open, dbfile
               PROVE  /\ \A p \in Pairs : /\ p.pos \in Live(Recs(db))
                                          /\ Recs(db)[p.pos].key = p.key
                                          /\ Recs(db)[p.pos].val = p.val
                      /\ Cardinality(Live(Recs(db))) = Len(PairsOf(kvpairs))
    BY DEF FileIsTable, Recs
  <2>1. Match(PairsIn(kvpairs), Recs(db))
    BY DEF IInv, FileInv
  <2>2. Pairs = PairsIn(kvpairs)
    BY <1>1, PairsAre DEF Pairs
  <2>3. Cardinality(Live(Recs(db))) = Len(PairsOf(kvpairs))
    BY <1>1, <2>1, CountLive
  <2> QED BY <2>1, <2>2, <2>3 DEF Match
<1>4. OneLiveValue
  <2>1. CASE ~open
    BY <2>1 DEF IInv, ClosedInv
  <2>2. CASE open /\ dbfile
    <3>1. Fresh(db.disk \o db.tail)
      BY <2>2 DEF IInv, FileInv
    <3>2. Fresh(db.disk)
      BY <1>1, <3>1, LiveOnDisk DEF File
    <3> QED BY <3>2 DEF Fresh, OneLiveValue
  <2>3. CASE ~dbfile
    <3>1. Live(db.disk) = {}
      BY <2>3 DEF IInv, NoFile, Live
    <3> QED BY <3>1 DEF OneLiveValue
  <2> QED BY <2>1, <2>2, <2>3
<1> QED BY <1>1, <1>2, <1>3, <1>4 DEF TableIsSound

\* The invariant holds in every state.
LEMMA InvAlways == Spec => []IInv
BY InvInit, InvNext, PTL DEF Spec

(* put, remove, resize, the rewriting of the file, closing, opening and a    *)
(* crash between or inside them keep table and file together: every pair is  *)
(* in the chain of its hash, no key has two, the live records of the file    *)
(* are the pairs of the table, each where its pair says, and no old value of *)
(* a key is left beside a new one.                                           *)
THEOREM NoVoHTIsSound == Spec => []TableIsSound
BY InvAlways, InvSound, PTL
-----------------------------------------------------------------------------
(* The table is a map: what the operations do to the value of every key.     *)

\* The value of a key in a set of pairs.
Value(S, k) == IF \E p \in S : p.key = k THEN (CHOOSE p \in S : p.key = k).val ELSE NoVal

\* It is the value that the set holds, if it holds one.
LEMMA ValueIs ==
    ASSUME NEW S \in SUBSET Pair, Unique(S), NEW k
    PROVE  /\ \A w : Holds(S, k, w) => Value(S, k) = w /\ w \in Val
           /\ (\A w : ~Holds(S, k, w)) => Value(S, k) = NoVal
<1>1. ASSUME NEW w, Holds(S, k, w) PROVE Value(S, k) = w /\ w \in Val
  <2>1. PICK p \in S : p.key = k /\ p.val = w
    BY <1>1 DEF Holds
  <2> DEFINE c == CHOOSE q \in S : q.key = k
  <2>2. c \in S /\ c.key = k
    BY <2>1
  <2>3. Value(S, k) = c.val
    BY <2>1 DEF Value
  <2> HIDE DEF c
  <2>4. c = p
    BY <2>1, <2>2 DEF Unique
  <2> QED BY <2>1, <2>3, <2>4 DEF Pair
<1>2. ASSUME \A w : ~Holds(S, k, w) PROVE Value(S, k) = NoVal
  <2>1. \A p \in S : p.key # k
    BY <1>2 DEF Holds
  <2> QED BY <2>1 DEF Value
<1> QED BY <1>1, <1>2

\* Sets that hold the same of a key give it the same value.
LEMMA SameValue ==
    ASSUME NEW S \in SUBSET Pair, Unique(S), NEW R \in SUBSET Pair, Unique(R), NEW k,
           \A w : Holds(S, k, w) <=> Holds(R, k, w)
    PROVE  Value(S, k) = Value(R, k)
<1>1. CASE \E w : Holds(S, k, w)
  <2>1. PICK w : Holds(S, k, w)
    BY <1>1
  <2>2. Holds(R, k, w)
    BY <2>1
  <2>3. Value(S, k) = w
    BY <2>1, ValueIs
  <2>4. Value(R, k) = w
    BY <2>2, ValueIs
  <2> QED BY <2>3, <2>4
<1>2. CASE \A w : ~Holds(S, k, w)
  <2>1. \A w : ~Holds(R, k, w)
    BY <1>2
  <2>2. Value(S, k) = NoVal
    BY <1>2, ValueIs
  <2>3. Value(R, k) = NoVal
    BY <2>1, ValueIs
  <2> QED BY <2>2, <2>3
<1> QED BY <1>1, <1>2

\* The pairs of a table are pairs, one to a key.
LEMMA PairsUnique ==
    ASSUME NEW T \in Tables, Chained(T)
    PROVE  PairsIn(T) \in SUBSET Pair /\ Unique(PairsIn(T))
BY PairsInIs, UniqueIn

\* In an open table the values of the keys are those its pairs hold.
LEMMA OpenValues ==
    /\ IInv /\ open => \A k : ValueOf(k) = Value(PairsIn(kvpairs), k)
    /\ IInv' /\ open' => \A k : ValueOf(k)' = Value(PairsIn(kvpairs'), k)
<1>1. ASSUME IInv, open PROVE \A k : ValueOf(k) = Value(PairsIn(kvpairs), k)
  <2>1. Pairs = PairsIn(kvpairs)
    BY <1>1, PairsAre DEF IInv, TypeOK, Tables, Pairs
  <2> QED BY <1>1, <2>1 DEF ValueOf, Value
<1>2. ASSUME IInv', open' PROVE \A k : ValueOf(k)' = Value(PairsIn(kvpairs'), k)
  <2>1. kvpairs' \in Tables
    BY <1>2 DEF IInv, TypeOK, Tables
  <2>2. Pairs' = PairsIn(kvpairs')
    BY <2>1, PairsAre DEF Pairs
  <2> QED BY <1>2, <2>2 DEF ValueOf, Value
<1> QED BY <1>1, <1>2

\* A table is constructed empty, and so is the map.
LEMMA MapInit == Init => KV!Init
<1> SUFFICES ASSUME Init PROVE KV!Init
  OBVIOUS
<1>1. IInv /\ open
  BY InvInit DEF Init
<1>2. PairsIn(kvpairs) = {}
  BY EmptyMatch, SizeAssumption DEF Init
<1>3. \A k : Value({}, k) = NoVal
  BY DEF Value
<1>4. \A k : ValueOf(k) = NoVal
  BY <1>1, <1>2, <1>3, OpenValues
<1> QED BY <1>4 DEF Init, KV!Init

\* Every step between open tables is one of the map's.
LEMMA MapStep ==
    ASSUME IInv, IInv', Next, open, open'
    PROVE  KV!Next
<1> DEFINE S == PairsIn(kvpairs)
           R == PairsIn(kvpairs')
<1>1. /\ kvpairs \in Tables /\ Chained(kvpairs) /\ Len(kvpairs) > 0
      /\ kvpairs' \in Tables /\ Chained(kvpairs')
  BY DEF IInv, TypeOK, Tables
<1>2. S \in SUBSET Pair /\ Unique(S) /\ R \in SUBSET Pair /\ Unique(R)
  BY <1>1, PairsUnique
<1>3. \A k : ValueOf(k) = Value(S, k) /\ ValueOf(k)' = Value(R, k)
  BY OpenValues
<1> HIDE DEF S, R
<1>4. ASSUME NEW k \in Key, get(k) PROVE KV!Get(k)
  <2> DEFINE s == Slot(k, Len(kvpairs))
             i == Find(kvpairs[s], k)
  <2>1. ret' = (IF i = 0 THEN NoVal ELSE kvpairs[s][i].val) /\ kvpairs' = kvpairs
    BY <1>4 DEF get
  <2>2. /\ i = 0 => \A p : In(kvpairs, p) => p.key # k
        /\ i # 0 => kvpairs[s][i].key = k /\ In(kvpairs, kvpairs[s][i])
    BY <1>1, FoundIn
  <2>3. \A p : p \in S <=> In(kvpairs, p)
    BY <1>1, PairsInIs DEF S
  <2> DEFINE q == kvpairs[s][i]
             z == i = 0
  <2>4. ret' = (IF z THEN NoVal ELSE q.val)
    BY <2>1
  <2>5. /\ z => \A p : In(kvpairs, p) => p.key # k
        /\ ~z => q.key = k /\ In(kvpairs, q)
    BY <2>2
  <2> HIDE DEF s, i, q, z
  <2>6. CASE z
    <3>1. \A w : ~Holds(S, k, w)
      BY <2>3, <2>5, <2>6 DEF Holds
    <3>2. Value(S, k) = NoVal
      BY <1>2, <3>1, ValueIs
    <3>3. ret' = ValueOf(k)
      BY <1>3, <2>4, <2>6, <3>2
    <3>4. \A x : ValueOf(x)' = ValueOf(x)
      BY <1>3, <2>1 DEF S, R
    <3> QED BY <3>3, <3>4 DEF KV!Get
  <2>7. CASE ~z
    <3>1. Holds(S, k, q.val)
      BY <2>3, <2>5, <2>7 DEF Holds
    <3>2. Value(S, k) = q.val
      BY <1>2, <3>1, ValueIs
    <3>3. ret' = ValueOf(k)
      BY <1>3, <2>4, <2>7, <3>2
    <3>4. \A x : ValueOf(x)' = ValueOf(x)
      BY <1>3, <2>1 DEF S, R
    <3> QED BY <3>3, <3>4 DEF KV!Get
  <2> QED BY <2>6, <2>7
<1>5. ASSUME NEW k \in Key, NEW v \in Val, put(k, v) PROVE KV!Put(k, v)
  <2>1. PICK at \in Nat : R = {p \in S : p.key # k} \cup {[key |-> k, val |-> v, pos |-> at]}
    BY <1>5, PutStep DEF S, R
  <2> DEFINE q == [key |-> k, val |-> v, pos |-> at]
  <2>2. q.key = k /\ q.val = v /\ R = {p \in S : p.key # k} \cup {q}
    BY <2>1
  <2> HIDE DEF q
  <2>3. Holds(R, k, v)
    BY <2>2 DEF Holds
  <2>4. Value(R, k) = v
    BY <1>2, <2>3, ValueIs
  <2>5. ASSUME NEW x, x # k PROVE Value(S, x) = Value(R, x)
    <3>1. ASSUME NEW w PROVE Holds(S, x, w) <=> Holds(R, x, w)
      BY <2>2, <2>5 DEF Holds
    <3> QED BY <1>2, <3>1, SameValue
  <2>6. \A x \in Key : ValueOf(x)' = IF x = k THEN v ELSE ValueOf(x)
    BY <1>3, <2>4, <2>5
  <2>7. ret' = "done"
    BY <1>5 DEF put
  <2> QED BY <2>6, <2>7 DEF KV!Put
<1>6. ASSUME NEW k \in Key, remove(k) PROVE KV!Remove(k)
  <2> DEFINE i == Find(kvpairs[Slot(k, Len(kvpairs))], k)
  <2>1. /\ i = 0 => ret' = "missing" /\ kvpairs' = kvpairs
        /\ i # 0 => ret' = "done"
    BY <1>6 DEF remove
  <2>2. CASE i = 0
    <3>1. \A p : In(kvpairs, p) => p.key # k
      BY <1>1, <2>2, FoundIn
    <3>2. \A w : ~Holds(S, k, w)
      BY <1>1, <3>1, PairsInIs DEF Holds, S
    <3>3. ValueOf(k) = NoVal
      BY <1>2, <1>3, <3>2, ValueIs
    <3>4. \A x : ValueOf(x)' = ValueOf(x)
      BY <1>3, <2>1, <2>2 DEF S, R
    <3>5. ret' = "missing"
      BY <2>1, <2>2
    <3> QED BY <3>3, <3>4, <3>5 DEF KV!Remove
  <2>3. CASE i # 0
    <3>1. /\ \E w : Holds(S, k, w)
          /\ \A x, w : Holds(R, x, w) <=> Holds(S, x, w) /\ x # k
      BY <1>6, <2>3, RemoveStep DEF S, R
    <3>2. ValueOf(k) # NoVal
      <4>1. PICK w : Holds(S, k, w)
        BY <3>1
      <4>2. Value(S, k) = w /\ w \in Val
        BY <1>2, <4>1, ValueIs
      <4> QED BY <1>3, <4>2, NoValAssumption
    <3>3. Value(R, k) = NoVal
      <4>1. \A w : ~Holds(R, k, w)
        BY <3>1
      <4> QED BY <1>2, <4>1, ValueIs
    <3>4. ASSUME NEW x, x # k PROVE Value(S, x) = Value(R, x)
      <4>1. \A w : Holds(S, x, w) <=> Holds(R, x, w)
        BY <3>1, <3>4
      <4> QED BY <1>2, <4>1, SameValue
    <3>5. \A x \in Key : ValueOf(x)' = IF x = k THEN NoVal ELSE ValueOf(x)
      BY <1>3, <3>3, <3>4
    <3>6. ret' = "done"
      BY <2>1, <2>3
    <3> QED BY <3>2, <3>5, <3>6 DEF KV!Remove
  <2> QED BY <2>2, <2>3
<1>7. ~Close /\ ~Crash /\ ~Open /\ ~CrashOpening
  BY DEF Close, Crash, Gone, Open, CrashOpening
<1> QED BY <1>4, <1>5, <1>6, <1>7 DEF Next, KV!Next

(* While it is open the table is a map: put, get and remove return and change *)
(* what they would on one map, whatever the hash of the keys and whether the  *)
(* step resized the table, compacted it or only unlinked a pair.             *)
THEOREM NoVoHTIsMap == Spec => IsMap
<1>1. Init => KV!Init
  BY MapInit
<1>2. IInv /\ IInv' /\ [Next]_vars => [open /\ open' => KV!Next]_vars
  BY MapStep
<1> QED BY <1>1, <1>2, InvAlways, PTL DEF Spec, IsMap
=============================================================================
