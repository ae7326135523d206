--------------------------- MODULE DataInduction ---------------------------
(***************************************************************************)
(* Induction over the naturals with the property given as a set, and what  *)
(* follows from it about finite sets put in order.  The proofs about the   *)
(* components that fold over, sort or number their data rest on it.        *)
(***************************************************************************)
EXTENDS Integers, Sequences, FiniteSets, FiniteSetTheorems, SequenceTheorems,
        WellFoundedInduction, TLAPS

\* A nonempty set of naturals has a least element.
LEMMA LeastOf ==
  ASSUME NEW T, T \subseteq Nat, T # {}
  PROVE  \E m \in T : \A k \in T : m <= k
<1>1. OpToRel(<, Nat) = {ss \in Nat \X Nat : ss[1] < ss[2]}
  BY DEF OpToRel
<1>2. \E x \in T : \A y \in T : ~(<<y, x>> \in OpToRel(<, Nat))
  BY NatLessThanWellFounded, WFMin
<1>3. PICK x \in T : \A y \in T : ~(<<y, x>> \in {ss \in Nat \X Nat : ss[1] < ss[2]})
  BY <1>1, <1>2
<1>4. ASSUME NEW y \in T PROVE x <= y
  <2>1. x \in Nat /\ y \in Nat
    OBVIOUS
  <2>2. ~(y < x)
    BY <1>3, <2>1
  <2> QED BY <2>1, <2>2
<1> QED BY <1>4

\* Induction, with the property as a set.
LEMMA SetInduction ==
  ASSUME NEW S, 0 \in S, \A n \in Nat : n \in S => n + 1 \in S
  PROVE  \A n \in Nat : n \in S
<1> SUFFICES ASSUME NEW n \in Nat, n \notin S PROVE FALSE
  OBVIOUS
<1> DEFINE T == {m \in Nat : m \notin S}
<1>1. PICK m \in T : \A k \in T : m <= k
  <2>1. T \subseteq Nat /\ n \in T
    OBVIOUS
  <2> HIDE DEF T
  <2> QED BY <2>1, LeastOf
<1>2. m # 0
  BY <1>1
<1>3. m - 1 \in Nat /\ m - 1 \notin T
  BY <1>1, <1>2
<1> QED BY <1>1, <1>3

\* A function on 1..m is a sequence of length m.
LEMMA FunctionIsSeq ==
  ASSUME NEW m \in Nat, NEW X, NEW s \in [1..m -> X]
  PROVE  s \in Seq(X) /\ Len(s) = m
<1>1. s \in Seq(X)
  BY SeqDef
<1>2. Len(s) \in Nat /\ DOMAIN s = 1..Len(s)
  BY <1>1, LenProperties
<1>3. DOMAIN s = 1..m
  OBVIOUS
<1> QED BY <1>1, <1>2, <1>3

\* A finite set can be numbered by increasing key.
LEMMA OrderExists ==
  ASSUME NEW X, IsFiniteSet(X), NEW rank, \A x \in X : rank[x] \in Nat
  PROVE  \E q \in [1..Cardinality(X) -> X] :
           /\ {q[i] : i \in 1..Cardinality(X)} = X
           /\ \A i, j \in 1..Cardinality(X) : i < j => rank[q[i]] <= rank[q[j]]
<1> DEFINE Fits(Y, n, q) ==
             /\ q \in [1..n -> Y] /\ {q[i] : i \in 1..n} = Y
             /\ \A i, j \in 1..n : i < j => rank[q[i]] <= rank[q[j]]
           S == {n \in Nat : \A Y \in SUBSET X : IsFiniteSet(Y) /\ Cardinality(Y) = n =>
                               \E q : Fits(Y, n, q)}
<1>1. 0 \in S
  <2>1. ASSUME NEW Y \in SUBSET X, IsFiniteSet(Y), Cardinality(Y) = 0 PROVE \E q : Fits(Y, 0, q)
    <3>1. Y = {}
      BY <2>1, FS_EmptySet
    <3> DEFINE e == [i \in 1..0 |-> 0]
    <3>2. Fits(Y, 0, e)
      BY <3>1
    <3> HIDE DEF e, Fits
    <3> QED BY <3>2
  <2> HIDE DEF Fits
  <2> QED BY <2>1
<1>2. ASSUME NEW n \in Nat, n \in S PROVE n + 1 \in S
  <2>1. ASSUME NEW Y \in SUBSET X, IsFiniteSet(Y), Cardinality(Y) = n + 1
        PROVE  \E q : Fits(Y, n + 1, q)
    <3> DEFINE K == {rank[y] : y \in Y}
    <3>1. Y # {}
      BY <2>1, FS_EmptySet
    <3>2. K \subseteq Nat /\ K # {}
      BY <3>1
    <3>3. PICK k \in K : \A l \in K : k <= l
      <4> HIDE DEF K
      <4> QED BY <3>2, LeastOf
    <3>4. PICK x \in Y : \A y \in Y : rank[x] <= rank[y]
      BY <3>3
    <3> DEFINE Z == Y \ {x}
    <3>5. IsFiniteSet(Z) /\ Cardinality(Z) = n
      <4>1. IsFiniteSet(Z) /\ Cardinality(Z) = Cardinality(Y) - 1
        BY <2>1, FS_RemoveElement
      <4> QED BY <2>1, <4>1
    <3>6. PICK q : Fits(Z, n, q)
      <4> HIDE DEF Fits
      <4> QED BY <1>2, <3>5
    <3> DEFINE p == [i \in 1..(n + 1) |-> IF i = 1 THEN x ELSE q[i - 1]]
    <3>7. /\ \A i \in 1..(n + 1) : p[i] = IF i = 1 THEN x ELSE q[i - 1]
          /\ \A i \in 2..(n + 1) : i - 1 \in 1..n /\ p[i] = q[i - 1] /\ q[i - 1] \in Y
          /\ p[1] = x
      BY <3>6
    <3>8. p \in [1..(n + 1) -> Y]
      BY <3>6
    <3> HIDE DEF p
    <3>9. {p[i] : i \in 1..(n + 1)} = Y
      <4>1. ASSUME NEW y \in Y PROVE \E i \in 1..(n + 1) : p[i] = y
        <5>1. CASE y = x
          BY <3>7, <5>1
        <5>2. CASE y # x
          <6>1. PICK j \in 1..n : q[j] = y
            BY <3>6, <5>2
          <6>2. j + 1 \in 2..(n + 1) /\ (j + 1) - 1 = j /\ j + 1 \in 1..(n + 1)
            OBVIOUS
          <6>3. p[j + 1] = y
            BY <3>7, <6>1, <6>2
          <6> QED BY <6>2, <6>3
        <5> QED BY <5>1, <5>2
      <4> QED BY <3>8, <4>1
    <3>10. ASSUME NEW i \in 1..(n + 1), NEW j \in 1..(n + 1), i < j PROVE rank[p[i]] <= rank[p[j]]
      <4>1. j \in 2..(n + 1) /\ p[j] \in Y
        BY <3>8, <3>10
      <4>2. CASE i = 1
        BY <3>4, <3>7, <4>1, <4>2
      <4>3. CASE i # 1
        <5>1. i \in 2..(n + 1) /\ i - 1 < j - 1
          BY <3>10, <4>3
        <5> QED BY <3>6, <3>7, <4>1, <5>1
      <4> QED BY <4>2, <4>3
    <3>11. Fits(Y, n + 1, p)
      BY <3>8, <3>9, <3>10
    <3> HIDE DEF Fits
    <3> QED BY <3>11
  <2> HIDE DEF Fits
  <2> QED BY <2>1
<1>3. Cardinality(X) \in Nat
  BY FS_CardinalityType
<1>4. \A n \in Nat : n \in S
  <2> HIDE DEF S
  <2> QED BY <1>1, <1>2, SetInduction
<1>5. \E q : Fits(X, Cardinality(X), q)
  <2> HIDE DEF Fits
  <2> QED BY <1>3, <1>4
<1> QED BY <1>5
=============================================================================
