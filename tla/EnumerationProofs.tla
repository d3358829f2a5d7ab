------------------------- MODULE EnumerationProofs -------------------------
(***************************************************************************)
(* InOrder lists a finite set of places without a gap and in order.        *)
(***************************************************************************)
EXTENDS Enumeration, FiniteSetTheorems, SequenceTheorems, TLAPS

(* The rank of a place grows from one to the next.                         *)
LEMMA RankGrows ==
  ASSUME NEW S, IsFiniteSet(S), S \subseteq Nat
  PROVE  /\ Cardinality(S) \in Nat
         /\ \A i \in S : Rank(S, i) \in 1..Cardinality(S)
         /\ \A i, j \in S : i < j => Rank(S, i) < Rank(S, j)
  <1> DEFINE Up(i) == {j \in S : j <= i}
  <1>1. Cardinality(S) \in Nat
    BY FS_CardinalityType
  <1>2. ASSUME NEW i \in S
        PROVE  /\ IsFiniteSet(Up(i)) /\ Cardinality(Up(i)) \in Nat
               /\ Cardinality(Up(i)) <= Cardinality(S) /\ Cardinality(Up(i)) # 0
    <2>1. Up(i) \in SUBSET S
      OBVIOUS
    <2>2. i \in Up(i)
      OBVIOUS
    <2> HIDE DEF Up
    <2>3. QED
      BY <2>1, <2>2, FS_Subset, FS_CardinalityType, FS_EmptySet
  <1>3. ASSUME NEW i \in S, NEW j \in S, i < j
        PROVE  Cardinality(Up(i)) < Cardinality(Up(j))
    <2>0. i \in Nat /\ j \in Nat /\ \A x \in S : x \in Nat
      OBVIOUS
    <2>1. \A x \in S : x <= i => x <= j
      BY <1>3, <2>0
    <2>1a. Up(i) \in SUBSET Up(j)
      BY <2>1, ZenonT(30)
    <2>2. j \in Up(j) /\ j \notin Up(i)
      BY <1>3
    <2> HIDE DEF Up
    <2>3. Up(i) # Up(j)
      BY <2>2
    <2>4. Cardinality(Up(i)) <= Cardinality(Up(j)) /\ Cardinality(Up(i)) # Cardinality(Up(j))
      BY <2>1a, <2>3, <1>2, FS_Subset
    <2>5. QED
      BY <2>4, <1>2
  <1>4. \A i \in S : Rank(S, i) = Cardinality(Up(i))
    BY DEF Rank
  <1> HIDE DEF Up
  <1>5. \A i \in S : Rank(S, i) \in 1..Cardinality(S)
    BY <1>1, <1>2, <1>4
  <1>6. \A i, j \in S : i < j => Rank(S, i) < Rank(S, j)
    BY <1>3, <1>4
  <1>7. QED
    BY <1>1, <1>5, <1>6

(* So no two places have the same rank.                                    *)
LEMMA RankApart ==
  ASSUME NEW S, IsFiniteSet(S), S \subseteq Nat,
         NEW i \in S, NEW j \in S, Rank(S, i) = Rank(S, j)
  PROVE  i = j
  <1>1. i \in Nat /\ j \in Nat
    OBVIOUS
  <1>2. /\ Cardinality(S) \in Nat
        /\ \A x \in S : Rank(S, x) \in 1..Cardinality(S)
        /\ \A x, y \in S : x < y => Rank(S, x) < Rank(S, y)
    BY RankGrows
  <1>3. Rank(S, i) \in Nat
    BY <1>2
  <1>4. ~(i < j) /\ ~(j < i)
    BY <1>1, <1>2, <1>3
  <1>5. QED
    BY <1>1, <1>4

(* InOrder goes through the set: every place once, in their order.         *)
LEMMA Listed ==
  ASSUME NEW S, IsFiniteSet(S), S \subseteq Nat
  PROVE  /\ Len(InOrder(S)) = Cardinality(S)
         /\ Len(InOrder(S)) \in Nat
         /\ InOrder(S) \in Seq(Nat)
         /\ \A k \in 1..Len(InOrder(S)) :
              InOrder(S)[k] \in S /\ Rank(S, InOrder(S)[k]) = k
         /\ \A i \in S : /\ Rank(S, i) \in 1..Len(InOrder(S))
                         /\ InOrder(S)[Rank(S, i)] = i
         /\ \A k, l \in 1..Len(InOrder(S)) : k < l => InOrder(S)[k] < InOrder(S)[l]
         /\ InOrder(S) = <<>> <=> S = {}
  <1> DEFINE n == Cardinality(S)
  <1> DEFINE Up == [i \in S |-> Rank(S, i)]
  <1>1. /\ n \in Nat
        /\ \A i \in S : Rank(S, i) \in 1..n
        /\ \A i, j \in S : i < j => Rank(S, i) < Rank(S, j)
        /\ \A i, j \in S : Rank(S, i) = Rank(S, j) => i = j
    BY RankGrows, RankApart
  <1>2. Up \in Injection(S, 1..n)
    <2> HIDE DEF n
    <2>1. Up \in [S -> 1..n] /\ \A i \in S : Up[i] = Rank(S, i)
      BY <1>1
    <2> HIDE DEF Up
    <2>2. QED
      BY <2>1, <1>1 DEF Injection, IsInjective
  <1>3. Up \in Surjection(S, 1..n)
    <2>1. IsFiniteSet(1..n) /\ Cardinality(1..n) = n
      BY <1>1, FS_Interval
    <2> HIDE DEF Up
    <2>2. QED
      BY <1>2, <2>1, FS_Injection
  <1>4. \A k \in 1..n : \E i \in S : Rank(S, i) = k
    BY <1>3 DEF Surjection
  <1>5. InOrder(S) = [k \in 1..n |-> CHOOSE i \in S : Rank(S, i) = k]
    BY DEF InOrder
  <1> HIDE DEF n, Up
  <1>6. \A k \in 1..n : InOrder(S)[k] \in S /\ Rank(S, InOrder(S)[k]) = k
    BY <1>4, <1>5
  <1>7. InOrder(S) \in Seq(Nat) /\ Len(InOrder(S)) = n
    <2>1. \A k \in 1..n : InOrder(S)[k] \in Nat
      BY <1>6
    <2>2. InOrder(S) \in [1..n -> Nat]
      BY <2>1, <1>5
    <2>3. QED
      BY <2>2, <1>1
  <1>8. \A i \in S : InOrder(S)[Rank(S, i)] = i
    BY <1>1, <1>6
  <1>9. ASSUME NEW k \in 1..n, NEW l \in 1..n, k < l
        PROVE  InOrder(S)[k] < InOrder(S)[l]
    <2> DEFINE i == InOrder(S)[k]
    <2> DEFINE j == InOrder(S)[l]
    <2>1. i \in S /\ j \in S
      BY <1>6
    <2>2. Rank(S, i) = k /\ Rank(S, j) = l
      BY <1>6
    <2> HIDE DEF i, j
    <2>3. i # j /\ ~(j < i)
      BY <2>1, <2>2, <1>1, <1>9
    <2>4. i \in Nat /\ j \in Nat
      BY <2>1
    <2>5. i < j
      BY <2>3, <2>4
    <2>6. QED
      BY <2>5 DEF i, j
  <1>10. InOrder(S) = <<>> <=> S = {}
    <2>1. n = 0 <=> S = {}
      BY FS_EmptySet DEF n
    <2>2. InOrder(S) = <<>> <=> n = 0
      BY <1>7, <1>1, EmptySeq
    <2>3. QED
      BY <2>1, <2>2
  <1>11. QED
    BY <1>1, <1>6, <1>7, <1>8, <1>9, <1>10 DEF n

(* A listing that goes upwards and leaves no place out is InOrder.         *)
LEMMA OneListing ==
  ASSUME NEW S, S \subseteq Nat, NEW q \in Seq(Nat),
         \A k \in 1..Len(q) : q[k] \in S,
         \A i \in S : \E k \in 1..Len(q) : q[k] = i,
         \A k, l \in 1..Len(q) : k < l => q[k] < q[l]
  PROVE  IsFiniteSet(S) /\ q = InOrder(S)
  <1> DEFINE n == Len(q)
  <1>1. n \in Nat /\ \A k \in 1..n : q[k] \in Nat
    OBVIOUS
  <1>2. \A k, l \in 1..n : q[k] = q[l] => k = l
    <2>1. \A k, l \in 1..n : (k < l => q[k] # q[l]) /\ (l < k => q[k] # q[l])
      BY <1>1
    <2>2. \A k, l \in 1..n : k # l => k < l \/ l < k
      BY <1>1
    <2>3. QED
      BY <2>1, <2>2
  <1>3. q \in [1..n -> S]
    <2>1. q = [k \in 1..n |-> q[k]]
      OBVIOUS
    <2>2. QED
      BY <2>1
  <1>4. IsFiniteSet(S) /\ Cardinality(S) = n
    <2>1. q \in Bijection(1..n, S)
      <3> HIDE DEF n
      <3>1. q \in Injection(1..n, S)
        BY <1>2, <1>3 DEF Injection, IsInjective
      <3>2. q \in Surjection(1..n, S)
        BY <1>3 DEF Surjection, n
      <3>3. QED
        BY <3>1, <3>2 DEF Bijection
    <2>2. IsFiniteSet(1..n)
      BY <1>1, FS_Interval
    <2> HIDE DEF n
    <2>3. ExistsBijection(1..n, S)
      BY <2>1 DEF ExistsBijection
    <2>4. QED
      BY <1>1, <2>2, <2>3, FS_Bijection, FS_CountingElements
  <1>5. ASSUME NEW k \in 1..n
        PROVE  Rank(S, q[k]) = k
    <2> DEFINE Up == {j \in S : j <= q[k]}
    <2> DEFINE f == [l \in 1..k |-> q[l]]
    <2>1. k \in Nat /\ 1..k \subseteq 1..n
      BY <1>1
    <2>2. ASSUME NEW l \in 1..k
          PROVE  f[l] \in Up
      <3>1. l \in 1..n /\ l <= k /\ l \in Nat
        BY <2>1
      <3>2. q[l] <= q[k]
        BY <3>1, <1>1, <2>1
      <3>3. QED
        BY <3>1, <3>2
    <2>3. ASSUME NEW j \in Up
          PROVE  \E l \in 1..k : f[l] = j
      <3>1. PICK l \in 1..n : q[l] = j
        OBVIOUS
      <3>2. q[l] <= q[k] /\ q[l] \in Nat /\ q[k] \in Nat /\ l \in Nat /\ l >= 1
        BY <3>1, <1>1
      <3>3. ~(k < l)
        BY <3>2, <1>1
      <3>4. l \in 1..k
        BY <3>2, <3>3, <2>1
      <3>5. QED
        BY <3>1, <3>4
    <2>4. f \in [1..k -> Up]
      BY <2>2
    <2>5. \A a, b \in 1..k : f[a] = f[b] => a = b
      BY <1>2, <2>1
    <2> HIDE DEF f, Up
    <2>6. f \in Bijection(1..k, Up)
      BY <2>3, <2>4, <2>5 DEF Bijection, Injection, IsInjective, Surjection
    <2>7. Cardinality(Up) = k
      BY <2>1, <2>6, FS_CountingElements DEF ExistsBijection
    <2>8. QED
      BY <2>7 DEF Rank, Up
  <1>6. /\ InOrder(S) \in Seq(Nat) /\ Len(InOrder(S)) = n
        /\ \A i \in S : InOrder(S)[Rank(S, i)] = i
    BY <1>4, Listed
  <1>7. \A k \in 1..n : InOrder(S)[k] = q[k]
    <2> HIDE DEF n
    <2>1. QED
      BY <1>3, <1>5, <1>6
  <1>8. QED
    BY <1>4, <1>6, <1>7, SeqEqual

(* A place on its own.                                                     *)
LEMMA ListedOne ==
  ASSUME NEW m \in Nat
  PROVE  /\ InOrder({m}) = <<m>>
         /\ Len(InOrder({m})) = 1 /\ InOrder({m})[1] = m
  <1>1. PICK q : q = <<m>>
    OBVIOUS
  <1>2. q \in Seq(Nat) /\ Len(q) = 1 /\ q[1] = m
    BY <1>1
  <1>3. {m} \subseteq Nat /\ \A k \in 1..Len(q) : q[k] \in {m}
    BY <1>2
  <1>4. \A i \in {m} : \E k \in 1..Len(q) : q[k] = i
    BY <1>2
  <1>5. \A k, l \in 1..Len(q) : k < l => q[k] < q[l]
    BY <1>2
  <1>6. q = InOrder({m})
    BY <1>2, <1>3, <1>4, <1>5, OneListing
  <1>7. QED
    BY <1>1, <1>2, <1>6

(* Places beyond all others are listed after them.                         *)
LEMMA ListedBeyond ==
  ASSUME NEW S, IsFiniteSet(S), S \subseteq Nat,
         NEW T, IsFiniteSet(T), T \subseteq Nat,
         \A i \in S, j \in T : i < j
  PROVE  InOrder(S \cup T) = InOrder(S) \o InOrder(T)
  <1>1. PICK p : p = InOrder(S)
    OBVIOUS
  <1>2. PICK q : q = InOrder(T)
    OBVIOUS
  <1>3. /\ p \in Seq(Nat) /\ \A k \in 1..Len(p) : p[k] \in S
        /\ \A i \in S : \E k \in 1..Len(p) : p[k] = i
        /\ \A k, l \in 1..Len(p) : k < l => p[k] < p[l]
    BY <1>1, Listed
  <1>4. /\ q \in Seq(Nat) /\ \A k \in 1..Len(q) : q[k] \in T
        /\ \A i \in T : \E k \in 1..Len(q) : q[k] = i
        /\ \A k, l \in 1..Len(q) : k < l => q[k] < q[l]
    BY <1>2, Listed
  <1>5. PICK r : r = p \o q
    OBVIOUS
  <1>6. /\ r \in Seq(Nat) /\ Len(r) = Len(p) + Len(q)
        /\ Len(p) \in Nat /\ Len(q) \in Nat
        /\ \A k \in 1..Len(r) : r[k] = IF k <= Len(p) THEN p[k] ELSE q[k - Len(p)]
    BY <1>3, <1>4, <1>5
  <1>7. \A k \in 1..Len(r) : \/ k \in 1..Len(p) /\ r[k] = p[k]
                             \/ k - Len(p) \in 1..Len(q) /\ r[k] = q[k - Len(p)] /\ k > Len(p)
    BY <1>6
  <1>8. \A k \in 1..Len(r) : r[k] \in S \cup T
    BY <1>7, <1>3, <1>4
  <1>9. ASSUME NEW i \in S \cup T
        PROVE  \E k \in 1..Len(r) : r[k] = i
    <2>1. CASE i \in S
      <3>1. PICK k \in 1..Len(p) : p[k] = i
        BY <2>1, <1>3
      <3>2. QED
        BY <3>1, <1>6
    <2>2. CASE i \in T
      <3>1. PICK k \in 1..Len(q) : q[k] = i
        BY <2>2, <1>4
      <3>2. PICK m : m = k + Len(p)
        OBVIOUS
      <3>3. m \in 1..Len(r) /\ ~(m <= Len(p)) /\ m - Len(p) = k
        BY <3>2, <1>6
      <3>4. r[m] = i
        BY <3>1, <3>3, <1>6
      <3>5. QED
        BY <3>3, <3>4
    <2>3. QED
      BY <2>1, <2>2
  <1>10. ASSUME NEW k \in 1..Len(r), NEW l \in 1..Len(r), k < l
         PROVE  r[k] < r[l]
    <2>1. CASE l <= Len(p)
      <3>1. k \in 1..Len(p) /\ l \in 1..Len(p) /\ k <= Len(p)
        BY <2>1, <1>6, <1>10
      <3>2. r[k] = p[k] /\ r[l] = p[l]
        BY <3>1, <2>1, <1>6
      <3>3. QED
        BY <3>1, <3>2, <1>3, <1>10
    <2>2. CASE k > Len(p)
      <3>1. /\ k - Len(p) \in 1..Len(q) /\ l - Len(p) \in 1..Len(q)
            /\ k - Len(p) < l - Len(p)
            /\ r[k] = q[k - Len(p)] /\ r[l] = q[l - Len(p)]
        BY <2>2, <1>6, <1>10
      <3>2. QED
        BY <3>1, <1>4
    <2>3. CASE k <= Len(p) /\ l > Len(p)
      <3>1. r[k] = p[k] /\ k \in 1..Len(p) /\ r[l] = q[l - Len(p)] /\ l - Len(p) \in 1..Len(q)
        BY <2>3, <1>6
      <3>2. p[k] \in S /\ q[l - Len(p)] \in T
        BY <3>1, <1>3, <1>4
      <3>3. QED
        BY <3>1, <3>2
    <2>4. QED
      BY <2>1, <2>2, <2>3, <1>6
  <1>11. S \cup T \subseteq Nat
    OBVIOUS
  <1>12. r = InOrder(S \cup T)
    BY <1>6, <1>8, <1>9, <1>10, <1>11, OneListing
  <1>13. QED
    BY <1>1, <1>2, <1>5, <1>12

(* Moving the places moves the listing.                                    *)
LEMMA ListedMoved ==
  ASSUME NEW S, IsFiniteSet(S), S \subseteq Nat, NEW d \in Nat,
         NEW T, \A i \in S : i + d \in T, \A j \in T : \E i \in S : j = i + d
  PROVE  /\ IsFiniteSet(T) /\ Len(InOrder(T)) = Len(InOrder(S))
         /\ \A k \in 1..Len(InOrder(S)) : InOrder(T)[k] = InOrder(S)[k] + d
  <1>1. PICK p : p = InOrder(S)
    OBVIOUS
  <1>2. /\ p \in Seq(Nat) /\ Len(p) \in Nat /\ \A k \in 1..Len(p) : p[k] \in S
        /\ \A i \in S : \E k \in 1..Len(p) : p[k] = i
        /\ \A k, l \in 1..Len(p) : k < l => p[k] < p[l]
    BY <1>1, Listed
  <1>3. PICK q : q = [k \in 1..Len(p) |-> p[k] + d]
    OBVIOUS
  <1>4. q \in Seq(Nat) /\ Len(q) = Len(p) /\ \A k \in 1..Len(q) : q[k] = p[k] + d
    BY <1>2, <1>3
  <1>5. T \subseteq Nat /\ \A k \in 1..Len(q) : q[k] \in T
    BY <1>2, <1>4
  <1>6. ASSUME NEW j \in T
        PROVE  \E k \in 1..Len(q) : q[k] = j
    <2>1. PICK i \in S : j = i + d
      OBVIOUS
    <2>2. PICK k \in 1..Len(p) : p[k] = i
      BY <1>2
    <2>3. QED
      BY <2>1, <2>2, <1>4
  <1>7. \A k, l \in 1..Len(q) : k < l => q[k] < q[l]
    BY <1>2, <1>4
  <1>8. IsFiniteSet(T) /\ q = InOrder(T)
    BY <1>4, <1>5, <1>6, <1>7, OneListing
  <1>9. QED
    BY <1>1, <1>4, <1>8

(* A finite set of places that is not empty has a first and a last.        *)
LEMMA FirstAndLast ==
  ASSUME NEW S, IsFiniteSet(S), S \subseteq Nat, S # {}
  PROVE  /\ \E x \in S : \A y \in S : x <= y
         /\ \E x \in S : \A y \in S : x >= y
  <1>1. PICK p : p = InOrder(S)
    OBVIOUS
  <1>2. /\ p \in Seq(Nat) /\ Len(p) \in Nat /\ p # <<>>
        /\ \A k \in 1..Len(p) : p[k] \in S
        /\ \A i \in S : \E k \in 1..Len(p) : p[k] = i
        /\ \A k, l \in 1..Len(p) : k < l => p[k] < p[l]
    BY <1>1, Listed
  <1>3. 1 \in 1..Len(p) /\ Len(p) \in 1..Len(p)
    BY <1>2
  <1>4. \A k \in 1..Len(p) : p[1] <= p[k] /\ p[k] <= p[Len(p)]
    <2>1. TAKE k \in 1..Len(p)
    <2>2. k = 1 \/ 1 < k
      BY <1>2
    <2>3. k = Len(p) \/ k < Len(p)
      BY <1>2
    <2>4. p[k] \in Nat /\ p[1] \in Nat /\ p[Len(p)] \in Nat
      BY <1>2, <1>3
    <2>5. p[1] <= p[k]
      BY <2>2, <2>4, <1>2, <1>3
    <2>6. p[k] <= p[Len(p)]
      BY <2>3, <2>4, <1>2, <1>3
    <2>7. QED
      BY <2>5, <2>6
  <1>5. \A y \in S : p[1] <= y /\ p[Len(p)] >= y
    <2>1. TAKE y \in S
    <2>2. PICK k \in 1..Len(p) : p[k] = y
      BY <1>2
    <2>3. p[1] <= y /\ y <= p[Len(p)] /\ y \in Nat /\ p[Len(p)] \in Nat
      BY <2>2, <1>4, <1>2, <1>3
    <2>4. QED
      BY <2>3
  <1>6. p[1] \in S /\ p[Len(p)] \in S
    BY <1>2, <1>3
  <1>7. QED
    BY <1>5, <1>6
=============================================================================
