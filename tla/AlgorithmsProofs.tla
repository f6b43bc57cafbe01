-------------------------- MODULE AlgorithmsProofs --------------------------
(***************************************************************************)
(* What a request for part of an array gets, for every array, of any       *)
(* number of dimensions of any sizes, and every selection that             *)
(* format_constraint does not reject.                                      *)
(*                                                                         *)
(* The places of an array and its positions correspond: INDEX_nD_TO_1D     *)
(* sends a position to the place whose coordinates it is (CoordinateOf-    *)
(* Index), every place has a position (IndexOfCoordinates), and the order  *)
(* of the places is that of the positions (BeforeIsBelow).  The nested     *)
(* loops run through every combination of their counters once, in order    *)
(* (CountersInner), whatever start and stride are (VisitedMoves).          *)
(*                                                                         *)
(* What the parts of a file's metadata come together to, whichever their   *)
(* number and order: the loop over the objects puts each text at its       *)
(* number (GoodStep), and a list without a gap has each number once.       *)
(*                                                                         *)
(* Both as invariants of Algorithms: CacheSelectionHolds, ComputedSelec-   *)
(* tionHolds, MetadataJoinedHolds.                                         *)
(***************************************************************************)
EXTENDS Algorithms, ProofLemmas

\* Quotient and remainder.
LEMMA Division ==
    ASSUME NEW n \in Nat, NEW m \in Nat \ {0}
    PROVE  /\ n \div m \in Nat /\ n % m \in 0..(m - 1)
           /\ n = (m * (n \div m)) + (n % m)
BY SMT

\* They are the only ones.
LEMMA Unique ==
    ASSUME NEW m \in Nat \ {0}, NEW k \in Nat
    PROVE  /\ (m * k) % m = 0
           /\ (m * k) \div m = k
BY SMT

\* Multiplication keeps the order.
LEMMA Monotone ==
    ASSUME NEW m \in Nat, NEW j \in Nat, NEW k \in Nat, j <= k
    PROVE  m * j <= m * k
BY SMT

\* format_constraint: count steps of the stride, from the start, visit exactly the
\* places of the dimension that the selection selects, from start to stop, for
\* every array and selection.
THEOREM CountVisitsSelected ==
    ASSUME NEW sel, NEW d \in DOMAIN sel, Legal(sel[d])
    PROVE  {Offset(sel)[d] + Step(sel)[d] * k : k \in 0..(Count(sel)[d] - 1)}
             = {p \in sel[d].start..sel[d].stop : (p - sel[d].start) % sel[d].stride = 0}
<1> DEFINE o == sel[d].start
           m == sel[d].stride
           e == sel[d].stop
           q == (e - o) \div m
<1>1. /\ o \in Nat /\ m \in Nat \ {0} /\ e \in Nat /\ o <= e /\ e - o \in Nat
  BY DEF Legal, Positive
<1>2. /\ Offset(sel)[d] = o /\ Step(sel)[d] = m /\ Count(sel)[d] = q + 1
  BY DEF Offset, Step, Count
<1> HIDE DEF o, m, e
<1>3. /\ q \in Nat /\ (e - o) % m \in 0..(m - 1) /\ e - o = (m * q) + ((e - o) % m)
  BY <1>1, Division
<1> HIDE DEF q
<1>4. ASSUME NEW k \in 0..q
      PROVE  o + (m * k) \in {p \in o..e : (p - o) % m = 0}
  <2>1. k \in Nat /\ k <= q
    BY <1>3
  <2>2. m * k \in Nat /\ m * k <= m * q
    BY <1>1, <1>3, <2>1, Monotone
  <2>3. m * q <= e - o
    BY <1>1, <1>3
  <2>4. (o + (m * k)) - o = m * k
    BY <1>1, <2>2
  <2>5. (m * k) % m = 0
    BY <1>1, <2>1, Unique
  <2> QED
    BY <1>1, <1>3, <2>2, <2>3, <2>4, <2>5
<1>5. ASSUME NEW p \in o..e, (p - o) % m = 0
      PROVE  \E k \in 0..q : p = o + (m * k)
  <2> DEFINE k == (p - o) \div m
  <2>1. p - o \in Nat /\ p - o <= e - o
    BY <1>1
  <2>2. k \in Nat /\ p - o = m * k
    BY <1>1, <1>5, <2>1, Division
  <2> HIDE DEF k
  <2>3. k <= q
    <3> SUFFICES ASSUME q + 1 <= k PROVE FALSE
      BY <1>3, <2>2
    <3>1. m * (q + 1) <= m * k
      BY <1>1, <1>3, <2>2, Monotone
    <3>2. m * (q + 1) = (m * q) + m
      BY <1>1, <1>3
    <3> QED
      BY <1>1, <1>3, <2>1, <2>2, <3>1, <3>2
  <2> QED
    BY <1>1, <1>3, <2>2, <2>3
<1>6. {o + (m * k) : k \in 0..q} = {p \in o..e : (p - o) % m = 0}
  BY <1>4, <1>5
<1>7. 0..(Count(sel)[d] - 1) = 0..q
  BY <1>2, <1>3
<1> QED
  BY <1>2, <1>6, <1>7 DEF o, m, e
------------------------------------------------------------------------------
(***************************************************************************)
(* Products and weights.                                                   *)
(***************************************************************************)


\* A quotient and a remainder that belong to a number are its quotient and remainder.
LEMMA Quotient ==
    ASSUME NEW w \in Positive, NEW q \in Nat, NEW r \in 0..(w - 1)
    PROVE  (w * q + r) \div w = q /\ (w * q + r) % w = r
BY SMT DEF Positive

\* Dividing twice.
LEMMA DivideTwice ==
    ASSUME NEW e \in Nat, NEW w \in Positive, NEW k \in Positive
    PROVE  e \div (k * w) = (e \div w) \div k
<1> DEFINE q == e \div w
           r == e % w
           a == q \div k
           b == q % k
<1>1. q \in Nat /\ r \in 0..(w - 1) /\ e = w * q + r
  BY Division DEF Positive
<1>2. a \in Nat /\ b \in 0..(k - 1) /\ q = k * a + b
  BY <1>1, Division DEF Positive
<1> HIDE DEF a, b, q, r
<1>3. k * w \in Positive /\ w * b + r \in 0..(k * w - 1)
  <2>1. w * b + w <= w * k
    BY <1>2, Monotone DEF Positive
  <2>2. w \in Nat /\ k \in Nat /\ w * b \in Nat /\ w * k \in Nat /\ w * k = k * w
    BY <1>2 DEF Positive
  <2>3. k * w # 0
    BY DEF Positive
  <2> QED BY <1>1, <2>1, <2>2, <2>3 DEF Positive
<1>4. e = (k * w) * a + (w * b + r)
  <2>1. w * q = w * (k * a) + w * b
    BY <1>1, <1>2 DEF Positive
  <2>2. w * (k * a) = (k * w) * a
    BY <1>2 DEF Positive
  <2> QED BY <1>1, <1>2, <2>1, <2>2 DEF Positive
<1>5. e \div (k * w) = a
  BY <1>2, <1>3, <1>4, Quotient
<1> QED BY <1>5 DEF a, q

\* The products of the first numbers.
Products(numbers, t) ==
    /\ t \in [0..Len(numbers) -> Positive]
    /\ t[0] = 1
    /\ \A d \in 1..Len(numbers) : t[d] = t[d - 1] * numbers[d]

\* Product is the last of them.
LEMMA ProductBy ==
    ASSUME NEW numbers \in Seq(Positive)
    PROVE  \E t : Products(numbers, t) /\ Product(numbers) = t[Len(numbers)]
<1> DEFINE n == Len(numbers)
           Upto(m, t) == t = [d \in 0..m |-> IF d = 0 THEN 1 ELSE t[d - 1] * numbers[d]]
           t == CHOOSE t : Upto(n, t)
<1>1. n \in Nat /\ \A d \in 1..n : numbers[d] \in Positive
  BY SeqElement
<1>2. \E s : Upto(n, s)
  <2> DEFINE T == {m \in Nat : ~\E s : Upto(m, s)}
  <2>1. SUFFICES ASSUME T # {} PROVE FALSE
    BY <1>1
  <2>2. PICK m \in T : \A j \in T : m <= j
    BY <2>1, MinNat
  <2>3. CASE m = 0
    <3> DEFINE s == [d \in 0..0 |-> 1]
    <3>1. Upto(0, s)
      OBVIOUS
    <3> QED BY <2>2, <2>3, <3>1
  <2>4. CASE m # 0
    <3>1. m \in Nat /\ m - 1 \in Nat
      BY <2>2, <2>4
    <3>2. m - 1 \notin T
      <4> HIDE DEF T
      <4> QED BY <2>2, <3>1
    <3>3. PICK s : Upto(m - 1, s)
      BY <3>1, <3>2
    <3> DEFINE u == [d \in 0..m |-> IF d = m THEN s[m - 1] * numbers[m] ELSE s[d]]
    <3>4. ASSUME NEW d \in 0..m
          PROVE  u[d] = IF d = 0 THEN 1 ELSE u[d - 1] * numbers[d]
      BY <2>4, <3>1, <3>3
    <3>5. Upto(m, u)
      BY <3>4
    <3> QED BY <2>2, <3>5
  <2> QED BY <2>3, <2>4
<1>3. Upto(n, t)
  BY <1>2, Zenon
<1>4. Product(numbers) = t[n]
  BY Zenon DEF Product
<1> HIDE DEF t
<1>5. t[0] = 1 /\ \A d \in 1..n : t[d] = t[d - 1] * numbers[d]
  BY <1>1, <1>3
<1>6. \A d \in 0..n : t[d] \in Positive
  <2> DEFINE T == {d \in Nat : d <= n /\ t[d] \notin Positive}
  <2>1. SUFFICES ASSUME T # {} PROVE FALSE
    BY <1>1
  <2>2. PICK d \in T : \A j \in T : d <= j
    BY <2>1, MinNat
  <2>3. d # 0
    BY <1>5, <2>2 DEF Positive
  <2>4. d \in 1..n /\ d - 1 \in Nat
    BY <1>1, <2>2, <2>3
  <2>5. t[d - 1] \in Positive
    <3>1. d - 1 \notin T
      <4> HIDE DEF T
      <4> QED BY <2>2, <2>4
    <3> QED BY <1>1, <2>4, <3>1
  <2>6. t[d - 1] * numbers[d] \in Positive
    BY <1>1, <2>4, <2>5 DEF Positive
  <2> QED BY <1>5, <2>2, <2>4, <2>6
<1>7. DOMAIN t = 0..n /\ t = [d \in 0..n |-> t[d]]
  BY <1>3
<1>8. t \in [0..n -> Positive]
  BY <1>6, <1>7
<1> QED BY <1>4, <1>5, <1>8 DEF Products

\* An array whose dimensions are not empty is not.
LEMMA ProductPositive ==
    ASSUME NEW numbers \in Seq(Positive)
    PROVE  Product(numbers) \in Positive
<1>1. PICK t : Products(numbers, t) /\ Product(numbers) = t[Len(numbers)]
  BY ProductBy
<1>2. Len(numbers) \in 0..Len(numbers)
  OBVIOUS
<1> QED BY <1>1, <1>2 DEF Products

\* The sizes from dimension p + 1 on.
Masked(dims, p) == [j \in DOMAIN dims |-> IF j > p THEN dims[j] ELSE 1]

\* They are a sequence of sizes, too.
LEMMA MaskedIs ==
    ASSUME NEW dims \in Seq(Positive), NEW p \in 0..Len(dims)
    PROVE  /\ Masked(dims, p) \in Seq(Positive) /\ Len(Masked(dims, p)) = Len(dims)
           /\ \A d \in 1..Len(dims) : Masked(dims, p)[d] = IF d > p THEN dims[d] ELSE 1
           /\ Weight(dims, p) = Product(Masked(dims, p))
<1>1. Len(dims) \in Nat /\ DOMAIN dims = 1..Len(dims) /\ \A d \in 1..Len(dims) : dims[d] \in Positive
  BY SeqElement
<1>2. 1 \in Positive
  BY DEF Positive
<1>3. Masked(dims, p) \in [1..Len(dims) -> Positive]
  BY <1>1, <1>2 DEF Masked
<1> QED BY <1>1, <1>3 DEF Masked, Weight

\* The weight of a dimension is that of the next one times its size.
LEMMA WeightStep ==
    ASSUME NEW dims \in Seq(Positive), NEW p \in 1..Len(dims)
    PROVE  Weight(dims, p - 1) = dims[p] * Weight(dims, p)
<1> DEFINE n == Len(dims)
           a == Masked(dims, p - 1)
           b == Masked(dims, p)
<1>1. n \in Nat /\ p - 1 \in 0..n /\ p \in 0..n /\ \A d \in 1..n : dims[d] \in Positive
  BY SeqElement
<1>2. /\ a \in Seq(Positive) /\ Len(a) = n /\ Weight(dims, p - 1) = Product(a)
      /\ \A d \in 1..n : a[d] = IF d > p - 1 THEN dims[d] ELSE 1
  BY <1>1, MaskedIs
<1>3. /\ b \in Seq(Positive) /\ Len(b) = n /\ Weight(dims, p) = Product(b)
      /\ \A d \in 1..n : b[d] = IF d > p THEN dims[d] ELSE 1
  BY <1>1, MaskedIs
<1> HIDE DEF a, b
<1>4. PICK s : Products(a, s) /\ Product(a) = s[n]
  BY <1>2, ProductBy
<1>5. PICK t : Products(b, t) /\ Product(b) = t[n]
  BY <1>3, ProductBy
<1>6. /\ s[0] = 1 /\ \A d \in 1..n : s[d] = s[d - 1] * (IF d > p - 1 THEN dims[d] ELSE 1)
      /\ t[0] = 1 /\ \A d \in 1..n : t[d] = t[d - 1] * (IF d > p THEN dims[d] ELSE 1)
      /\ \A d \in 0..n : s[d] \in Positive /\ t[d] \in Positive
  BY <1>2, <1>3, <1>4, <1>5 DEF Products
<1> DEFINE Good(d) == s[d] = IF d < p THEN t[d] ELSE dims[p] * t[d]
           T == {d \in Nat : d <= n /\ ~Good(d)}
<1>7. SUFFICES ASSUME T # {} PROVE FALSE
  <2>1. n \notin T => Good(n)
    BY <1>1
  <2> QED BY <1>1, <1>2, <1>3, <1>4, <1>5, <1>7, <2>1
<1>8. PICK d \in T : \A j \in T : d <= j
  BY <1>7, MinNat
<1>9. d # 0
  BY <1>1, <1>6, <1>8
<1>10. d \in 1..n /\ d - 1 \in Nat /\ d - 1 \in 0..n
  BY <1>1, <1>8, <1>9
<1>11. Good(d - 1)
  <2>1. d - 1 \notin T
    <3> HIDE DEF T
    <3> QED BY <1>8, <1>10
  <2> QED BY <1>1, <1>10, <2>1
<1>12. CASE d < p
  <2>1. s[d] = s[d - 1] * 1 /\ t[d] = t[d - 1] * 1 /\ s[d - 1] = t[d - 1]
    BY <1>1, <1>6, <1>10, <1>11, <1>12
  <2> QED BY <1>8, <1>12, <2>1
<1>13. CASE d = p
  <2>1. s[d] = s[d - 1] * dims[p] /\ t[d] = t[d - 1] * 1 /\ s[d - 1] = t[d - 1]
    BY <1>1, <1>6, <1>10, <1>11, <1>13
  <2>2. t[d - 1] \in Nat /\ dims[p] \in Nat
    BY <1>1, <1>6, <1>10 DEF Positive
  <2>3. s[d] = dims[p] * t[d]
    BY <2>1, <2>2
  <2> QED BY <1>8, <1>13, <2>3
<1>14. CASE d > p
  <2>1. s[d] = s[d - 1] * dims[d] /\ t[d] = t[d - 1] * dims[d] /\ s[d - 1] = dims[p] * t[d - 1]
    BY <1>1, <1>6, <1>10, <1>11, <1>14
  <2>2. t[d - 1] \in Nat /\ dims[p] \in Nat /\ dims[d] \in Nat
    BY <1>1, <1>6, <1>10 DEF Positive
  <2>3. s[d] = dims[p] * t[d]
    BY <2>1, <2>2
  <2> QED BY <1>8, <1>14, <2>3
<1> QED BY <1>10, <1>12, <1>13, <1>14

\* The weight of the last dimension is one, and what would be that of a dimension
\* before the first is the number of all elements.
LEMMA WeightEnds ==
    ASSUME NEW dims \in Seq(Positive)
    PROVE  /\ \A p \in 0..Len(dims) : Weight(dims, p) \in Positive
           /\ Weight(dims, Len(dims)) = 1
           /\ Weight(dims, 0) = Product(dims)
<1> DEFINE n == Len(dims)
<1>1. n \in Nat /\ n \in 0..n /\ 0 \in 0..n
  OBVIOUS
<1>2. ASSUME NEW p \in 0..n PROVE Weight(dims, p) \in Positive
  <2> DEFINE a == Masked(dims, p)
  <2>1. a \in Seq(Positive) /\ Len(a) = n /\ Weight(dims, p) = Product(a)
    BY MaskedIs
  <2> HIDE DEF a
  <2>2. PICK t : Products(a, t) /\ Product(a) = t[n]
    BY <2>1, ProductBy
  <2> QED BY <1>1, <2>1, <2>2 DEF Products
<1>3. Weight(dims, n) = 1
  <2> DEFINE a == Masked(dims, n)
  <2>1. /\ a \in Seq(Positive) /\ Len(a) = n /\ Weight(dims, n) = Product(a)
        /\ \A d \in 1..n : a[d] = IF d > n THEN dims[d] ELSE 1
    BY <1>1, MaskedIs
  <2> HIDE DEF a
  <2>2. PICK t : Products(a, t) /\ Product(a) = t[n]
    BY <2>1, ProductBy
  <2>3. t[0] = 1 /\ \A d \in 1..n : t[d] = t[d - 1] * 1
    BY <1>1, <2>1, <2>2 DEF Products
  <2> DEFINE T == {d \in Nat : d <= n /\ t[d] # 1}
  <2>4. SUFFICES ASSUME T # {} PROVE FALSE
    BY <1>1, <2>1, <2>2
  <2>5. PICK d \in T : \A j \in T : d <= j
    BY <2>4, MinNat
  <2>6. d # 0
    BY <2>3, <2>5
  <2>7. d \in 1..n /\ d - 1 \in Nat /\ d - 1 <= n
    BY <1>1, <2>5, <2>6
  <2>8. d - 1 \notin T
    <3> HIDE DEF T
    <3> QED BY <2>5, <2>7
  <2> QED BY <2>3, <2>5, <2>7, <2>8
<1>4. Weight(dims, 0) = Product(dims)
  <2>1. /\ Masked(dims, 0) \in Seq(Positive) /\ Len(Masked(dims, 0)) = n
        /\ \A d \in 1..n : Masked(dims, 0)[d] = IF d > 0 THEN dims[d] ELSE 1
        /\ Weight(dims, 0) = Product(Masked(dims, 0))
    BY <1>1, MaskedIs
  <2>2. Masked(dims, 0) = dims
    BY <2>1
  <2> QED BY <2>1, <2>2
<1> QED BY <1>2, <1>3, <1>4

------------------------------------------------------------------------------
(***************************************************************************)
(* Places and positions.                                                   *)
(***************************************************************************)

\* A position in the array.
Inside(dims, pos) ==
    /\ pos \in Seq(Nat) /\ Len(pos) = Len(dims)
    /\ \A d \in 1..Len(dims) : pos[d] < dims[d]

\* The sums of INDEX_nD_TO_1D.
Sums(dims, pos, t) ==
    /\ t \in [0..Len(dims) -> Nat]
    /\ t[0] = 0
    /\ \A p \in 1..Len(dims) : t[p] = t[p - 1] + Weight(dims, p) * pos[p]

\* INDEX_nD_TO_1D is the last of them.
LEMMA IndexBy ==
    ASSUME NEW dims \in Seq(Positive), NEW pos \in Seq(Nat), Len(pos) = Len(dims)
    PROVE  \E t : Sums(dims, pos, t) /\ INDEX_nD_TO_1D(dims, pos) = t[Len(dims)]
<1> DEFINE n == Len(dims)
           W(p) == Weight(dims, p)
           Upto(m, t) == t = [p \in 0..m |-> IF p = 0 THEN 0 ELSE t[p - 1] + W(p) * pos[p]]
           t == CHOOSE t : Upto(n, t)
<1>1. n \in Nat /\ \A p \in 1..n : pos[p] \in Nat
  BY SeqElement
<1>2. \A p \in 0..n : W(p) \in Positive
  BY WeightEnds
<1>3. INDEX_nD_TO_1D(dims, pos) = t[n]
  BY Zenon DEF INDEX_nD_TO_1D
<1> HIDE DEF W
<1>4. \E s : Upto(n, s)
  <2> DEFINE T == {m \in Nat : ~\E s : Upto(m, s)}
  <2>1. SUFFICES ASSUME T # {} PROVE FALSE
    BY <1>1
  <2>2. PICK m \in T : \A j \in T : m <= j
    BY <2>1, MinNat
  <2>3. CASE m = 0
    <3> DEFINE s == [p \in 0..0 |-> 0]
    <3>1. Upto(0, s)
      OBVIOUS
    <3> QED BY <2>2, <2>3, <3>1
  <2>4. CASE m # 0
    <3>1. m \in Nat /\ m - 1 \in Nat
      BY <2>2, <2>4
    <3>2. m - 1 \notin T
      <4> HIDE DEF T
      <4> QED BY <2>2, <3>1
    <3>3. PICK s : Upto(m - 1, s)
      BY <3>1, <3>2
    <3> DEFINE u == [p \in 0..m |-> IF p = m THEN s[m - 1] + W(m) * pos[m] ELSE s[p]]
    <3>4. ASSUME NEW p \in 0..m
          PROVE  u[p] = IF p = 0 THEN 0 ELSE u[p - 1] + W(p) * pos[p]
      BY <2>4, <3>1, <3>3
    <3>5. Upto(m, u)
      BY <3>4
    <3> QED BY <2>2, <3>5
  <2> QED BY <2>3, <2>4
<1>5. Upto(n, t)
  BY <1>4, Zenon
<1> HIDE DEF t
<1>6. t[0] = 0 /\ \A p \in 1..n : t[p] = t[p - 1] + W(p) * pos[p]
  BY <1>1, <1>5
<1>7. \A p \in 0..n : t[p] \in Nat
  <2> DEFINE T == {p \in Nat : p <= n /\ t[p] \notin Nat}
  <2>1. SUFFICES ASSUME T # {} PROVE FALSE
    BY <1>1
  <2>2. PICK p \in T : \A j \in T : p <= j
    BY <2>1, MinNat
  <2>3. p # 0
    BY <1>6, <2>2
  <2>4. p \in 1..n /\ p - 1 \in Nat /\ p \in 0..n
    BY <1>1, <2>2, <2>3
  <2>5. t[p - 1] \in Nat
    <3>1. p - 1 \notin T
      <4> HIDE DEF T
      <4> QED BY <2>2, <2>4
    <3> QED BY <1>1, <2>4, <3>1
  <2>6. W(p) * pos[p] \in Nat
    BY <1>1, <1>2, <2>4 DEF Positive
  <2> QED BY <1>6, <2>2, <2>4, <2>5, <2>6
<1>8. DOMAIN t = 0..n /\ t = [p \in 0..n |-> t[p]]
  BY <1>5
<1>9. t \in [0..n -> Nat]
  BY <1>7, <1>8
<1> QED BY <1>3, <1>6, <1>9 DEF Sums, W

\* A place below the size adds less than the size does.
LEMMA BelowNext ==
    ASSUME NEW w \in Nat, NEW a \in Nat, NEW d \in Nat, a + 1 <= d
    PROVE  w * a \in Nat /\ d * w \in Nat /\ w * a + w <= d * w
<1>1. w * (a + 1) <= w * d
  BY Monotone
<1>2. w * (a + 1) = w * a + w /\ w * d = d * w /\ w * a \in Nat /\ w * d \in Nat
  BY SMT
<1> QED BY <1>1, <1>2

\* The dimensions after p add less than the weight of p.
LEMMA IndexRest ==
    ASSUME NEW dims \in Seq(Positive), NEW pos, Inside(dims, pos), NEW t, Sums(dims, pos, t),
           NEW p \in 0..Len(dims)
    PROVE  t[p] <= t[Len(dims)] /\ t[Len(dims)] < t[p] + Weight(dims, p)
<1> DEFINE n == Len(dims)
           W(k) == Weight(dims, k)
           Good(k) == t[k] <= t[n] /\ t[n] < t[k] + W(k)
           T == {k \in Nat : k <= n /\ ~Good(n - k)}
<1>1. n \in Nat /\ \A k \in 1..n : dims[k] \in Positive /\ pos[k] \in Nat /\ pos[k] < dims[k]
  BY SeqElement DEF Inside
<1>2. (\A k \in 0..n : W(k) \in Positive) /\ W(n) = 1
  BY WeightEnds
<1>3. \A k \in 1..n : W(k - 1) = dims[k] * W(k)
  BY WeightStep
<1>4. (\A k \in 0..n : t[k] \in Nat) /\ \A k \in 1..n : t[k] = t[k - 1] + W(k) * pos[k]
  BY DEF Sums
<1> HIDE DEF W
<1>5. Good(n)
  BY <1>1, <1>2, <1>4
<1>6. ASSUME NEW k \in 1..n, Good(k) PROVE Good(k - 1)
  <2>1. /\ t[k] = t[k - 1] + W(k) * pos[k] /\ W(k - 1) = dims[k] * W(k)
        /\ t[k] \in Nat /\ t[k - 1] \in Nat /\ t[n] \in Nat /\ W(k) \in Nat
        /\ pos[k] \in Nat /\ dims[k] \in Nat /\ pos[k] + 1 <= dims[k]
    BY <1>1, <1>2, <1>3, <1>4 DEF Positive
  <2> DEFINE x == W(k) * pos[k]
             y == dims[k] * W(k)
  <2>2. x \in Nat /\ y \in Nat /\ x + W(k) <= y
    BY <2>1, BelowNext, Zenon
  <2>3. t[k] = t[k - 1] + x /\ W(k - 1) = y
    BY <2>1
  <2>4. t[k] <= t[n] /\ t[n] < t[k] + W(k)
    BY <1>6
  <2>5. t[k] \in Nat /\ t[k - 1] \in Nat /\ t[n] \in Nat /\ W(k) \in Nat
    BY <2>1
  <2> HIDE DEF x, y
  <2>6. t[k - 1] <= t[n]
    BY <2>2, <2>3, <2>4, <2>5
  <2>7. t[n] < t[k - 1] + y
    BY <2>2, <2>3, <2>4, <2>5
  <2> QED BY <2>3, <2>6, <2>7
<1> HIDE DEF Good
<1>7. SUFFICES ASSUME T # {} PROVE FALSE
  <2>1. n - p \in Nat /\ n - p <= n /\ n - (n - p) = p
    BY <1>1
  <2>2. Good(p)
    BY <1>7, <2>1
  <2> QED BY <2>2 DEF Good, W
<1>8. PICK k \in T : \A j \in T : k <= j
  BY <1>7, MinNat
<1>9. k # 0
  <2>1. n - 0 = n
    BY <1>1
  <2> QED BY <1>5, <1>8, <2>1
<1>10. k - 1 \in Nat /\ k - 1 <= n /\ k \in Nat /\ k <= n
  BY <1>1, <1>8, <1>9
<1>11. k - 1 \notin T
  <2> HIDE DEF T
  <2> QED BY <1>8, <1>10
<1>12. Good(n - (k - 1))
  BY <1>10, <1>11
<1>13. n - (k - 1) \in 1..n /\ (n - (k - 1)) - 1 = n - k
  BY <1>1, <1>9, <1>10
<1>14. Good(n - k)
  BY <1>6, <1>12, <1>13
<1> QED BY <1>8, <1>14

\* Each sum is a multiple of the weight of its dimension.
LEMMA IndexMultiple ==
    ASSUME NEW dims \in Seq(Positive), NEW pos, Inside(dims, pos), NEW t, Sums(dims, pos, t),
           NEW p \in 0..Len(dims)
    PROVE  \E m \in Nat : t[p] = Weight(dims, p) * m
<1> DEFINE n == Len(dims)
           W(k) == Weight(dims, k)
           Good(k) == \E m \in Nat : t[k] = W(k) * m
           T == {k \in Nat : k <= n /\ ~Good(k)}
<1>1. n \in Nat /\ \A k \in 1..n : dims[k] \in Positive /\ pos[k] \in Nat
  BY SeqElement DEF Inside
<1>2. \A k \in 0..n : W(k) \in Positive
  BY WeightEnds
<1>3. \A k \in 1..n : W(k - 1) = dims[k] * W(k)
  BY WeightStep
<1>4. t[0] = 0 /\ \A k \in 1..n : t[k] = t[k - 1] + W(k) * pos[k]
  BY DEF Sums
<1> HIDE DEF W
<1>5. Good(0)
  <2>1. W(0) \in Nat
    BY <1>1, <1>2 DEF Positive
  <2>2. t[0] = W(0) * 0
    BY <1>4, <2>1
  <2> QED BY <2>2
<1>6. ASSUME NEW k \in 1..n, Good(k - 1) PROVE Good(k)
  <2>1. PICK m \in Nat : t[k - 1] = W(k - 1) * m
    BY <1>6
  <2>2. W(k) \in Nat /\ pos[k] \in Nat /\ dims[k] \in Nat
    BY <1>1, <1>2 DEF Positive
  <2>3. t[k] = (dims[k] * W(k)) * m + W(k) * pos[k]
    BY <1>3, <1>4, <2>1
  <2>4. (dims[k] * W(k)) * m + W(k) * pos[k] = W(k) * (dims[k] * m + pos[k])
    BY <2>2
  <2>5. dims[k] * m + pos[k] \in Nat
    BY <2>2
  <2> QED BY <2>3, <2>4, <2>5
<1> HIDE DEF Good
<1>7. SUFFICES ASSUME T # {} PROVE FALSE
  <2>1. Good(p)
    BY <1>1, <1>7
  <2> QED BY <2>1 DEF Good, W
<1>8. PICK k \in T : \A j \in T : k <= j
  BY <1>7, MinNat
<1>9. k # 0
  BY <1>5, <1>8
<1>10. k \in 1..n /\ k - 1 \in Nat /\ k - 1 <= n
  BY <1>1, <1>8, <1>9
<1>11. k - 1 \notin T
  <2> HIDE DEF T
  <2> QED BY <1>8, <1>10
<1> QED BY <1>6, <1>8, <1>10, <1>11

\* The coordinates of the place of a position are the position: INDEX_nD_TO_1D sends
\* no two positions to one place.
LEMMA CoordinateOfIndex ==
    ASSUME NEW dims \in Seq(Positive), NEW pos, Inside(dims, pos), NEW d \in 1..Len(dims)
    PROVE  Coordinate(dims, d, INDEX_nD_TO_1D(dims, pos)) = pos[d]
<1> DEFINE n == Len(dims)
           e == INDEX_nD_TO_1D(dims, pos)
           w == Weight(dims, d)
           k == dims[d]
           a == pos[d]
<1>1. n \in Nat /\ k \in Positive /\ a \in Nat /\ a < k /\ d - 1 \in 0..n /\ d \in 0..n
  BY SeqElement DEF Inside
<1>2. w \in Positive /\ Weight(dims, d - 1) = k * w
  BY <1>1, WeightEnds, WeightStep
<1>3. pos \in Seq(Nat) /\ Len(pos) = Len(dims)
  BY DEF Inside
<1>4. PICK t : Sums(dims, pos, t) /\ e = t[n]
  BY <1>3, IndexBy
<1>5. PICK m \in Nat : t[d - 1] = Weight(dims, d - 1) * m
  BY <1>1, <1>4, IndexMultiple
<1>6. t[d] <= e /\ e < t[d] + w
  BY <1>1, <1>4, IndexRest
<1>7. t[d] = t[d - 1] + w * a /\ t[d] \in Nat /\ e \in Nat
  BY <1>1, <1>4 DEF Sums
<1>8. Coordinate(dims, d, e) = (e \div w) % k
  BY Zenon DEF Coordinate, Weight
<1> HIDE DEF e, w, k, a
<1> DEFINE q == k * m + a
           r == e - t[d]
<1>9. q \in Nat /\ t[d] = w * q
  <2>1. w \in Nat /\ k \in Nat
    BY <1>1, <1>2 DEF Positive
  <2>2. t[d] = (k * w) * m + w * a
    BY <1>2, <1>5, <1>7
  <2> QED BY <1>1, <2>1, <2>2
<1>10. r \in 0..(w - 1) /\ w * q + r = e
  <2>1. w \in Nat
    BY <1>2 DEF Positive
  <2>2. r \in 0..(w - 1) /\ t[d] + r = e
    BY <1>6, <1>7, <2>1
  <2> HIDE DEF q, r
  <2> QED BY <1>9, <2>2
<1> HIDE DEF r
<1>11. e \div w = q
  <2> HIDE DEF q
  <2> QED BY <1>2, <1>9, <1>10, Quotient
<1>12. q % k = a
  <2>1. a \in 0..(k - 1)
    BY <1>1 DEF Positive
  <2> QED BY <1>1, <2>1, Quotient
<1> HIDE DEF q
<1>13. Coordinate(dims, d, e) = a
  BY <1>8, <1>11, <1>12
<1> QED BY <1>13 DEF e, a

\* The position of a place.
PositionOf(dims, e) == [d \in 1..Len(dims) |-> Coordinate(dims, d, e)]

\* Every place has a position.
LEMMA IndexOfCoordinates ==
    ASSUME NEW dims \in Seq(Positive), NEW e \in 0..(Product(dims) - 1)
    PROVE  Inside(dims, PositionOf(dims, e)) /\ INDEX_nD_TO_1D(dims, PositionOf(dims, e)) = e
<1> DEFINE n == Len(dims)
           W(k) == Weight(dims, k)
           pos == PositionOf(dims, e)
<1>1. n \in Nat /\ \A k \in 1..n : dims[k] \in Positive
  BY SeqElement
<1>2. (\A k \in 0..n : W(k) \in Positive) /\ W(n) = 1 /\ W(0) = Product(dims)
  BY WeightEnds
<1>3. e \in Nat /\ e < W(0)
  <2>1. W(0) \in Nat
    BY <1>1, <1>2 DEF Positive
  <2> QED BY <1>2, <2>1
<1>4. \A k \in 1..n : W(k - 1) = dims[k] * W(k)
  BY WeightStep
<1>5. \A d \in 1..n : Coordinate(dims, d, e) = (e \div W(d)) % dims[d]
  BY Zenon DEF Coordinate, Weight
<1> HIDE DEF W
<1>6. ASSUME NEW d \in 1..n PROVE pos[d] = (e \div W(d)) % dims[d] /\ pos[d] \in 0..(dims[d] - 1)
  <2>1. pos[d] = (e \div W(d)) % dims[d]
    BY <1>5 DEF PositionOf
  <2>2. W(d) \in Positive /\ dims[d] \in Positive
    BY <1>1, <1>2
  <2>3. e \div W(d) \in Nat
    BY <1>3, <2>2, Division DEF Positive
  <2>4. (e \div W(d)) % dims[d] \in 0..(dims[d] - 1)
    BY <2>2, <2>3, Division DEF Positive
  <2> QED BY <2>1, <2>4
<1>7. Inside(dims, pos)
  <2>1. \A d \in 1..n : pos[d] \in Nat /\ pos[d] < dims[d]
    BY <1>1, <1>6 DEF Positive
  <2>2. pos = [d \in 1..n |-> pos[d]]
    BY DEF PositionOf
  <2> HIDE DEF pos
  <2>3. pos \in [1..n -> Nat]
    BY <2>1, <2>2
  <2>4. pos \in Seq(Nat) /\ Len(pos) = n
    BY <1>1, <2>3
  <2> QED BY <2>1, <2>4 DEF Inside
<1> HIDE DEF pos
<1>8. PICK t : Sums(dims, pos, t) /\ INDEX_nD_TO_1D(dims, pos) = t[n]
  BY <1>7, IndexBy DEF Inside
<1>9. t[0] = 0 /\ \A k \in 1..n : t[k] = t[k - 1] + W(k) * pos[k]
  BY <1>8 DEF Sums, W
<1> DEFINE Good(k) == t[k] = W(k) * (e \div W(k))
           T == {k \in Nat : k <= n /\ ~Good(k)}
<1>10. Good(0)
  <2>1. W(0) \in Positive /\ W(0) \in Nat
    BY <1>1, <1>2 DEF Positive
  <2>2. e \in 0..(W(0) - 1) /\ W(0) * 0 + e = e
    BY <1>3, <2>1
  <2>3. e \div W(0) = 0
    BY <2>1, <2>2, Quotient
  <2> QED BY <1>9, <2>1, <2>3
<1>11. ASSUME NEW k \in 1..n, Good(k - 1) PROVE Good(k)
  <2> DEFINE w == W(k)
             z == dims[k]
             q == e \div w
  <2>1. w \in Positive /\ z \in Positive /\ W(k - 1) = z * w /\ w \in Nat /\ z \in Nat
    BY <1>1, <1>2, <1>4 DEF Positive
  <2>2. q \in Nat
    BY <1>3, <2>1, Division DEF Positive
  <2>3. t[k] = t[k - 1] + w * pos[k] /\ pos[k] = q % z
    BY <1>6, <1>9
  <2>4. t[k - 1] = (z * w) * (e \div (z * w))
    BY <1>11, <2>1
  <2>5. e \div (z * w) = q \div z
    BY <1>3, <2>1, DivideTwice
  <2> HIDE DEF q, w, z
  <2>6. q \div z \in Nat /\ q % z \in 0..(z - 1) /\ q = z * (q \div z) + (q % z)
    BY <2>1, <2>2, Division DEF Positive
  <2> DEFINE x == q \div z
             y == q % z
  <2>7. t[k] = (z * w) * x + w * y
    BY <2>3, <2>4, <2>5
  <2>8. x \in Nat /\ y \in Nat /\ q = z * x + y
    BY <2>1, <2>6
  <2> HIDE DEF x, y
  <2>9. (z * w) * x + w * y = w * (z * x + y)
    BY <2>1, <2>8
  <2>10. t[k] = w * q
    BY <2>7, <2>8, <2>9
  <2> QED BY <2>10 DEF w, q
<1>12. Good(n)
  <2> HIDE DEF Good
  <2>1. SUFFICES ASSUME T # {} PROVE FALSE
    BY <1>1
  <2>2. PICK k \in T : \A j \in T : k <= j
    BY <2>1, MinNat
  <2>3. k # 0
    BY <1>10, <2>2
  <2>4. k \in 1..n /\ k - 1 \in Nat /\ k - 1 <= n
    BY <1>1, <2>2, <2>3
  <2>5. k - 1 \notin T
    <3> HIDE DEF T
    <3> QED BY <2>2, <2>4
  <2> QED BY <1>11, <2>2, <2>4, <2>5
<1>13. t[n] = e
  <2>1. t[n] = 1 * (e \div 1)
    BY <1>2, <1>12
  <2>2. e \div 1 = e
    BY <1>3
  <2> QED BY <1>3, <2>1, <2>2
<1> QED BY <1>7, <1>8, <1>13 DEF pos

\* The order in which nested loops come to positions.
Before(p, q) == \E d \in DOMAIN p : p[d] < q[d] /\ \A j \in 1..(d - 1) : p[j] = q[j]

\* It is the order of the places in the array.
LEMMA BeforeIsBelow ==
    ASSUME NEW dims \in Seq(Positive), NEW p, NEW q, Inside(dims, p), Inside(dims, q), Before(p, q)
    PROVE  INDEX_nD_TO_1D(dims, p) < INDEX_nD_TO_1D(dims, q)
<1> DEFINE n == Len(dims)
           W(k) == Weight(dims, k)
<1>1. /\ n \in Nat /\ p \in Seq(Nat) /\ q \in Seq(Nat) /\ Len(p) = n /\ Len(q) = n
      /\ DOMAIN p = 1..n /\ \A k \in 1..n : p[k] \in Nat /\ q[k] \in Nat
  BY SeqElement DEF Inside
<1>2. \A k \in 0..n : W(k) \in Positive
  BY WeightEnds
<1>3. PICK s : Sums(dims, p, s) /\ INDEX_nD_TO_1D(dims, p) = s[n]
  BY <1>1, IndexBy
<1>4. PICK t : Sums(dims, q, t) /\ INDEX_nD_TO_1D(dims, q) = t[n]
  BY <1>1, IndexBy
<1>5. PICK d \in 1..n : p[d] < q[d] /\ \A j \in 1..(d - 1) : p[j] = q[j]
  BY <1>1 DEF Before
<1>6. /\ s[0] = 0 /\ \A k \in 1..n : s[k] = s[k - 1] + W(k) * p[k]
      /\ t[0] = 0 /\ \A k \in 1..n : t[k] = t[k - 1] + W(k) * q[k]
      /\ \A k \in 0..n : s[k] \in Nat /\ t[k] \in Nat
  BY <1>3, <1>4 DEF Sums
<1>7. s[n] < s[d] + W(d) /\ t[d] <= t[n]
  BY <1>1, <1>3, <1>4, IndexRest
<1> HIDE DEF W
<1>8. s[d - 1] = t[d - 1]
  <2> DEFINE T == {k \in Nat : k <= d - 1 /\ s[k] # t[k]}
  <2>1. SUFFICES ASSUME T # {} PROVE FALSE
    BY <1>1
  <2>2. PICK k \in T : \A j \in T : k <= j
    BY <2>1, MinNat
  <2>3. k # 0
    BY <1>6, <2>2
  <2>4. k \in 1..(d - 1) /\ k - 1 \in Nat /\ k - 1 <= d - 1 /\ k \in 1..n
    BY <1>1, <2>2, <2>3
  <2>5. k - 1 \notin T
    <3> HIDE DEF T
    <3> QED BY <2>2, <2>4
  <2>6. s[k - 1] = t[k - 1] /\ p[k] = q[k]
    BY <1>5, <2>4, <2>5
  <2> QED BY <1>6, <2>2, <2>4, <2>6
<1> DEFINE x == W(d) * p[d]
           y == W(d) * q[d]
<1>9. x \in Nat /\ y \in Nat /\ x + W(d) <= y /\ W(d) \in Nat
  <2>1. W(d) \in Nat /\ p[d] \in Nat /\ q[d] \in Nat /\ p[d] + 1 <= q[d]
    BY <1>1, <1>2, <1>5 DEF Positive
  <2>2. W(d) * p[d] \in Nat /\ q[d] * W(d) \in Nat /\ W(d) * p[d] + W(d) <= q[d] * W(d)
    BY <2>1, BelowNext, Zenon
  <2>3. q[d] * W(d) = W(d) * q[d]
    BY <2>1
  <2> QED BY <2>1, <2>2, <2>3
<1>10. s[d] = s[d - 1] + x /\ t[d] = t[d - 1] + y
  BY <1>6
<1> HIDE DEF x, y
<1>11. s[d - 1] \in Nat /\ s[d] \in Nat /\ t[d] \in Nat /\ s[n] \in Nat /\ t[n] \in Nat
  BY <1>1, <1>6
<1>12. s[n] < t[n]
  <2>1. s[d] + W(d) <= t[d]
    BY <1>8, <1>9, <1>10, <1>11
  <2> QED BY <1>7, <1>9, <1>11, <2>1
<1> QED BY <1>3, <1>4, <1>12

------------------------------------------------------------------------------
(***************************************************************************)
(* The nested loops.                                                       *)
(***************************************************************************)

\* The turns of the loops of the first r dimensions, m in all: the counters of each
\* turn, in the order in which nested loops run through them, and every combination.
Counters(edge, r, m, c) ==
    /\ c \in Seq(Seq(Nat)) /\ Len(c) = m
    /\ \A i \in 1..m : Len(c[i]) = r /\ \A d \in 1..r : c[i][d] < edge[d]
    /\ \A i, j \in 1..m : i < j => Before(c[i], c[j])
    /\ \A k \in [1..r -> Nat] :
         (\A d \in 1..r : k[d] < edge[d]) => \E i \in 1..m : \A d \in 1..r : c[i][d] = k[d]

\* The turns with one more loop inside.
Inner(edge, r, c) ==
    [i \in 1..(Len(c) * edge[r]) |-> Append(c[(i - 1) \div edge[r] + 1], (i - 1) % edge[r])]

\* Which turns of the loops around and of the inner loop one turn is.
LEMMA TurnOf ==
    ASSUME NEW m \in Nat, NEW e \in Positive
    PROVE  /\ m * e \in Nat
           /\ \A i \in 1..(m * e) : (i - 1) \div e + 1 \in 1..m /\ (i - 1) % e \in 0..(e - 1)
           /\ \A i, j \in 1..(m * e) : i < j =>
                \/ (i - 1) \div e < (j - 1) \div e
                \/ (i - 1) \div e = (j - 1) \div e /\ (i - 1) % e < (j - 1) % e
           /\ \A q \in 1..m, x \in 0..(e - 1) :
                \E i \in 1..(m * e) : (i - 1) \div e + 1 = q /\ (i - 1) % e = x
<1>1. e \in Nat \ {0} /\ e \in Nat /\ m * e \in Nat
  BY SMT DEF Positive
<1>2. ASSUME NEW i \in 1..(m * e)
      PROVE  /\ i - 1 \in Nat /\ (i - 1) \div e \in Nat /\ (i - 1) % e \in 0..(e - 1)
             /\ i - 1 = e * ((i - 1) \div e) + ((i - 1) % e) /\ (i - 1) \div e < m
  <2>1. i - 1 \in Nat /\ i - 1 < m * e
    BY <1>1
  <2> DEFINE q == (i - 1) \div e
             r == (i - 1) % e
  <2>2. q \in Nat /\ r \in 0..(e - 1) /\ i - 1 = e * q + r
    BY <1>1, <2>1, Division
  <2> HIDE DEF q, r
  <2>3. q < m
    <3> SUFFICES ASSUME m <= q PROVE FALSE
      BY <2>2
    <3>1. e * m <= e * q
      BY <1>1, <2>2, Monotone
    <3>2. e * m = m * e /\ e * q \in Nat
      BY <1>1, <2>2
    <3> QED BY <1>1, <2>1, <2>2, <3>1, <3>2
  <2> QED BY <2>1, <2>2, <2>3 DEF q, r
<1>3. \A i \in 1..(m * e) : (i - 1) \div e + 1 \in 1..m /\ (i - 1) % e \in 0..(e - 1)
  BY <1>2
<1>4. ASSUME NEW i \in 1..(m * e), NEW j \in 1..(m * e), i < j
      PROVE  \/ (i - 1) \div e < (j - 1) \div e
             \/ (i - 1) \div e = (j - 1) \div e /\ (i - 1) % e < (j - 1) % e
  <2> DEFINE q == (i - 1) \div e
             r == (i - 1) % e
             u == (j - 1) \div e
             v == (j - 1) % e
  <2>1. /\ q \in Nat /\ r \in 0..(e - 1) /\ i - 1 = e * q + r
        /\ u \in Nat /\ v \in 0..(e - 1) /\ j - 1 = e * u + v
    BY <1>2
  <2>2. i - 1 < j - 1
    BY <1>1, <1>4
  <2> HIDE DEF q, r, u, v
  <2>3. e * q + r < e * u + v
    BY <2>1, <2>2
  <2>4. ASSUME u < q PROVE FALSE
    <3>1. e * (u + 1) <= e * q
      BY <1>1, <2>1, <2>4, Monotone
    <3>2. e * (u + 1) = e * u + e /\ e * u \in Nat /\ e * q \in Nat
      BY <1>1, <2>1
    <3> QED BY <1>1, <2>1, <2>3, <3>1, <3>2
  <2>5. ASSUME u = q PROVE r < v
    <3>1. e * q \in Nat
      BY <1>1, <2>1
    <3> QED BY <1>1, <2>1, <2>3, <2>5, <3>1
  <2>6. q < u \/ (q = u /\ r < v)
    <3>1. q \in Nat /\ u \in Nat
      BY <2>1
    <3>2. q < u \/ q = u \/ u < q
      BY <3>1
    <3> QED BY <2>4, <2>5, <3>2
  <2> QED BY <2>6 DEF q, r, u, v
<1>5. ASSUME NEW q \in 1..m, NEW x \in 0..(e - 1)
      PROVE  \E i \in 1..(m * e) : (i - 1) \div e + 1 = q /\ (i - 1) % e = x
  <2> DEFINE w == e * (q - 1) + x
  <2>1. q - 1 \in Nat /\ e * (q - 1) \in Nat /\ w \in Nat
    BY <1>1
  <2>2. w < m * e
    <3>1. e * (q - 1) + e <= m * e
      BY <1>1, <2>1, BelowNext
    <3> QED BY <1>1, <2>1, <3>1
  <2>3. w \div e = q - 1 /\ w % e = x
    BY <2>1, Quotient
  <2> HIDE DEF w
  <2>4. w + 1 \in 1..(m * e) /\ (w + 1) - 1 = w /\ (q - 1) + 1 = q
    BY <1>1, <2>1, <2>2
  <2> QED BY <2>3, <2>4
<1> QED BY <1>1, <1>3, <1>4, <1>5

\* One more loop inside.
LEMMA CountersInner ==
    ASSUME NEW edge \in Seq(Positive), NEW r \in 1..Len(edge), NEW m \in Nat,
           NEW c, Counters(edge, r - 1, m, c)
    PROVE  Counters(edge, r, m * edge[r], Inner(edge, r, c))
<1> DEFINE e == edge[r]
           k == m * e
           v == Inner(edge, r, c)
           Q(i) == (i - 1) \div e + 1
           X(i) == (i - 1) % e
<1>1. Len(edge) \in Nat /\ e \in Positive /\ e \in Nat /\ r - 1 \in Nat
  BY SeqElement DEF Positive
<1>2. /\ k \in Nat
      /\ \A i \in 1..k : Q(i) \in 1..m /\ X(i) \in 0..(e - 1)
      /\ \A i, j \in 1..k : i < j => Q(i) < Q(j) \/ (Q(i) = Q(j) /\ X(i) < X(j))
      /\ \A q \in 1..m, x \in 0..(e - 1) : \E i \in 1..k : Q(i) = q /\ X(i) = x
  <2>1. /\ k \in Nat
        /\ \A i \in 1..k : Q(i) \in 1..m /\ X(i) \in 0..(e - 1)
        /\ \A i, j \in 1..k : i < j =>
             (i - 1) \div e < (j - 1) \div e \/ ((i - 1) \div e = (j - 1) \div e /\ X(i) < X(j))
        /\ \A q \in 1..m, x \in 0..(e - 1) : \E i \in 1..k : Q(i) = q /\ X(i) = x
    BY <1>1, TurnOf
  <2>2. ASSUME NEW i \in 1..k PROVE (i - 1) \div e \in Nat
    <3>1. i - 1 \in Nat /\ e \in Nat \ {0}
      BY <1>1, <2>1 DEF Positive
    <3> QED BY <3>1, Division
  <2>3. ASSUME NEW i \in 1..k, NEW j \in 1..k, i < j
        PROVE  Q(i) < Q(j) \/ (Q(i) = Q(j) /\ X(i) < X(j))
    <3> DEFINE a == (i - 1) \div e
               b == (j - 1) \div e
    <3>1. a \in Nat /\ b \in Nat
      BY <2>2
    <3>2. a < b \/ (a = b /\ X(i) < X(j))
      BY <2>1, <2>3
    <3> HIDE DEF a, b, X
    <3>3. a + 1 < b + 1 \/ (a + 1 = b + 1 /\ X(i) < X(j))
      BY <3>1, <3>2
    <3> QED BY <3>3 DEF a, b
  <2> QED BY <2>1, <2>3
<1>3. /\ c \in Seq(Seq(Nat)) /\ Len(c) = m
      /\ \A i \in 1..m : Len(c[i]) = r - 1 /\ \A d \in 1..(r - 1) : c[i][d] < edge[d]
      /\ \A i, j \in 1..m : i < j => Before(c[i], c[j])
      /\ \A f \in [1..(r - 1) -> Nat] :
           (\A d \in 1..(r - 1) : f[d] < edge[d]) => \E i \in 1..m : \A d \in 1..(r - 1) : c[i][d] = f[d]
  BY DEF Counters
<1>4. v = [i \in 1..k |-> Append(c[Q(i)], X(i))]
  BY <1>3 DEF Inner
<1> HIDE DEF v, k, Q, X
<1>5. ASSUME NEW i \in 1..k
      PROVE  /\ v[i] \in Seq(Nat) /\ Len(v[i]) = r
             /\ v[i][r] = X(i) /\ \A d \in 1..(r - 1) : v[i][d] = c[Q(i)][d]
  <2>1. c[Q(i)] \in Seq(Nat) /\ Len(c[Q(i)]) = r - 1 /\ X(i) \in Nat
    <3>1. Q(i) \in 1..m /\ X(i) \in Nat
      BY <1>1, <1>2
    <3>2. c[Q(i)] \in Seq(Nat)
      BY <1>3, <3>1, SeqElement
    <3> QED BY <1>3, <3>1, <3>2
  <2>2. v[i] = Append(c[Q(i)], X(i))
    BY <1>4
  <2> QED BY <1>1, <2>1, <2>2, AppendIn
<1>6. v \in Seq(Seq(Nat)) /\ Len(v) = k
  <2>1. v = [i \in 1..k |-> v[i]]
    BY <1>4
  <2>2. v \in [1..k -> Seq(Nat)]
    BY <1>5, <2>1
  <2> QED BY <1>2, <2>2
<1>7. ASSUME NEW i \in 1..k, NEW d \in 1..r PROVE v[i][d] < edge[d]
  <2>1. CASE d = r
    <3>1. X(i) \in 0..(e - 1) /\ v[i][r] = X(i)
      BY <1>2, <1>5
    <3>2. X(i) < e
      BY <1>1, <3>1
    <3> QED BY <2>1, <3>1, <3>2
  <2>2. CASE d # r
    <3>1. d \in 1..(r - 1)
      BY <1>1, <2>2
    <3> QED BY <1>2, <1>3, <1>5, <3>1
  <2> QED BY <2>1, <2>2
<1>8. ASSUME NEW i \in 1..k, NEW j \in 1..k, i < j PROVE Before(v[i], v[j])
  <2>1. /\ Q(i) \in 1..m /\ Q(j) \in 1..m
        /\ Q(i) < Q(j) \/ (Q(i) = Q(j) /\ X(i) < X(j))
    BY <1>2, <1>8
  <2>2. DOMAIN v[i] = 1..r
    BY <1>5
  <2>3. CASE Q(i) < Q(j)
    <3>1. Before(c[Q(i)], c[Q(j)])
      BY <1>3, <2>1, <2>3
    <3>2. DOMAIN c[Q(i)] = 1..(r - 1)
      <4> DEFINE q == Q(i)
      <4>1. q \in Nat \ {0} /\ q <= Len(c) /\ Len(c[q]) = r - 1
        BY <1>3, <2>1
      <4> HIDE DEF q
      <4>2. c[q] \in Seq(Nat)
        BY <1>3, <4>1, SeqElement
      <4>3. DOMAIN c[q] = 1..(r - 1)
        BY <4>1, <4>2
      <4> QED BY <4>3 DEF q
    <3>3. PICK d \in 1..(r - 1) : /\ c[Q(i)][d] < c[Q(j)][d]
                                  /\ \A l \in 1..(d - 1) : c[Q(i)][l] = c[Q(j)][l]
      BY <3>1, <3>2 DEF Before
    <3>4. d \in 1..r /\ \A l \in 1..(d - 1) : l \in 1..(r - 1)
      BY <1>1
    <3>5. v[i][d] < v[j][d] /\ \A l \in 1..(d - 1) : v[i][l] = v[j][l]
      BY <1>5, <3>3, <3>4
    <3> QED BY <2>2, <3>4, <3>5 DEF Before
  <2>4. CASE Q(i) = Q(j) /\ X(i) < X(j)
    <3>1. v[i][r] < v[j][r] /\ \A l \in 1..(r - 1) : v[i][l] = v[j][l]
      BY <1>5, <2>4
    <3>2. r \in 1..r
      BY <1>1
    <3> QED BY <2>2, <3>1, <3>2 DEF Before
  <2> QED BY <2>1, <2>3, <2>4
<1>9. ASSUME NEW f \in [1..r -> Nat], \A d \in 1..r : f[d] < edge[d]
      PROVE  \E i \in 1..k : \A d \in 1..r : v[i][d] = f[d]
  <2> DEFINE g == [d \in 1..(r - 1) |-> f[d]]
  <2>1. g \in [1..(r - 1) -> Nat] /\ \A d \in 1..(r - 1) : g[d] = f[d] /\ f[d] < edge[d]
    BY <1>1, <1>9
  <2>2. PICK q \in 1..m : \A d \in 1..(r - 1) : c[q][d] = f[d]
    <3>1. \E q \in 1..m : \A d \in 1..(r - 1) : c[q][d] = g[d]
      <4> HIDE DEF g
      <4> QED BY <1>3, <2>1
    <3> QED BY <2>1, <3>1
  <2>3. f[r] \in 0..(e - 1)
    BY <1>1, <1>9
  <2>4. PICK i \in 1..k : Q(i) = q /\ X(i) = f[r]
    BY <1>2, <2>3
  <2>5. ASSUME NEW d \in 1..r PROVE v[i][d] = f[d]
    <3>1. CASE d = r
      BY <1>5, <2>4, <3>1
    <3>2. CASE d # r
      <4>1. d \in 1..(r - 1)
        BY <1>1, <3>2
      <4> QED BY <1>5, <2>2, <2>4, <4>1
    <3> QED BY <3>1, <3>2
  <2> QED BY <2>5
<1>10. \A i \in 1..k : Len(v[i]) = r
  BY <1>5
<1> QED BY <1>6, <1>7, <1>8, <1>9, <1>10, Zenon DEF Counters, k, v

\* What the nested loops collect, dimension by dimension.
Turns(start, stride, edge, t) ==
    t = [r \in 0..Len(start) |->
          IF r = 0 THEN << <<>> >>
          ELSE [i \in 1..(Len(t[r - 1]) * edge[r]) |->
                 Append(t[r - 1][(i - 1) \div edge[r] + 1], start[r] + ((i - 1) % edge[r]) * stride[r])]]

\* Visited collects it.
LEMMA VisitedBy ==
    ASSUME NEW start \in Seq(Nat), NEW stride, NEW edge
    PROVE  \E t : Turns(start, stride, edge, t) /\ Visited(start, stride, edge) = t[Len(start)]
<1> DEFINE n == Len(start)
           More(u, r) == [i \in 1..(Len(u) * edge[r]) |->
                            Append(u[(i - 1) \div edge[r] + 1], start[r] + ((i - 1) % edge[r]) * stride[r])]
           Upto(m, t) == t = [r \in 0..m |-> IF r = 0 THEN << <<>> >> ELSE More(t[r - 1], r)]
           t == CHOOSE t : Upto(n, t)
<1>1. n \in Nat
  OBVIOUS
<1>2. Visited(start, stride, edge) = t[n]
  BY Zenon DEF Visited
<1> HIDE DEF More
<1>3. \E s : Upto(n, s)
  <2> DEFINE T == {m \in Nat : ~\E s : Upto(m, s)}
  <2>1. SUFFICES ASSUME T # {} PROVE FALSE
    BY <1>1
  <2>2. PICK m \in T : \A j \in T : m <= j
    BY <2>1, MinNat
  <2>3. CASE m = 0
    <3> DEFINE s == [r \in 0..0 |-> << <<>> >>]
    <3>1. Upto(0, s)
      OBVIOUS
    <3> QED BY <2>2, <2>3, <3>1
  <2>4. CASE m # 0
    <3>1. m \in Nat /\ m - 1 \in Nat
      BY <2>2, <2>4
    <3>2. m - 1 \notin T
      <4> HIDE DEF T
      <4> QED BY <2>2, <3>1
    <3>3. PICK s : Upto(m - 1, s)
      BY <3>1, <3>2
    <3> DEFINE u == [r \in 0..m |-> IF r = m THEN More(s[m - 1], m) ELSE s[r]]
    <3>4. ASSUME NEW r \in 0..m
          PROVE  u[r] = IF r = 0 THEN << <<>> >> ELSE More(u[r - 1], r)
      BY <2>4, <3>1, <3>3
    <3>5. Upto(m, u)
      BY <3>4
    <3> QED BY <2>2, <3>5
  <2> QED BY <2>3, <2>4
<1>4. Upto(n, t)
  BY <1>3, Zenon
<1> HIDE DEF t
<1>5. Turns(start, stride, edge, t)
  BY <1>4, Zenon DEF Turns, More
<1> QED BY <1>2, <1>5

\* The positions of the turns c: from start, stride apart.
Moved(start, stride, r, c, u) ==
    /\ u \in Seq(Seq(Nat)) /\ Len(u) = Len(c)
    /\ \A i \in 1..Len(c) : Len(u[i]) = r /\ \A d \in 1..r : u[i][d] = start[d] + c[i][d] * stride[d]

\* A sequence of numbers that gets one more.
LEMMA AppendNat ==
    ASSUME NEW r \in Nat, NEW f \in Seq(Nat), Len(f) = r - 1, NEW y \in Nat
    PROVE  /\ Append(f, y) \in Seq(Nat) /\ Len(Append(f, y)) = r /\ Append(f, y)[r] = y
           /\ \A d \in 1..(r - 1) : Append(f, y)[d] = f[d]
<1>1. /\ Append(f, y) \in Seq(Nat) /\ Len(Append(f, y)) = Len(f) + 1
      /\ Append(f, y)[Len(f) + 1] = y /\ \A d \in 1..Len(f) : Append(f, y)[d] = f[d]
  BY AppendIn
<1>2. (r - 1) + 1 = r
  OBVIOUS
<1> QED BY <1>1, <1>2

\* A function on the first numbers is a sequence.
LEMMA FunctionAsSeq ==
    ASSUME NEW S, NEW n \in Nat, NEW s \in [1..n -> S]
    PROVE  s \in Seq(S) /\ Len(s) = n
OBVIOUS

\* A multiple of a number that comes after another one.
LEMMA Affine ==
    ASSUME NEW o \in Nat, NEW x \in Nat, NEW s \in Nat
    PROVE  o + x * s \in Nat
OBVIOUS

\* One more loop inside visits the positions of one more loop.
LEMMA MovedInner ==
    ASSUME NEW edge \in Seq(Positive), NEW r \in 1..Len(edge), NEW m \in Nat,
           NEW c, Counters(edge, r - 1, m, c), NEW k, Counters(edge, r, m * edge[r], k), k = Inner(edge, r, c),
           NEW start \in Seq(Nat), NEW stride \in Seq(Nat), Len(start) = Len(edge), Len(stride) = Len(edge),
           NEW u, Moved(start, stride, r - 1, c, u),
           NEW v, v = [i \in 1..(Len(u) * edge[r]) |->
                        Append(u[(i - 1) \div edge[r] + 1], start[r] + ((i - 1) % edge[r]) * stride[r])]
    PROVE  Moved(start, stride, r, k, v)
<1> DEFINE e == edge[r]
           o == start[r]
           s == stride[r]
           Q(i) == (i - 1) \div e + 1
           X(i) == (i - 1) % e
<1>1. /\ Len(edge) \in Nat /\ e \in Positive /\ e \in Nat /\ r - 1 \in Nat /\ r \in Nat
      /\ o \in Nat /\ s \in Nat
  <2>1. r \in Nat \ {0} /\ r <= Len(edge) /\ r <= Len(start) /\ r <= Len(stride)
    BY DEF Positive
  <2>2. e \in Positive /\ o \in Nat /\ s \in Nat
    BY <2>1, SeqElement
  <2> QED BY <2>1, <2>2 DEF Positive
<1>2. /\ m * e \in Nat
      /\ \A i \in 1..(m * e) : Q(i) \in 1..m /\ X(i) \in 0..(e - 1)
  BY <1>1, TurnOf
<1>3. c \in Seq(Seq(Nat)) /\ Len(c) = m /\ \A i \in 1..m : Len(c[i]) = r - 1
  BY DEF Counters
<1>4. k \in Seq(Seq(Nat)) /\ Len(k) = m * e
  BY DEF Counters
<1>5. u \in Seq(Seq(Nat)) /\ Len(u) = m
      /\ \A i \in 1..m : Len(u[i]) = r - 1 /\ \A d \in 1..(r - 1) : u[i][d] = start[d] + c[i][d] * stride[d]
  BY <1>3 DEF Moved
<1>6. /\ k = [i \in 1..(m * e) |-> Append(c[Q(i)], X(i))]
      /\ v = [i \in 1..(m * e) |-> Append(u[Q(i)], o + X(i) * s)]
  BY <1>3, <1>5 DEF Inner
<1> HIDE DEF Q, X, e, o, s
<1>7. ASSUME NEW i \in 1..(m * e)
      PROVE  /\ v[i] \in Seq(Nat) /\ Len(v[i]) = r
             /\ \A d \in 1..r : v[i][d] = start[d] + k[i][d] * stride[d]
  <2>1. Q(i) \in 1..m /\ X(i) \in Nat
    BY <1>1, <1>2
  <2>2. c[Q(i)] \in Seq(Nat) /\ Len(c[Q(i)]) = r - 1 /\ u[Q(i)] \in Seq(Nat) /\ Len(u[Q(i)]) = r - 1
    <3> DEFINE q == Q(i)
    <3>1. q \in 1..m
      BY <2>1
    <3> HIDE DEF q
    <3>2. Len(c[q]) = r - 1 /\ Len(u[q]) = r - 1 /\ Len(c) = m /\ Len(u) = m
      BY <1>3, <1>5, <3>1, Zenon
    <3>3. q \in Nat \ {0} /\ q <= Len(c) /\ q <= Len(u)
      BY <3>1, <3>2
    <3>4. c \in Seq(Seq(Nat)) /\ u \in Seq(Seq(Nat))
      BY <1>3, <1>5, Zenon
    <3>5. c[q] \in Seq(Nat) /\ u[q] \in Seq(Nat)
      BY <3>3, <3>4, SeqElement
    <3> QED BY <3>2, <3>5 DEF q
  <2>3. o + X(i) * s \in Nat
    BY <1>1, <2>1, Affine, Zenon
  <2>4. v[i] = Append(u[Q(i)], o + X(i) * s) /\ k[i] = Append(c[Q(i)], X(i))
    BY <1>6
  <2>5. /\ Append(c[Q(i)], X(i))[r] = X(i)
        /\ \A d \in 1..(r - 1) : Append(c[Q(i)], X(i))[d] = c[Q(i)][d]
    <3> DEFINE f == c[Q(i)]
               y == X(i)
    <3>1. r \in Nat /\ f \in Seq(Nat) /\ Len(f) = r - 1 /\ y \in Nat
      BY <1>1, <2>1, <2>2
    <3> HIDE DEF f, y
    <3>2. Append(f, y)[r] = y /\ \A d \in 1..(r - 1) : Append(f, y)[d] = f[d]
      BY <3>1, AppendNat
    <3> QED BY <3>2 DEF f, y
  <2> DEFINE x == o + X(i) * s
  <2> HIDE DEF x
  <2>6. /\ Append(u[Q(i)], x) \in Seq(Nat) /\ Len(Append(u[Q(i)], x)) = r /\ Append(u[Q(i)], x)[r] = x
        /\ \A d \in 1..(r - 1) : Append(u[Q(i)], x)[d] = u[Q(i)][d]
    <3> DEFINE f == u[Q(i)]
    <3>1. x \in Nat
      BY <2>3 DEF x
    <3>2. r \in Nat /\ f \in Seq(Nat) /\ Len(f) = r - 1
      BY <1>1, <2>2
    <3> HIDE DEF f
    <3>3. /\ Append(f, x) \in Seq(Nat) /\ Len(Append(f, x)) = r /\ Append(f, x)[r] = x
          /\ \A d \in 1..(r - 1) : Append(f, x)[d] = f[d]
      BY <3>1, <3>2, AppendNat
    <3> QED BY <3>3 DEF f
  <2>7. v[i] = Append(u[Q(i)], x)
    BY <2>4 DEF x
  <2>8. ASSUME NEW d \in 1..r PROVE v[i][d] = start[d] + k[i][d] * stride[d]
    <3>1. CASE d = r
      <4>1. v[i][d] = x /\ k[i][d] = X(i)
        BY <2>4, <2>5, <2>6, <2>7, <3>1
      <4> QED BY <3>1, <4>1 DEF x, o, s
    <3>2. CASE d # r
      <4>1. d \in 1..(r - 1)
        BY <1>1, <3>2
      <4>2. v[i][d] = u[Q(i)][d] /\ k[i][d] = c[Q(i)][d]
        BY <2>4, <2>5, <2>6, <2>7, <4>1
      <4> QED BY <1>5, <2>1, <4>1, <4>2
    <3> QED BY <3>1, <3>2
  <2> QED BY <2>6, <2>7, <2>8
<1>8. v \in Seq(Seq(Nat)) /\ Len(v) = m * e
  <2> DEFINE l == m * e
             S == Seq(Nat)
  <2>1. v = [i \in 1..l |-> v[i]] /\ (\A i \in 1..l : v[i] \in S) /\ l \in Nat
    BY <1>2, <1>6, <1>7
  <2> HIDE DEF l, S
  <2>2. v \in [1..l -> S]
    BY <2>1
  <2> DEFINE w == v
  <2>3. l \in Nat /\ w \in [1..l -> S]
    BY <2>1, <2>2
  <2> HIDE DEF w
  <2>4. w \in Seq(S) /\ Len(w) = l
    BY <2>3, FunctionAsSeq
  <2> QED BY <2>4 DEF l, S, w
<1> QED BY <1>4, <1>7, <1>8 DEF Moved

\* The nested loops visit, for each turn, in their order, the position that is start plus
\* the counters times stride: the turns are the same whatever start and stride are.
LEMMA VisitedMoves ==
    ASSUME NEW edge \in Seq(Positive)
    PROVE  \E c : /\ Counters(edge, Len(edge), Product(edge), c)
                  /\ \A start, stride \in Seq(Nat) : Len(start) = Len(edge) /\ Len(stride) = Len(edge) =>
                       Moved(start, stride, Len(edge), c, Visited(start, stride, edge))
<1> DEFINE n == Len(edge)
<1>1. n \in Nat /\ \A r \in 1..n : edge[r] \in Positive
  BY SeqElement
<1>2. PICK p : Products(edge, p) /\ Product(edge) = p[n]
  BY ProductBy
<1>3. p[0] = 1 /\ (\A r \in 1..n : p[r] = p[r - 1] * edge[r]) /\ \A r \in 0..n : p[r] \in Nat
  BY <1>2 DEF Products, Positive
<1> DEFINE Legals == {w \in Seq(Nat) \X Seq(Nat) : Len(w[1]) = n /\ Len(w[2]) = n}
           Good(r) == \E c : /\ Counters(edge, r, p[r], c)
                             /\ \A t : \A w \in Legals : Turns(w[1], w[2], edge, t) => Moved(w[1], w[2], r, c, t[r])
<1>4. Good(0)
  <2> DEFINE c == << <<>> >>
  <2>1. c \in Seq(Seq(Nat)) /\ Len(c) = 1 /\ c[1] = <<>> /\ Len(c[1]) = 0
    OBVIOUS
  <2>2. Counters(edge, 0, p[0], c)
    <3> HIDE DEF c
    <3>1. \A i, j \in 1..1 : ~(i < j)
      OBVIOUS
    <3>2. \A d \in 1..0 : FALSE
      OBVIOUS
    <3>3. \A i \in 1..1 : i = 1
      OBVIOUS
    <3> QED BY <1>3, <2>1, <3>1, <3>2, <3>3 DEF Counters
  <2>3. ASSUME NEW w \in Legals, NEW t, Turns(w[1], w[2], edge, t) PROVE Moved(w[1], w[2], 0, c, t[0])
    <3>1. 0 \in 0..Len(w[1])
      BY <1>1
    <3>2. t[0] = c
      BY <2>3, <3>1 DEF Turns
    <3> HIDE DEF c
    <3>3. \A d \in 1..0 : FALSE
      OBVIOUS
    <3>4. \A i \in 1..1 : i = 1
      OBVIOUS
    <3> QED BY <2>1, <3>2, <3>3, <3>4 DEF Moved
  <2> QED BY <2>2, <2>3
<1>5. ASSUME NEW r \in 1..n, Good(r - 1) PROVE Good(r)
  <2>1. PICK c : /\ Counters(edge, r - 1, p[r - 1], c)
                 /\ \A t : \A w \in Legals : Turns(w[1], w[2], edge, t) => Moved(w[1], w[2], r - 1, c, t[r - 1])
    BY <1>5
  <2> DEFINE k == Inner(edge, r, c)
             m == p[r - 1]
  <2>2. m \in Nat /\ p[r] = m * edge[r]
    <3>1. r - 1 \in 0..n
      BY <1>1
    <3> QED BY <1>3, <3>1
  <2> HIDE DEF m
  <2>3. Counters(edge, r - 1, m, c)
    BY <2>1 DEF m
  <2>4. Counters(edge, r, m * edge[r], k)
    BY <2>2, <2>3, CountersInner
  <2> HIDE DEF k
  <2>5. ASSUME NEW w \in Legals, NEW t, Turns(w[1], w[2], edge, t) PROVE Moved(w[1], w[2], r, k, t[r])
    <3>1. w[1] \in Seq(Nat) /\ w[2] \in Seq(Nat) /\ Len(w[1]) = n /\ Len(w[2]) = n
      OBVIOUS
    <3>2. Moved(w[1], w[2], r - 1, c, t[r - 1])
      BY <2>1, <2>5
    <3> DEFINE a == w[1]
               b == w[2]
               u == t[r - 1]
               v == [i \in 1..(Len(u) * edge[r]) |->
                       Append(u[(i - 1) \div edge[r] + 1], a[r] + ((i - 1) % edge[r]) * b[r])]
    <3>3. t[r] = v
      <4>1. r \in 0..Len(a) /\ r # 0
        BY <1>1, <3>1
      <4> QED BY <2>5, <4>1 DEF Turns
    <3>4. Moved(a, b, r, k, v)
      <4>1. k = Inner(edge, r, c)
        BY DEF k
      <4>2. Moved(a, b, r - 1, c, u)
        BY <3>2
      <4>3. a \in Seq(Nat) /\ b \in Seq(Nat) /\ Len(a) = Len(edge) /\ Len(b) = Len(edge)
        BY <3>1
      <4> HIDE DEF a, b, u, n
      <4> DEFINE x == v
      <4>4. x = [i \in 1..(Len(u) * edge[r]) |->
                   Append(u[(i - 1) \div edge[r] + 1], a[r] + ((i - 1) % edge[r]) * b[r])]
        OBVIOUS
      <4> HIDE DEF x
      <4>5. r \in 1..Len(edge)
        BY DEF n
      <4>6. Moved(a, b, r, k, x)
        BY <2>2, <2>3, <2>4, <4>1, <4>2, <4>3, <4>4, <4>5, MovedInner
      <4> QED BY <4>6 DEF x
    <3> QED BY <3>3, <3>4
  <2>6. Counters(edge, r, p[r], k)
    BY <2>2, <2>4
  <2> HIDE DEF Legals
  <2> QED BY <2>5, <2>6
<1>6. Good(n)
  <2> HIDE DEF Good
  <2> DEFINE T == {r \in Nat : r <= n /\ ~Good(r)}
  <2>1. SUFFICES ASSUME T # {} PROVE FALSE
    BY <1>1
  <2>2. PICK r \in T : \A j \in T : r <= j
    BY <2>1, MinNat
  <2>3. r # 0
    BY <1>4, <2>2
  <2>4. r \in 1..n /\ r - 1 \in Nat /\ r - 1 <= n
    BY <1>1, <2>2, <2>3
  <2>5. r - 1 \notin T
    <3> HIDE DEF T
    <3> QED BY <2>2, <2>4
  <2> QED BY <1>5, <2>2, <2>4, <2>5
<1>7. PICK c : /\ Counters(edge, n, p[n], c)
               /\ \A t : \A w \in Legals : Turns(w[1], w[2], edge, t) => Moved(w[1], w[2], n, c, t[n])
  BY <1>6
<1>8. ASSUME NEW start \in Seq(Nat), NEW stride \in Seq(Nat), Len(start) = n, Len(stride) = n
      PROVE  Moved(start, stride, n, c, Visited(start, stride, edge))
  <2>1. PICK t : Turns(start, stride, edge, t) /\ Visited(start, stride, edge) = t[Len(start)]
    BY VisitedBy
  <2> DEFINE w == <<start, stride>>
  <2>2. w \in Legals /\ w[1] = start /\ w[2] = stride
    BY <1>8
  <2> HIDE DEF w, Legals
  <2>3. Moved(start, stride, n, c, t[n])
    BY <1>7, <2>1, <2>2
  <2> QED BY <1>8, <2>1, <2>3
<1> QED BY <1>2, <1>7, <1>8

------------------------------------------------------------------------------
(***************************************************************************)
(* What a request gets.                                                    *)
(***************************************************************************)

\* The places of a dimension that are selected.
Places(s) == {p \in s.start..s.stop : (p - s.start) % s.stride = 0}

\* The starts, strides and counts of a legal selection.
LEMMA LegalIs ==
    ASSUME NEW dims, NEW sel, LegalSelection(dims, sel)
    PROVE  /\ Len(dims) \in Nat /\ dims \in Seq(Positive) /\ DOMAIN sel = 1..Len(dims)
           /\ Offset(sel) \in Seq(Nat) /\ Len(Offset(sel)) = Len(dims)
           /\ Step(sel) \in Seq(Nat) /\ Len(Step(sel)) = Len(dims)
           /\ Count(sel) \in Seq(Positive) /\ Len(Count(sel)) = Len(dims)
           /\ \A d \in 1..Len(dims) :
                /\ Legal(sel[d]) /\ dims[d] \in Positive /\ sel[d].stop < dims[d]
                /\ Offset(sel)[d] = sel[d].start /\ Step(sel)[d] = sel[d].stride
                /\ Offset(sel)[d] \in Nat /\ Step(sel)[d] \in Positive /\ Count(sel)[d] \in Positive
<1> DEFINE n == Len(dims)
<1>1. n \in Nat /\ dims \in Seq(Positive) /\ DOMAIN sel = 1..n
  BY DEF LegalSelection
<1>2. ASSUME NEW d \in 1..n
      PROVE  /\ Legal(sel[d]) /\ dims[d] \in Positive /\ sel[d].stop < dims[d]
             /\ Offset(sel)[d] = sel[d].start /\ Step(sel)[d] = sel[d].stride
             /\ Offset(sel)[d] \in Nat /\ Step(sel)[d] \in Positive /\ Count(sel)[d] \in Positive
  <2>1. Legal(sel[d]) /\ sel[d].stop < dims[d]
    <3>1. sel \in Seq([start : Nat, stride : Nat \ {0}, stop : Nat]) /\ Len(sel) = n
          /\ sel[d].start <= sel[d].stop /\ sel[d].stop < dims[d]
      BY DEF LegalSelection, Legal, Positive
    <3> DEFINE R == [start : Nat, stride : Nat \ {0}, stop : Nat]
    <3>2. sel[d] \in R
      <4>1. sel \in Seq(R) /\ d \in Nat \ {0} /\ d <= Len(sel)
        BY <1>1, <3>1
      <4> HIDE DEF R
      <4> QED BY <4>1, SeqElement
    <3> QED BY <3>1, <3>2 DEF Legal, Positive
  <2>2. dims[d] \in Positive
    BY <1>1, SeqElement
  <2>3. Offset(sel)[d] = sel[d].start /\ Step(sel)[d] = sel[d].stride
        /\ Count(sel)[d] = (sel[d].stop - sel[d].start) \div sel[d].stride + 1
    BY <1>1 DEF Offset, Step, Count
  <2> DEFINE o == sel[d].start
             m == sel[d].stride
             e == sel[d].stop
  <2>4. o \in Nat /\ m \in Nat \ {0} /\ e \in Nat /\ o <= e
    BY <2>1 DEF Legal, Positive
  <2> HIDE DEF o, m, e
  <2>5. e - o \in Nat
    BY <2>4
  <2>6. (e - o) \div m \in Nat
    BY <2>4, <2>5, Division
  <2>7. (e - o) \div m + 1 \in Positive
    BY <2>6 DEF Positive
  <2>8. Count(sel)[d] \in Positive
    BY <2>3, <2>7 DEF o, m, e
  <2> QED BY <2>1, <2>2, <2>3, <2>4, <2>8 DEF o, m, Positive
<1>3. /\ Offset(sel) = [d \in 1..n |-> Offset(sel)[d]]
      /\ Step(sel) = [d \in 1..n |-> Step(sel)[d]]
      /\ Count(sel) = [d \in 1..n |-> Count(sel)[d]]
  BY <1>1 DEF Offset, Step, Count
<1>4. Offset(sel) \in [1..n -> Nat] /\ Step(sel) \in [1..n -> Nat] /\ Count(sel) \in [1..n -> Positive]
  <2>1. \A d \in 1..n : Step(sel)[d] \in Nat
    BY <1>2 DEF Positive
  <2> QED BY <1>2, <1>3, <2>1
<1>5. /\ Offset(sel) \in Seq(Nat) /\ Len(Offset(sel)) = n
      /\ Step(sel) \in Seq(Nat) /\ Len(Step(sel)) = n
      /\ Count(sel) \in Seq(Positive) /\ Len(Count(sel)) = n
  BY <1>1, <1>4, FunctionAsSeq, Zenon
<1> QED BY <1>1, <1>2, <1>5

\* The positions the loops of a request visit are the selected ones, in the order of
\* the array, and each is in the array.
LEMMA VisitsSelected ==
    ASSUME NEW dims, NEW sel, LegalSelection(dims, sel),
           NEW c, Counters(Count(sel), Len(dims), Nels(sel), c),
           NEW v, Moved(Offset(sel), Step(sel), Len(dims), c, v)
    PROVE  /\ Len(v) = Nels(sel) /\ Nels(sel) \in Nat
           /\ \A i \in 1..Nels(sel) : /\ Inside(dims, v[i])
                                      /\ \A d \in 1..Len(dims) : v[i][d] \in Places(sel[d])
           /\ \A i, j \in 1..Nels(sel) : i < j => Before(v[i], v[j])
           /\ \A p : Inside(dims, p) /\ (\A d \in 1..Len(dims) : p[d] \in Places(sel[d])) =>
                       \E i \in 1..Nels(sel) : v[i] = p
<1> DEFINE n == Len(dims)
           m == Nels(sel)
           o == Offset(sel)
           s == Step(sel)
           e == Count(sel)
<1>1. n \in Nat /\ dims \in Seq(Positive) /\ DOMAIN sel = 1..n
  BY LegalIs
<1>2. \A d \in 1..n : /\ Legal(sel[d]) /\ dims[d] \in Positive /\ sel[d].stop < dims[d]
                      /\ o[d] \in Nat /\ s[d] \in Positive /\ e[d] \in Positive
  BY LegalIs
<1>3. ASSUME NEW d \in 1..n
      PROVE  {o[d] + s[d] * k : k \in 0..(e[d] - 1)} = Places(sel[d])
  <2>1. d \in DOMAIN sel /\ Legal(sel[d])
    BY <1>1, <1>2
  <2> QED BY <2>1, CountVisitsSelected DEF Places
<1> HIDE DEF m, o, s, e
<1>4. /\ c \in Seq(Seq(Nat)) /\ Len(c) = m
      /\ \A i \in 1..m : Len(c[i]) = n /\ \A d \in 1..n : c[i][d] < e[d]
      /\ \A i, j \in 1..m : i < j => Before(c[i], c[j])
      /\ \A k \in [1..n -> Nat] :
           (\A d \in 1..n : k[d] < e[d]) => \E i \in 1..m : \A d \in 1..n : c[i][d] = k[d]
  BY DEF Counters, m, e
<1>5. /\ v \in Seq(Seq(Nat)) /\ Len(v) = m /\ m \in Nat
      /\ \A i \in 1..m : Len(v[i]) = n /\ \A d \in 1..n : v[i][d] = o[d] + c[i][d] * s[d]
  BY <1>4 DEF Moved, o, s
<1>6. ASSUME NEW i \in 1..m
      PROVE  /\ c[i] \in Seq(Nat) /\ DOMAIN c[i] = 1..n /\ v[i] \in Seq(Nat) /\ DOMAIN v[i] = 1..n
             /\ \A d \in 1..n : c[i][d] \in Nat /\ c[i][d] < e[d]
  <2>1. c[i] \in Seq(Nat) /\ Len(c[i]) = n /\ v[i] \in Seq(Nat) /\ Len(v[i]) = n
    BY <1>4, <1>5, SeqElement
  <2>2. \A d \in 1..n : c[i][d] \in Nat
    BY <1>1, <2>1, SeqElement
  <2> QED BY <1>4, <2>1, <2>2
<1>7. ASSUME NEW i \in 1..m, NEW d \in 1..n
      PROVE  v[i][d] \in Places(sel[d]) /\ v[i][d] \in Nat /\ v[i][d] < dims[d]
  <2> DEFINE k == c[i][d]
  <2>1. k \in Nat /\ k < e[d] /\ o[d] \in Nat /\ s[d] \in Nat /\ e[d] \in Nat
    BY <1>2, <1>6 DEF Positive
  <2>2. v[i][d] = o[d] + k * s[d]
    BY <1>5
  <2> HIDE DEF k
  <2>3. k * s[d] = s[d] * k /\ k \in 0..(e[d] - 1)
    BY <2>1
  <2>4. v[i][d] \in {o[d] + s[d] * x : x \in 0..(e[d] - 1)}
    BY <2>2, <2>3
  <2>5. v[i][d] \in Places(sel[d])
    BY <1>3, <2>4
  <2>6. sel[d].start \in Nat /\ sel[d].stop \in Nat /\ sel[d].stop < dims[d] /\ dims[d] \in Nat
    BY <1>2 DEF Legal, Positive
  <2> QED BY <2>5, <2>6 DEF Places
<1>8. ASSUME NEW i \in 1..m PROVE Inside(dims, v[i])
  BY <1>5, <1>6, <1>7 DEF Inside
<1>9. ASSUME NEW i \in 1..m, NEW j \in 1..m, i < j PROVE Before(v[i], v[j])
  <2>1. PICK d \in 1..n : c[i][d] < c[j][d] /\ \A l \in 1..(d - 1) : c[i][l] = c[j][l]
    <3>1. Before(c[i], c[j])
      BY <1>4, <1>9
    <3> QED BY <1>6, <3>1 DEF Before
  <2>2. v[i][d] < v[j][d]
    <3> DEFINE a == c[i][d]
               b == c[j][d]
               w == s[d]
    <3>1. a \in Nat /\ b \in Nat /\ a < b /\ w \in Positive /\ o[d] \in Nat
      BY <1>2, <1>6, <2>1
    <3>2. v[i][d] = o[d] + a * w /\ v[j][d] = o[d] + b * w
      BY <1>5
    <3> HIDE DEF a, b, w
    <3>3. w \in Nat /\ w # 0 /\ a + 1 <= b
      BY <3>1 DEF Positive
    <3>4. w * a \in Nat /\ b * w \in Nat /\ w * a + w <= b * w
      BY <3>1, <3>3, BelowNext, Zenon
    <3>5. a * w = w * a
      BY <3>1, <3>3
    <3> DEFINE x == w * a
               y == b * w
    <3>6. x \in Nat /\ y \in Nat /\ x + w <= y /\ v[i][d] = o[d] + x /\ v[j][d] = o[d] + y
      BY <3>2, <3>4, <3>5
    <3> HIDE DEF x, y
    <3> QED BY <3>1, <3>3, <3>6
  <2>3. \A l \in 1..(d - 1) : v[i][l] = v[j][l]
    <3>1. \A l \in 1..(d - 1) : l \in 1..n
      BY <1>1
    <3> QED BY <1>5, <2>1, <3>1
  <2> QED BY <1>6, <2>2, <2>3 DEF Before
<1>10. ASSUME NEW p, Inside(dims, p), \A d \in 1..n : p[d] \in Places(sel[d])
       PROVE  \E i \in 1..m : v[i] = p
  <2> DEFINE k == [d \in 1..n |-> CHOOSE x \in 0..(e[d] - 1) : p[d] = o[d] + s[d] * x]
  <2>1. ASSUME NEW d \in 1..n
        PROVE  k[d] \in 0..(e[d] - 1) /\ p[d] = o[d] + s[d] * k[d]
    <3>1. \E x \in 0..(e[d] - 1) : p[d] = o[d] + s[d] * x
      BY <1>3, <1>10
    <3> QED BY <3>1
  <2>2. ASSUME NEW d \in 1..n
        PROVE  k[d] \in Nat /\ k[d] < e[d] /\ p[d] = o[d] + k[d] * s[d]
    <3> DEFINE x == k[d]
    <3>1. x \in 0..(e[d] - 1) /\ p[d] = o[d] + s[d] * x
      BY <2>1
    <3>2. e[d] \in Nat /\ s[d] \in Nat
      BY <1>2 DEF Positive
    <3> HIDE DEF x
    <3>3. x \in Nat /\ x < e[d] /\ s[d] * x = x * s[d]
      BY <3>1, <3>2
    <3>4. x \in Nat /\ x < e[d] /\ p[d] = o[d] + x * s[d]
      BY <3>1, <3>3
    <3> QED BY <3>4 DEF x
  <2>3. k \in [1..n -> Nat]
    <3>1. k = [d \in 1..n |-> k[d]]
      OBVIOUS
    <3> HIDE DEF k
    <3> QED BY <2>2, <3>1
  <2> HIDE DEF k
  <2>4. PICK i \in 1..m : \A d \in 1..n : c[i][d] = k[d]
    BY <1>4, <2>2, <2>3
  <2>5. \A d \in 1..n : v[i][d] = p[d]
    BY <1>5, <2>2, <2>4
  <2>6. p \in Seq(Nat) /\ Len(p) = n
    BY <1>10 DEF Inside
  <2>7. v[i] \in Seq(Nat) /\ Len(v[i]) = n
    BY <1>5, <1>6
  <2> HIDE DEF n
  <2>8. v[i] = p
    BY <2>5, <2>6, <2>7
  <2> QED BY <2>8
<1> QED BY <1>5, <1>7, <1>8, <1>9, <1>10 DEF m

\* The place of a position in the array is a place of the array.
LEMMA IndexInside ==
    ASSUME NEW dims \in Seq(Positive), NEW pos, Inside(dims, pos)
    PROVE  /\ Product(dims) \in Positive
           /\ INDEX_nD_TO_1D(dims, pos) \in 0..(Product(dims) - 1)
<1> DEFINE n == Len(dims)
<1>1. n \in Nat /\ 0 \in 0..n /\ n \in 0..n
  OBVIOUS
<1>2. Weight(dims, 0) = Product(dims) /\ Weight(dims, 0) \in Positive
  BY <1>1, WeightEnds
<1>3. PICK t : Sums(dims, pos, t) /\ INDEX_nD_TO_1D(dims, pos) = t[n]
  BY IndexBy DEF Inside
<1>4. t[0] = 0 /\ t[n] \in Nat
  BY <1>1, <1>3 DEF Sums
<1>5. t[n] < t[0] + Weight(dims, 0)
  BY <1>1, <1>3, IndexRest
<1> QED BY <1>2, <1>3, <1>4, <1>5 DEF Positive

\* What the whole array holds at a place.
LEMMA AtPlace ==
    ASSUME NEW dims, Product(dims) \in Positive, NEW e \in 0..(Product(dims) - 1)
    PROVE  At(Elements(dims), e) = e
<1> DEFINE n == Product(dims)
<1>1. n \in Nat /\ Elements(dims) = [i \in 1..n |-> i - 1] /\ e \in 0..(n - 1)
  BY DEF Elements, Positive
<1> HIDE DEF n
<1>2. Len(Elements(dims)) = n /\ Elements(dims)[e + 1] = e
  BY <1>1
<1> QED BY <1>1, <1>2 DEF At

\* What a request gets from an array that is in memory: the places of the positions
\* visited.
LEMMA MemoryGets ==
    ASSUME NEW dims, NEW sel, LegalSelection(dims, sel),
           NEW c, Counters(Count(sel), Len(dims), Nels(sel), c),
           NEW v, Moved(Offset(sel), Step(sel), Len(dims), c, v), v = Visited(Offset(sel), Step(sel), Count(sel))
    PROVE  /\ FromMemory(dims, sel) = [i \in 1..Nels(sel) |-> INDEX_nD_TO_1D(dims, v[i])]
           /\ Product(dims) \in Positive
           /\ \A i \in 1..Nels(sel) : INDEX_nD_TO_1D(dims, v[i]) \in 0..(Product(dims) - 1)
           /\ \A i, j \in 1..Nels(sel) : i < j => INDEX_nD_TO_1D(dims, v[i]) < INDEX_nD_TO_1D(dims, v[j])
<1> DEFINE m == Nels(sel)
           I(p) == INDEX_nD_TO_1D(dims, p)
<1>1. dims \in Seq(Positive)
  BY LegalIs
<1>2. /\ Len(v) = m /\ m \in Nat /\ \A i \in 1..m : Inside(dims, v[i])
      /\ \A i, j \in 1..m : i < j => Before(v[i], v[j])
  BY VisitsSelected
<1>3. v \in Seq(Seq(Nat))
  BY DEF Moved
<1>4. DOMAIN v = 1..m
  BY <1>2, <1>3
<1>5. ASSUME NEW i \in 1..m PROVE I(v[i]) \in 0..(Product(dims) - 1) /\ Product(dims) \in Positive
  BY <1>1, <1>2, IndexInside
<1>6. ASSUME NEW i \in 1..m, NEW j \in 1..m, i < j PROVE I(v[i]) < I(v[j])
  BY <1>1, <1>2, <1>6, BeforeIsBelow
<1>7. FromMemory(dims, sel) = [i \in 1..m |-> At(Elements(dims), I(v[i]))]
  BY <1>4 DEF FromMemory, subset
<1>8. ASSUME NEW i \in 1..m PROVE At(Elements(dims), I(v[i])) = I(v[i])
  <2> DEFINE e == I(v[i])
  <2>1. Product(dims) \in Positive /\ e \in 0..(Product(dims) - 1)
    BY <1>5
  <2> HIDE DEF e
  <2>2. At(Elements(dims), e) = e
    BY <2>1, AtPlace
  <2> QED BY <2>2 DEF e
<1>9. Product(dims) \in Positive
  BY <1>1, ProductPositive
<1> QED BY <1>5, <1>6, <1>7, <1>8, <1>9

\* The turns and positions of the loops of a legal selection.
LEMMA LoopsOf ==
    ASSUME NEW dims, NEW sel, LegalSelection(dims, sel)
    PROVE  \E c : /\ Counters(Count(sel), Len(dims), Nels(sel), c)
                  /\ \A start, stride \in Seq(Nat) : Len(start) = Len(dims) /\ Len(stride) = Len(dims) =>
                       Moved(start, stride, Len(dims), c, Visited(start, stride, Count(sel)))
<1>1. Count(sel) \in Seq(Positive) /\ Len(Count(sel)) = Len(dims)
  BY LegalIs
<1> QED BY <1>1, VisitedMoves DEF Nels

\* subset, CacheSelection: a request for part of an array that is in a memory cache gets
\* the selected elements, every one, no other, each once and in the order of the array:
\* for every array, of any number of dimensions of any sizes, and every legal selection.
THEOREM MemoryTheorem ==
    ASSUME NEW dims, NEW sel, LegalSelection(dims, sel)
    PROVE  Lists(FromMemory(dims, sel), Selection(dims, sel))
<1> DEFINE n == Len(dims)
           m == Nels(sel)
           N == Product(dims)
           I(p) == INDEX_nD_TO_1D(dims, p)
           f == FromMemory(dims, sel)
           S == Selection(dims, sel)
           v == Visited(Offset(sel), Step(sel), Count(sel))
<1>1. /\ dims \in Seq(Positive) /\ n \in Nat /\ DOMAIN sel = 1..n
      /\ Offset(sel) \in Seq(Nat) /\ Len(Offset(sel)) = n
      /\ Step(sel) \in Seq(Nat) /\ Len(Step(sel)) = n
  BY LegalIs
<1>2. PICK c : Counters(Count(sel), n, m, c) /\ Moved(Offset(sel), Step(sel), n, c, v)
  BY <1>1, LoopsOf
<1> HIDE DEF v
<1>3. /\ m \in Nat
      /\ \A i \in 1..m : Inside(dims, v[i]) /\ \A d \in 1..n : v[i][d] \in Places(sel[d])
      /\ \A p : Inside(dims, p) /\ (\A d \in 1..n : p[d] \in Places(sel[d])) => \E i \in 1..m : v[i] = p
  BY <1>2, VisitsSelected
<1>4. /\ f = [i \in 1..m |-> I(v[i])]
      /\ \A i \in 1..m : I(v[i]) \in 0..(N - 1)
      /\ \A i, j \in 1..m : i < j => I(v[i]) < I(v[j])
  BY <1>2, MemoryGets DEF v
<1>5. \A e : Selects(dims, sel, e) <=> \A d \in 1..n : Coordinate(dims, d, e) \in Places(sel[d])
  <2> SUFFICES ASSUME NEW e
               PROVE  Selects(dims, sel, e) <=> \A d \in 1..n : Coordinate(dims, d, e) \in Places(sel[d])
    OBVIOUS
  <2>1. Selects(dims, sel, e) <=>
          \A d \in DOMAIN sel : /\ Coordinate(dims, d, e) \in sel[d].start..sel[d].stop
                                 /\ (Coordinate(dims, d, e) - sel[d].start) % sel[d].stride = 0
    <3>1. DOMAIN dims = DOMAIN sel
      BY <1>1
    <3> QED BY <3>1, Zenon DEF Selects
  <2>2. ASSUME NEW d \in DOMAIN sel
        PROVE  Coordinate(dims, d, e) \in Places(sel[d]) <=>
                 /\ Coordinate(dims, d, e) \in sel[d].start..sel[d].stop
                 /\ (Coordinate(dims, d, e) - sel[d].start) % sel[d].stride = 0
    <3> DEFINE x == Coordinate(dims, d, e)
    <3> HIDE DEF x
    <3>1. x \in Places(sel[d]) <=> x \in sel[d].start..sel[d].stop /\ (x - sel[d].start) % sel[d].stride = 0
      BY Zenon DEF Places
    <3> QED BY <3>1 DEF x
  <2> QED BY <1>1, <2>1, <2>2, Zenon
<1>6. S = {e \in 0..(N - 1) : \A d \in 1..n : Coordinate(dims, d, e) \in Places(sel[d])}
  BY <1>5 DEF Selection
<1> HIDE DEF f, S, N
<1>7. ASSUME NEW i \in 1..m PROVE I(v[i]) \in S
  <2>1. \A d \in 1..n : Coordinate(dims, d, I(v[i])) = v[i][d]
    BY <1>1, <1>3, CoordinateOfIndex
  <2> QED BY <1>3, <1>4, <1>6, <2>1
<1>8. ASSUME NEW e \in S PROVE \E i \in 1..m : I(v[i]) = e
  <2> DEFINE p == PositionOf(dims, e)
  <2>1. e \in 0..(N - 1) /\ \A d \in 1..n : Coordinate(dims, d, e) \in Places(sel[d])
    BY <1>6
  <2>2. Inside(dims, p) /\ I(p) = e
    BY <1>1, <2>1, IndexOfCoordinates DEF N
  <2>3. \A d \in 1..n : p[d] = Coordinate(dims, d, e)
    BY DEF PositionOf
  <2> HIDE DEF p
  <2>4. \A d \in 1..n : p[d] \in Places(sel[d])
    BY <2>1, <2>3
  <2>5. PICK i \in 1..m : v[i] = p
    BY <1>3, <2>2, <2>4
  <2> QED BY <2>2, <2>5
<1> DEFINE g(i) == I(v[i])
<1>9. /\ f = [i \in 1..m |-> g(i)] /\ (\A i \in 1..m : g(i) \in S) /\ (\A e \in S : \E i \in 1..m : g(i) = e)
      /\ \A i, j \in 1..m : i < j => g(i) < g(j)
  BY <1>4, <1>7, <1>8
<1> HIDE DEF g
<1>10. DOMAIN f = 1..m /\ \A i \in 1..m : f[i] = g(i)
  BY <1>9
<1>11. ToSet(f) = S
  BY <1>9, <1>10 DEF ToSet
<1>12. \A i, j \in DOMAIN f : i < j => f[i] < f[j]
  BY <1>9, <1>10
<1>13. Lists(f, S)
  BY <1>11, <1>12 DEF Lists
<1> QED BY <1>13 DEF f, S

------------------------------------------------------------------------------
(***************************************************************************)
(* The part of a file that a request reads.                                *)
(***************************************************************************)

\* A row of positions in one dimension is worth what both positions are.
LEMMA Distribute ==
    ASSUME NEW w \in Nat, NEW a \in Nat, NEW b \in Nat
    PROVE  w * (a + b) = w * a + w * b /\ w * a \in Nat /\ w * b \in Nat
BY SMT

\* The place of a position that is the sum of two is the sum of their places.
LEMMA IndexAdd ==
    ASSUME NEW dims \in Seq(Positive),
           NEW p \in Seq(Nat), Len(p) = Len(dims), NEW q \in Seq(Nat), Len(q) = Len(dims),
           NEW r \in Seq(Nat), Len(r) = Len(dims), \A d \in 1..Len(dims) : r[d] = p[d] + q[d]
    PROVE  /\ INDEX_nD_TO_1D(dims, p) \in Nat /\ INDEX_nD_TO_1D(dims, q) \in Nat
           /\ INDEX_nD_TO_1D(dims, r) = INDEX_nD_TO_1D(dims, p) + INDEX_nD_TO_1D(dims, q)
<1> DEFINE n == Len(dims)
           W(k) == Weight(dims, k)
<1>1. n \in Nat /\ \A k \in 1..n : p[k] \in Nat /\ q[k] \in Nat
  BY SeqElement
<1>2. \A k \in 0..n : W(k) \in Positive
  BY WeightEnds
<1>3. PICK s : Sums(dims, p, s) /\ INDEX_nD_TO_1D(dims, p) = s[n]
  BY IndexBy
<1>4. PICK t : Sums(dims, q, t) /\ INDEX_nD_TO_1D(dims, q) = t[n]
  BY IndexBy
<1>5. PICK u : Sums(dims, r, u) /\ INDEX_nD_TO_1D(dims, r) = u[n]
  BY IndexBy
<1>6. /\ s[0] = 0 /\ \A k \in 1..n : s[k] = s[k - 1] + W(k) * p[k]
      /\ t[0] = 0 /\ \A k \in 1..n : t[k] = t[k - 1] + W(k) * q[k]
      /\ u[0] = 0 /\ \A k \in 1..n : u[k] = u[k - 1] + W(k) * r[k]
      /\ \A k \in 0..n : s[k] \in Nat /\ t[k] \in Nat /\ u[k] \in Nat
  BY <1>3, <1>4, <1>5 DEF Sums
<1> HIDE DEF W
<1> DEFINE Good(k) == u[k] = s[k] + t[k]
<1>7. Good(0)
  BY <1>6
<1>8. ASSUME NEW k \in 1..n, Good(k - 1) PROVE Good(k)
  <2> DEFINE a == W(k) * p[k]
             b == W(k) * q[k]
             c == W(k) * r[k]
  <2>1. a \in Nat /\ b \in Nat /\ c = a + b
    <3>1. W(k) \in Nat /\ p[k] \in Nat /\ q[k] \in Nat /\ r[k] = p[k] + q[k]
      BY <1>1, <1>2 DEF Positive
    <3>2. W(k) * (p[k] + q[k]) = a + b /\ a \in Nat /\ b \in Nat
      BY <3>1, Distribute, Zenon
    <3> QED BY <3>1, <3>2
  <2>2. s[k] = s[k - 1] + a /\ t[k] = t[k - 1] + b /\ u[k] = u[k - 1] + c
    BY <1>6
  <2>3. s[k - 1] \in Nat /\ t[k - 1] \in Nat /\ u[k - 1] = s[k - 1] + t[k - 1]
    <3>1. k - 1 \in 0..n
      BY <1>1
    <3> QED BY <1>6, <1>8, <3>1
  <2> HIDE DEF a, b, c
  <2> DEFINE x == s[k - 1]
             y == t[k - 1]
  <2>4. x \in Nat /\ y \in Nat /\ s[k] = x + a /\ t[k] = y + b /\ u[k] = (x + y) + (a + b)
    BY <2>1, <2>2, <2>3
  <2> HIDE DEF x, y
  <2>5. (x + y) + (a + b) = (x + a) + (y + b)
    BY <2>1, <2>4
  <2> QED BY <2>4, <2>5
<1>9. Good(n)
  <2> HIDE DEF Good
  <2> DEFINE T == {k \in Nat : k <= n /\ ~Good(k)}
  <2>1. SUFFICES ASSUME T # {} PROVE FALSE
    BY <1>1
  <2>2. PICK k \in T : \A j \in T : k <= j
    BY <2>1, MinNat
  <2>3. k # 0
    BY <1>7, <2>2
  <2>4. k \in 1..n /\ k - 1 \in Nat /\ k - 1 <= n
    BY <1>1, <2>2, <2>3
  <2>5. k - 1 \notin T
    <3> HIDE DEF T
    <3> QED BY <2>2, <2>4
  <2> QED BY <1>8, <2>2, <2>4, <2>5
<1>10. n \in 0..n
  BY <1>1
<1> QED BY <1>3, <1>4, <1>5, <1>6, <1>9, <1>10

\* A position that is nowhere before another one is not at an earlier place.
LEMMA IndexMonotone ==
    ASSUME NEW dims \in Seq(Positive),
           NEW p \in Seq(Nat), Len(p) = Len(dims), NEW r \in Seq(Nat), Len(r) = Len(dims),
           \A d \in 1..Len(dims) : p[d] <= r[d]
    PROVE  /\ INDEX_nD_TO_1D(dims, p) \in Nat /\ INDEX_nD_TO_1D(dims, r) \in Nat
           /\ INDEX_nD_TO_1D(dims, p) <= INDEX_nD_TO_1D(dims, r)
<1> DEFINE n == Len(dims)
           q == [d \in 1..n |-> r[d] - p[d]]
<1>1. n \in Nat /\ \A d \in 1..n : p[d] \in Nat /\ r[d] \in Nat
  BY SeqElement
<1>2. \A d \in 1..n : q[d] \in Nat /\ r[d] = p[d] + q[d]
  BY <1>1
<1>3. q = [d \in 1..n |-> q[d]]
  OBVIOUS
<1> HIDE DEF q
<1>4. q \in [1..n -> Nat]
  BY <1>2, <1>3
<1>5. q \in Seq(Nat) /\ Len(q) = n
  BY <1>1, <1>4, FunctionAsSeq, Zenon
<1> DEFINE x == INDEX_nD_TO_1D(dims, p)
           y == INDEX_nD_TO_1D(dims, q)
           z == INDEX_nD_TO_1D(dims, r)
<1>6. x \in Nat /\ y \in Nat /\ z = x + y
  BY <1>2, <1>5, IndexAdd
<1> HIDE DEF x, y, z
<1>7. x \in Nat /\ z \in Nat /\ x <= z
  BY <1>6
<1> QED BY <1>7 DEF x, z

\* m numbers that rise within m successive ones are those.
LEMMA Dense ==
    ASSUME NEW m \in Nat, NEW a \in Nat, NEW f,
           \A i \in 1..m : f[i] \in a..(a + m - 1),
           \A i, j \in 1..m : i < j => f[i] < f[j]
    PROVE  \A i \in 1..m : f[i] = a + i - 1
<1>1. \A i \in 1..m : f[i] \in Nat /\ a <= f[i] /\ f[i] <= a + m - 1
  OBVIOUS
<1>2. \A i \in 1..m : a + i - 1 <= f[i]
  <2> DEFINE T == {i \in Nat : i \in 1..m /\ ~(a + i - 1 <= f[i])}
  <2>1. SUFFICES ASSUME T # {} PROVE FALSE
    OBVIOUS
  <2>2. PICK i \in T : \A j \in T : i <= j
    BY <2>1, MinNat
  <2>3. i # 1
    BY <1>1, <2>2
  <2>4. i \in 1..m /\ i - 1 \in 1..m /\ i - 1 \in Nat /\ i - 1 < i /\ f[i] \in Nat /\ f[i - 1] \in Nat
    BY <1>1, <2>2, <2>3
  <2>5. i - 1 \notin T
    <3> HIDE DEF T
    <3> QED BY <2>2, <2>4
  <2>6. a + (i - 1) - 1 <= f[i - 1] /\ f[i - 1] < f[i]
    BY <2>4, <2>5
  <2>7. a + i - 1 <= f[i]
    BY <2>4, <2>6
  <2> QED BY <2>2, <2>7
<1>3. \A i \in 1..m : f[i] <= a + i - 1
  <2> DEFINE T == {k \in Nat : k < m /\ ~(f[m - k] <= a + (m - k) - 1)}
  <2>1. SUFFICES ASSUME T # {} PROVE FALSE
    <3>1. ASSUME NEW i \in 1..m PROVE m - i \in Nat /\ m - i < m /\ m - (m - i) = i
      OBVIOUS
    <3>2. ASSUME NEW i \in 1..m PROVE f[i] <= a + i - 1
      <4>1. m - i \notin T
        BY <2>1
      <4> QED BY <3>1, <4>1
    <3> QED BY <3>2
  <2>2. PICK k \in T : \A j \in T : k <= j
    BY <2>1, MinNat
  <2>3. k \in Nat /\ k < m /\ ~(f[m - k] <= a + (m - k) - 1)
    BY <2>2
  <2>4. k # 0
    <3>1. k = 0 => m - k = m /\ m \in 1..m
      BY <2>3
    <3> QED BY <1>1, <2>3, <3>1
  <2>5. k - 1 \in Nat /\ k - 1 < m /\ m - k \in 1..m /\ m - (k - 1) = (m - k) + 1 /\ (m - k) + 1 \in 1..m
    BY <2>3, <2>4
  <2>6. k - 1 \notin T
    <3> HIDE DEF T
    <3> QED BY <2>2, <2>3, <2>5
  <2>7. f[m - (k - 1)] <= a + (m - (k - 1)) - 1
    BY <2>5, <2>6
  <2> DEFINE i == m - k
  <2>8. i \in 1..m /\ i + 1 \in 1..m /\ f[i + 1] <= a + (i + 1) - 1 /\ ~(f[i] <= a + i - 1)
    BY <2>3, <2>5, <2>7
  <2> HIDE DEF i
  <2>9. f[i] < f[i + 1] /\ f[i] \in Nat /\ f[i + 1] \in Nat
    BY <1>1, <2>8
  <2> QED BY <2>8, <2>9
<1> QED BY <1>1, <1>2, <1>3

\* A part of the whole array.
LEMMA Part ==
    ASSUME NEW dims, Product(dims) \in Positive,
           NEW a \in Nat, NEW b \in Nat, a <= b, b <= Product(dims) - 1
    PROVE  SubSeq(Elements(dims), a + 1, b + 1) = [k \in 1..(b - a + 1) |-> a + k - 1]
<1> DEFINE n == Product(dims)
           s == Elements(dims)
           p == SubSeq(s, a + 1, b + 1)
           l == b - a + 1
<1>1. n \in Nat /\ s = [i \in 1..n |-> i - 1] /\ b <= n - 1 /\ l \in Nat
  BY DEF Elements, Positive
<1> HIDE DEF n, s
<1>2. s \in [1..n -> Nat]
  BY <1>1
<1>3. s \in Seq(Nat) /\ Len(s) = n
  BY <1>1, <1>2, FunctionAsSeq, Zenon
<1>4. /\ p \in Seq(Nat)
      /\ Len(p) = IF a + 1 <= b + 1 THEN (b + 1) - (a + 1) + 1 ELSE 0
      /\ \A k \in 1..((b + 1) - (a + 1) + 1) : p[k] = s[(a + 1) + k - 1]
  BY <1>1, <1>3, SubSeqProperties
<1> HIDE DEF p
<1>5. Len(p) = l /\ \A k \in 1..l : p[k] = s[a + k]
  BY <1>4
<1>6. ASSUME NEW k \in 1..l PROVE p[k] = a + k - 1
  <2>1. a + k \in 1..n
    BY <1>1
  <2> QED BY <1>1, <1>5, <2>1
<1>7. p = [k \in 1..l |-> p[k]]
  BY <1>4, <1>5
<1>8. p = [k \in 1..l |-> a + k - 1]
  BY <1>6, <1>7
<1> QED BY <1>8 DEF p, s, l

\* CacheSelection: a request that reads a cache file only from its first element to its
\* last, and drops the rest or finds nothing to drop, gets what it would get from the
\* whole array: subset never reads outside of what was read, and the answer that skips
\* subset when the numbers of elements are the same is right to.
THEOREM DiskTheorem ==
    ASSUME NEW dims, NEW sel, LegalSelection(dims, sel)
    PROVE  FromDisk(dims, sel) = FromMemory(dims, sel)
<1> DEFINE n == Len(dims)
           m == Nels(sel)
           I(p) == INDEX_nD_TO_1D(dims, p)
           o == Offset(sel)
           s == Step(sel)
           e == Count(sel)
           zero == [d \in DOMAIN sel |-> 0]
           end == [d \in DOMAIN sel |-> sel[d].start + (Count(sel)[d] - 1) * sel[d].stride]
           first == I(o)
           last == I(end)
           buf == SubSeq(Elements(dims), first + 1, last + 1)
           v == Visited(o, s, e)
           z == Visited(zero, s, e)
<1>1. /\ dims \in Seq(Positive) /\ n \in Nat /\ DOMAIN sel = 1..n
      /\ o \in Seq(Nat) /\ Len(o) = n /\ s \in Seq(Nat) /\ Len(s) = n
      /\ \A d \in 1..n : /\ o[d] \in Nat /\ s[d] \in Positive /\ e[d] \in Positive /\ dims[d] \in Positive
                         /\ Legal(sel[d]) /\ sel[d].stop < dims[d]
                         /\ o[d] = sel[d].start /\ s[d] = sel[d].stride
  BY LegalIs
<1>2. zero \in Seq(Nat) /\ Len(zero) = n /\ \A d \in 1..n : zero[d] = 0
  <2>1. zero \in [1..n -> Nat] /\ \A d \in 1..n : zero[d] = 0
    BY <1>1
  <2> HIDE DEF zero, n
  <2> QED BY <1>1, <2>1, FunctionAsSeq
<1>3. PICK c : Counters(e, n, m, c) /\ Moved(o, s, n, c, v) /\ Moved(zero, s, n, c, z)
  <2>1. PICK c : /\ Counters(e, n, m, c)
                 /\ \A start, stride \in Seq(Nat) : Len(start) = n /\ Len(stride) = n =>
                      Moved(start, stride, n, c, Visited(start, stride, e))
    BY LoopsOf, Zenon
  <2> HIDE DEF zero, o, s, e, n, m
  <2> QED BY <1>1, <1>2, <2>1
<1>4. /\ FromMemory(dims, sel) = [i \in 1..m |-> I(v[i])] /\ Product(dims) \in Positive
      /\ \A i \in 1..m : I(v[i]) \in 0..(Product(dims) - 1)
      /\ \A i, j \in 1..m : i < j => I(v[i]) < I(v[j])
  <2> HIDE DEF v
  <2> QED BY <1>3, MemoryGets DEF v
<1>5. FromDisk(dims, sel) = IF m = last - first + 1 THEN buf ELSE subset(buf, dims, zero, s, e)
  BY DEF FromDisk
<1>6. \A d \in 1..n : end[d] = o[d] + (e[d] - 1) * s[d]
  BY <1>1
<1>7. end = [d \in 1..n |-> end[d]]
  BY <1>1
<1>8. \A d \in 1..n : {o[d] + s[d] * k : k \in 0..(e[d] - 1)} = Places(sel[d])
  BY <1>1, CountVisitsSelected DEF Places
<1> HIDE DEF v, z, zero, end, o, s, e, m
<1>9. ASSUME NEW d \in 1..n PROVE end[d] \in Nat /\ end[d] < dims[d]
  <2> DEFINE k == e[d] - 1
  <2>1. k \in 0..(e[d] - 1) /\ k \in Nat /\ s[d] \in Nat
    BY <1>1 DEF Positive
  <2>2. end[d] = o[d] + k * s[d]
    BY <1>6
  <2> HIDE DEF k
  <2>3. k * s[d] = s[d] * k
    BY <2>1
  <2>4. end[d] \in Places(sel[d])
    BY <1>8, <2>1, <2>2, <2>3
  <2>5. sel[d].start \in Nat /\ sel[d].stop \in Nat /\ sel[d].stop < dims[d] /\ dims[d] \in Nat
    BY <1>1 DEF Legal, Positive
  <2> QED BY <2>4, <2>5 DEF Places
<1>10. end \in Seq(Nat) /\ Len(end) = n
  <2>1. end \in [1..n -> Nat]
    BY <1>7, <1>9
  <2> QED BY <1>1, <2>1, FunctionAsSeq, Zenon
<1>11. last \in 0..(Product(dims) - 1)
  <2>1. Inside(dims, end)
    BY <1>9, <1>10 DEF Inside
  <2> QED BY <1>1, <2>1, IndexInside
<1>12. Len(c) = m /\ m \in Nat /\ \A i \in 1..m : \A d \in 1..n : c[i][d] \in Nat /\ c[i][d] < e[d]
  <2>1. c \in Seq(Seq(Nat)) /\ Len(c) = m /\ \A i \in 1..m : Len(c[i]) = n /\ \A d \in 1..n : c[i][d] < e[d]
    BY <1>3 DEF Counters
  <2>2. ASSUME NEW i \in 1..m PROVE c[i] \in Seq(Nat)
    BY <2>1, SeqElement
  <2>3. ASSUME NEW i \in 1..m, NEW d \in 1..n PROVE c[i][d] \in Nat
    <3> DEFINE q == c[i]
    <3>1. q \in Seq(Nat) /\ Len(q) = n
      BY <2>1, <2>2
    <3> HIDE DEF q
    <3>3. d \in Nat \ {0} /\ d <= Len(q)
      BY <1>1, <3>1
    <3>2. q[d] \in Nat
      BY <3>1, <3>3, SeqElement
    <3> QED BY <3>2 DEF q
  <2> QED BY <2>1, <2>3
<1>13. /\ v \in Seq(Seq(Nat)) /\ Len(v) = m
       /\ \A i \in 1..m : Len(v[i]) = n /\ \A d \in 1..n : v[i][d] = o[d] + c[i][d] * s[d]
       /\ z \in Seq(Seq(Nat)) /\ Len(z) = m
       /\ \A i \in 1..m : Len(z[i]) = n /\ \A d \in 1..n : z[i][d] = zero[d] + c[i][d] * s[d]
  BY <1>3, <1>12 DEF Moved
<1>14. \A i \in 1..m : v[i] \in Seq(Nat) /\ Len(v[i]) = n /\ z[i] \in Seq(Nat) /\ Len(z[i]) = n
  BY <1>12, <1>13, SeqElement
<1>15. ASSUME NEW i \in 1..m, NEW d \in 1..n
       PROVE  /\ v[i][d] = o[d] + z[i][d] /\ v[i][d] \in Nat /\ z[i][d] \in Nat
              /\ o[d] <= v[i][d] /\ v[i][d] <= end[d]
  <2> DEFINE a == c[i][d]
             b == e[d] - 1
             w == s[d]
  <2>1. a \in Nat /\ b \in Nat /\ a <= b /\ w \in Nat /\ o[d] \in Nat /\ zero[d] = 0
    <3>1. e[d] \in Positive /\ s[d] \in Positive /\ o[d] \in Nat
      BY <1>1
    <3>2. c[i][d] \in Nat /\ c[i][d] < e[d]
      BY <1>12
    <3>3. zero[d] = 0
      BY <1>2
    <3> QED BY <3>1, <3>2, <3>3 DEF Positive
  <2>2. v[i][d] = o[d] + a * w /\ z[i][d] = 0 + a * w /\ end[d] = o[d] + b * w
    BY <1>6, <1>13, <2>1
  <2> HIDE DEF a, b, w
  <2>3. w * a <= w * b
    BY <2>1, Monotone
  <2>4. a * w = w * a /\ b * w = w * b /\ w * a \in Nat /\ w * b \in Nat
    BY <2>1
  <2> DEFINE x == w * a
             y == w * b
  <2>5. x \in Nat /\ y \in Nat /\ x <= y /\ v[i][d] = o[d] + x /\ z[i][d] = 0 + x /\ end[d] = o[d] + y
    BY <2>2, <2>3, <2>4
  <2> HIDE DEF x, y
  <2> QED BY <2>1, <2>5
<1>16. ASSUME NEW i \in 1..m
       PROVE  /\ I(v[i]) = first + I(z[i]) /\ I(z[i]) \in Nat /\ first \in Nat
              /\ first <= I(v[i]) /\ I(v[i]) <= last /\ I(v[i]) \in Nat /\ last \in Nat
  <2>1. v[i] \in Seq(Nat) /\ Len(v[i]) = n /\ z[i] \in Seq(Nat) /\ Len(z[i]) = n
    BY <1>14
  <2>2. \A d \in 1..n : v[i][d] = o[d] + z[i][d] /\ o[d] <= v[i][d] /\ v[i][d] <= end[d]
    BY <1>15
  <2>3. first \in Nat /\ I(z[i]) \in Nat /\ I(v[i]) = first + I(z[i])
    <3> DEFINE p == v[i]
               q == z[i]
    <3>1. /\ p \in Seq(Nat) /\ Len(p) = n /\ q \in Seq(Nat) /\ Len(q) = n
          /\ \A d \in 1..n : p[d] = o[d] + q[d]
      BY <2>1, <2>2
    <3> HIDE DEF p, q
    <3>2. first \in Nat /\ I(q) \in Nat /\ I(p) = first + I(q)
      BY <1>1, <3>1, IndexAdd
    <3> QED BY <3>2 DEF p, q
  <2>4. first <= I(v[i]) /\ I(v[i]) \in Nat
    BY <1>1, <2>1, <2>2, IndexMonotone
  <2>5. I(v[i]) <= last /\ last \in Nat
    BY <1>1, <1>10, <2>1, <2>2, IndexMonotone
  <2> QED BY <2>3, <2>4, <2>5
<1>17. first \in Nat /\ last \in Nat /\ first <= last
  <2>1. ASSUME NEW d \in 1..n PROVE o[d] <= end[d]
    <3>1. o[d] \in Nat /\ e[d] - 1 \in Nat /\ s[d] \in Nat /\ end[d] = o[d] + (e[d] - 1) * s[d]
      <4>1. e[d] \in Positive /\ s[d] \in Positive /\ o[d] \in Nat
        BY <1>1
      <4> QED BY <1>6, <4>1 DEF Positive
    <3> DEFINE x == (e[d] - 1) * s[d]
    <3>2. x \in Nat
      BY <3>1
    <3> HIDE DEF x
    <3>3. end[d] = o[d] + x
      BY <3>1 DEF x
    <3> QED BY <3>1, <3>2, <3>3
  <2> QED BY <1>1, <1>10, <2>1, IndexMonotone
<1> DEFINE f(i) == I(v[i])
           g(i) == I(z[i])
           N == Product(dims)
<1>18. /\ FromMemory(dims, sel) = [i \in 1..m |-> f(i)]
       /\ \A i, j \in 1..m : i < j => f(i) < f(j)
       /\ \A i \in 1..m : /\ f(i) = first + g(i) /\ g(i) \in Nat /\ f(i) \in Nat
                          /\ first <= f(i) /\ f(i) <= last
  BY <1>4, <1>16
<1>19. buf = [k \in 1..(last - first + 1) |-> first + k - 1]
  <2>1. last <= N - 1 /\ N \in Positive
    BY <1>4, <1>11 DEF Positive
  <2> HIDE DEF first, last
  <2> QED BY <1>17, <2>1, Part
<1>20. subset(buf, dims, zero, s, e) = [i \in 1..m |-> At(buf, g(i))]
  <2>1. DOMAIN z = 1..m
    BY <1>12, <1>13
  <2> HIDE DEF buf
  <2> QED BY <2>1 DEF subset, z
<1> HIDE DEF f, g, first, last, buf, n
<1>21. CASE m = last - first + 1
  <2> DEFINE h == [i \in 1..m |-> f(i)]
  <2>1. \A i \in 1..m : h[i] = f(i)
    OBVIOUS
  <2> HIDE DEF h
  <2>2. /\ \A i \in 1..m : h[i] \in first..(first + m - 1)
        /\ \A i, j \in 1..m : i < j => h[i] < h[j]
    <3>1. first + m - 1 = last /\ last \in Nat /\ first \in Nat
      BY <1>17, <1>21
    <3>2. ASSUME NEW i \in 1..m PROVE h[i] \in first..last
      <4>1. f(i) \in Nat /\ first <= f(i) /\ f(i) <= last /\ h[i] = f(i)
        BY <1>18, <2>1
      <4> QED BY <3>1, <4>1
    <3>3. ASSUME NEW i \in 1..m, NEW j \in 1..m, i < j PROVE h[i] < h[j]
      BY <1>18, <2>1, <3>3
    <3> QED BY <3>1, <3>2, <3>3
  <2>3. \A i \in 1..m : h[i] = first + i - 1
    <3> DEFINE a == first
    <3>1. /\ m \in Nat /\ a \in Nat
          /\ \A i \in 1..m : h[i] \in a..(a + m - 1)
          /\ \A i, j \in 1..m : i < j => h[i] < h[j]
      BY <1>12, <1>17, <2>2
    <3> HIDE DEF a
    <3>2. \A i \in 1..m : h[i] = a + i - 1
      BY <3>1, Dense
    <3> QED BY <3>2 DEF a
  <2>4. buf = [i \in 1..m |-> f(i)]
    BY <1>19, <1>21, <2>1, <2>3
  <2> QED BY <1>5, <1>18, <1>21, <2>4
<1>22. CASE m # last - first + 1
  <2>1. ASSUME NEW i \in 1..m PROVE At(buf, g(i)) = f(i)
    <3>1. g(i) \in Nat /\ f(i) = first + g(i) /\ f(i) <= last
      BY <1>18
    <3>2. g(i) < last - first + 1 /\ g(i) + 1 \in 1..(last - first + 1)
      BY <1>17, <3>1
    <3>3. Len(buf) = last - first + 1 /\ buf[g(i) + 1] = first + (g(i) + 1) - 1
      BY <1>17, <1>19, <3>2
    <3> QED BY <1>17, <3>1, <3>2, <3>3 DEF At
  <2>2. FromDisk(dims, sel) = [i \in 1..m |-> At(buf, g(i))]
    BY <1>5, <1>20, <1>22
  <2> QED BY <1>18, <2>1, <2>2
<1> QED BY <1>21, <1>22

------------------------------------------------------------------------------
(***************************************************************************)
(* What is computed.                                                       *)
(***************************************************************************)

\* A request that wants as many elements as the array has wants all of them.
LEMMA AllOfThem ==
    ASSUME NEW dims, NEW sel, LegalSelection(dims, sel), Nels(sel) = Product(dims)
    PROVE  FromMemory(dims, sel) = [i \in 1..Nels(sel) |-> i - 1]
<1> DEFINE m == Nels(sel)
           v == Visited(Offset(sel), Step(sel), Count(sel))
           h == FromMemory(dims, sel)
<1>1. PICK c : Counters(Count(sel), Len(dims), m, c) /\ Moved(Offset(sel), Step(sel), Len(dims), c, v)
  BY LegalIs, LoopsOf
<1> HIDE DEF v
<1>2. /\ h = [i \in 1..m |-> INDEX_nD_TO_1D(dims, v[i])] /\ Product(dims) \in Positive
      /\ \A i \in 1..m : INDEX_nD_TO_1D(dims, v[i]) \in 0..(Product(dims) - 1)
      /\ \A i, j \in 1..m : i < j => INDEX_nD_TO_1D(dims, v[i]) < INDEX_nD_TO_1D(dims, v[j])
  BY <1>1, MemoryGets DEF v
<1> HIDE DEF h
<1>3. h = [i \in 1..m |-> h[i]] /\ \A i \in 1..m : h[i] = INDEX_nD_TO_1D(dims, v[i])
  BY <1>2
<1> HIDE DEF m
<1>4. m \in Nat /\ Product(dims) = m
  BY <1>2 DEF Positive, m
<1>5. /\ \A i \in 1..m : h[i] \in 0..(0 + m - 1)
      /\ \A i, j \in 1..m : i < j => h[i] < h[j]
  BY <1>2, <1>3, <1>4
<1>6. 0 \in Nat
  OBVIOUS
<1>7. \A i \in 1..m : h[i] = 0 + i - 1
  BY <1>4, <1>5, <1>6, Dense
<1>8. h = [i \in 1..m |-> i - 1]
  BY <1>3, <1>7
<1> QED BY <1>8 DEF h, m

\* ComputedSelection, first half: from a file that holds the latitudes of a projected grid
\* and then its longitudes, a request gets the selected ones of the half it is about, also
\* when subset is skipped because it wants as many elements as there are.
THEOREM LatLonTheorem ==
    ASSUME NEW dims, NEW sel, LegalSelection(dims, sel)
    PROVE  /\ FromLatLonFile(dims, sel, FALSE) = FromMemory(dims, sel)
           /\ FromLatLonFile(dims, sel, TRUE) =
                [i \in 1..Nels(sel) |-> Product(dims) + FromMemory(dims, sel)[i]]
<1> DEFINE m == Nels(sel)
           N == Product(dims)
           I(p) == INDEX_nD_TO_1D(dims, p)
           v == Visited(Offset(sel), Step(sel), Count(sel))
           value(b) == [i \in 1..N |-> b + i - 1]
           part(b) == subset(value(b), dims, Offset(sel), Step(sel), Count(sel))
           h == FromMemory(dims, sel)
<1>1. PICK c : Counters(Count(sel), Len(dims), m, c) /\ Moved(Offset(sel), Step(sel), Len(dims), c, v)
  BY LegalIs, LoopsOf
<1> HIDE DEF v
<1>2. /\ h = [i \in 1..m |-> I(v[i])] /\ N \in Nat
      /\ \A i \in 1..m : I(v[i]) \in 0..(N - 1)
  BY <1>1, MemoryGets DEF v, Positive
<1>3. DOMAIN v = 1..m
  <2>1. v \in Seq(Seq(Nat)) /\ Len(v) = m
    BY <1>1, VisitsSelected DEF Moved
  <2> QED BY <2>1
<1>4. ASSUME NEW b \in Nat PROVE part(b) = [i \in 1..m |-> b + h[i]]
  <2> DEFINE val == value(b)
  <2>1. part(b) = [i \in 1..m |-> At(val, I(v[i]))]
    BY <1>3 DEF subset, v
  <2>2. ASSUME NEW i \in 1..m PROVE At(val, I(v[i])) = b + h[i]
    <3> DEFINE x == I(v[i])
    <3>1. x \in 0..(N - 1) /\ h[i] = x
      BY <1>2
    <3> HIDE DEF x, h, N
    <3>2. Len(val) = N /\ x + 1 \in 1..N
      BY <1>2, <3>1
    <3>3. val[x + 1] = b + (x + 1) - 1
      BY <3>2
    <3> HIDE DEF val
    <3>4. At(val, x) = b + h[i]
      BY <1>2, <3>1, <3>2, <3>3 DEF At
    <3> QED BY <3>4 DEF x
  <2> HIDE DEF h, m, val, part
  <2> QED BY <2>1, <2>2
<1>5. CASE m = N
  <2>1. h = [i \in 1..m |-> i - 1]
    BY <1>5, AllOfThem
  <2>2. FromLatLonFile(dims, sel, FALSE) = [i \in 1..N |-> i - 1]
    BY <1>5 DEF FromLatLonFile
  <2>3. FromLatLonFile(dims, sel, TRUE) = [i \in 1..N |-> N + i - 1]
    BY <1>5 DEF FromLatLonFile
  <2> HIDE DEF h, m, N
  <2>4. \A i \in 1..m : N + i - 1 = N + h[i]
    BY <1>2, <2>1
  <2>5. FromLatLonFile(dims, sel, TRUE) = [i \in 1..m |-> N + h[i]]
    BY <1>5, <2>3, <2>4
  <2>6. FromLatLonFile(dims, sel, FALSE) = h
    BY <1>5, <2>1, <2>2
  <2> QED BY <2>5, <2>6 DEF h, m, N
<1>6. CASE m # N
  <2>1. value(0) = [i \in 1..N |-> i - 1]
    <3>1. \A i \in 1..N : 0 + i - 1 = i - 1
      BY <1>2
    <3> QED BY <3>1
  <2>2. FromLatLonFile(dims, sel, FALSE) = part(0)
    <3>1. FromLatLonFile(dims, sel, FALSE) =
            subset([i \in 1..N |-> i - 1], dims, Offset(sel), Step(sel), Count(sel))
      BY <1>6 DEF FromLatLonFile
    <3> QED BY <2>1, <3>1
  <2>3. FromLatLonFile(dims, sel, TRUE) = part(N)
    BY <1>6 DEF FromLatLonFile
  <2>4. part(0) = [i \in 1..m |-> 0 + h[i]] /\ part(N) = [i \in 1..m |-> N + h[i]]
    BY <1>2, <1>4
  <2>5. \A i \in 1..m : 0 + h[i] = h[i]
    <3>1. \A i \in 1..m : h[i] \in Int
      BY <1>2
    <3> HIDE DEF h, m
    <3> QED BY <3>1
  <2>6. h = [i \in 1..m |-> h[i]]
    BY <1>2
  <2> HIDE DEF h, part
  <2>7. FromLatLonFile(dims, sel, FALSE) = h
    BY <2>2, <2>4, <2>5, <2>6
  <2>8. FromLatLonFile(dims, sel, TRUE) = [i \in 1..m |-> N + h[i]]
    BY <2>3, <2>4
  <2> QED BY <2>7, <2>8 DEF h
<1> QED BY <1>5, <1>6

\* The loops of a request and what it gets from memory.
LEMMA MemoryVisits ==
    ASSUME NEW dims, NEW sel, LegalSelection(dims, sel)
    PROVE  \E c, v : /\ Counters(Count(sel), Len(dims), Nels(sel), c)
                     /\ Moved(Offset(sel), Step(sel), Len(dims), c, v)
                     /\ FromMemory(dims, sel) = [i \in 1..Nels(sel) |-> INDEX_nD_TO_1D(dims, v[i])]
                     /\ \A i \in 1..Nels(sel) : Inside(dims, v[i])
<1> DEFINE m == Nels(sel)
           v == Visited(Offset(sel), Step(sel), Count(sel))
<1>1. PICK c : Counters(Count(sel), Len(dims), m, c) /\ Moved(Offset(sel), Step(sel), Len(dims), c, v)
  BY LegalIs, LoopsOf
<1> HIDE DEF v
<1>2. FromMemory(dims, sel) = [i \in 1..m |-> INDEX_nD_TO_1D(dims, v[i])]
  BY <1>1, MemoryGets DEF v
<1>3. \A i \in 1..m : Inside(dims, v[i])
  BY <1>1, VisitsSelected
<1> QED BY <1>1, <1>2, <1>3

\* ComputedSelection, second half: the numbers of a dimension without a coordinate
\* variable are computed from its start and stride, and they are the selected ones.
THEOREM NaturalNumbersTheorem ==
    ASSUME NEW dims, NEW sel, LegalSelection(dims, sel), Len(dims) = 1
    PROVE  NaturalNumbers(sel, Product(dims)) = FromMemory(dims, sel)
<1> DEFINE m == Nels(sel)
           I(p) == INDEX_nD_TO_1D(dims, p)
           o == Offset(sel)
           s == Step(sel)
           e == Count(sel)
<1>1. /\ dims \in Seq(Positive) /\ e \in Seq(Positive) /\ Len(e) = 1
      /\ o[1] \in Nat /\ s[1] \in Positive /\ e[1] \in Positive /\ 1 \in 1..1 /\ 1 \in 0..1 /\ 0 \in 0..1
  BY LegalIs
<1>2. PICK c, v : /\ Counters(e, 1, m, c) /\ Moved(o, s, 1, c, v)
                  /\ FromMemory(dims, sel) = [i \in 1..m |-> I(v[i])]
                  /\ \A i \in 1..m : Inside(dims, v[i])
  BY MemoryVisits
<1>3. m = e[1]
  <2>1. PICK t : Products(e, t) /\ Product(e) = t[1]
    BY <1>1, ProductBy
  <2>2. t[0] = 1 /\ t[1] = t[1 - 1] * e[1]
    BY <1>1, <2>1 DEF Products
  <2>3. 1 - 1 = 0 /\ 1 * e[1] = e[1]
    BY <1>1 DEF Positive
  <2> QED BY <2>1, <2>2, <2>3 DEF Nels
<1>4. /\ FromMemory(dims, sel) = [i \in 1..m |-> I(v[i])]
      /\ \A i \in 1..m : Inside(dims, v[i])
  BY <1>2
<1>5. CASE m = Product(dims)
  <2>1. FromMemory(dims, sel) = [i \in 1..m |-> i - 1]
    BY <1>5, AllOfThem
  <2> QED BY <1>5, <2>1 DEF NaturalNumbers
<1>6. CASE m # Product(dims)
  <2> DEFINE h == [i \in 1..m |-> c[i][1]]
  <2>1. /\ c \in Seq(Seq(Nat)) /\ Len(c) = m
        /\ \A i \in 1..m : Len(c[i]) = 1 /\ \A d \in 1..1 : c[i][d] < e[d]
        /\ \A i, j \in 1..m : i < j => Before(c[i], c[j])
    BY <1>2 DEF Counters
  <2>2. m \in Nat
    BY <1>1, <1>3 DEF Positive
  <2>3. ASSUME NEW i \in 1..m
        PROVE  DOMAIN c[i] = 1..1 /\ c[i][1] \in Nat /\ c[i][1] < m /\ c[i][1] \in 0..(0 + m - 1)
    <3>1. c[i] \in Seq(Nat) /\ Len(c[i]) = 1
      BY <2>1, <2>2, SeqElement
    <3>2. c[i][1] \in Nat
      BY <3>1
    <3>3. c[i][1] < m
      BY <1>1, <1>3, <2>1
    <3> QED BY <2>2, <3>1, <3>2, <3>3
  <2>4. ASSUME NEW i \in 1..m, NEW j \in 1..m, i < j PROVE c[i][1] < c[j][1]
    <3>1. Before(c[i], c[j])
      BY <2>1, <2>4
    <3>2. PICK d \in 1..1 : c[i][d] < c[j][d]
      BY <2>3, <3>1 DEF Before
    <3>3. d = 1
      OBVIOUS
    <3> QED BY <3>2, <3>3
  <2>5. \A i \in 1..m : c[i][1] = i - 1
    <3>1. /\ \A i \in 1..m : h[i] \in 0..(0 + m - 1)
          /\ \A i, j \in 1..m : i < j => h[i] < h[j]
      BY <2>3, <2>4
    <3>2. \A i \in 1..m : h[i] = c[i][1]
      OBVIOUS
    <3> HIDE DEF h, m
    <3>3. 0 \in Nat
      OBVIOUS
    <3>4. \A i \in 1..m : h[i] = 0 + i - 1
      BY <2>2, <3>1, <3>3, Dense
    <3> QED BY <3>2, <3>4
  <2>6. ASSUME NEW i \in 1..m PROVE I(v[i]) = o[1] + s[1] * (i - 1)
    <3> DEFINE p == v[i]
    <3>1. p[1] = o[1] + c[i][1] * s[1]
      BY <1>2, <2>1 DEF Moved
    <3>2. p \in Seq(Nat) /\ Len(p) = 1 /\ p[1] \in Nat
      BY <1>1, <1>4 DEF Inside
    <3> HIDE DEF p
    <3>3. PICK t : Sums(dims, p, t) /\ I(p) = t[1]
      BY <1>1, <3>2, IndexBy
    <3>4. t[0] = 0 /\ t[1] = t[1 - 1] + Weight(dims, 1) * p[1]
      BY <1>1, <3>3 DEF Sums
    <3>5. Weight(dims, 1) = 1
      BY <1>1, WeightEnds
    <3>6. I(p) = p[1]
      BY <3>2, <3>3, <3>4, <3>5
    <3>7. c[i][1] = i - 1 /\ i - 1 \in Nat /\ s[1] \in Nat
      BY <1>1, <2>5 DEF Positive
    <3>8. (i - 1) * s[1] = s[1] * (i - 1)
      BY <3>7
    <3> QED BY <3>1, <3>6, <3>7, <3>8 DEF p
  <2>7. NaturalNumbers(sel, Product(dims)) = [i \in 1..m |-> o[1] + s[1] * (i - 1)]
    BY <1>6 DEF NaturalNumbers
  <2> HIDE DEF m
  <2> QED BY <1>4, <2>6, <2>7
<1> QED BY <1>5, <1>6

\* Where two lists agree up to a position, the second reaches as far as the first and
\* has nothing greater there.
LEMMA ListsAgree ==
    ASSUME NEW S, NEW s \in Seq(Nat), NEW u \in Seq(Nat), Lists(s, S), Lists(u, S),
           NEW m \in Nat \ {0}, m <= Len(s), \A j \in 1..(m - 1) : s[j] = u[j]
    PROVE  m <= Len(u) /\ u[m] <= s[m]
<1>1. /\ DOMAIN s = 1..Len(s) /\ DOMAIN u = 1..Len(u) /\ Len(u) \in Nat /\ Len(s) \in Nat
      /\ \A i \in 1..Len(s) : s[i] \in Nat
      /\ \A i \in 1..Len(u) : u[i] \in Nat
  OBVIOUS
<1>2. m \in 1..Len(s) /\ \A j \in 1..(m - 1) : j \in 1..Len(s) /\ j < m
  BY <1>1
<1>3. s[m] \in S
  BY <1>1, <1>2, Zenon DEF Lists, ToSet
<1>4. PICK k \in 1..Len(u) : u[k] = s[m]
  BY <1>1, <1>3, Zenon DEF Lists, ToSet
<1>5. \A i, j \in 1..Len(s) : i < j => s[i] < s[j]
  BY <1>1, Zenon DEF Lists
<1>6. \A i, j \in 1..Len(u) : i < j => u[i] < u[j]
  BY <1>1, Zenon DEF Lists
<1>7. ~(k < m)
  <2> SUFFICES ASSUME k < m PROVE FALSE
    OBVIOUS
  <2>1. k \in 1..(m - 1) /\ s[k] = u[k]
    BY <1>1
  <2>2. s[k] < s[m] /\ s[m] \in Nat
    BY <1>1, <1>2, <1>5, <2>1
  <2> QED BY <1>4, <2>1, <2>2
<1>8. m <= k /\ m \in 1..Len(u)
  BY <1>1, <1>7
<1>9. m = k \/ u[m] < u[k]
  BY <1>1, <1>6, <1>7, <1>8
<1> QED BY <1>1, <1>4, <1>8, <1>9

\* There is one way to list a set of numbers.
LEMMA SameLists ==
    ASSUME NEW S, NEW s \in Seq(Nat), NEW u \in Seq(Nat), Lists(s, S), Lists(u, S)
    PROVE  s = u
<1> DEFINE Same(m) == m <= Len(s) /\ m <= Len(u) /\ s[m] = u[m]
           T == {m \in Nat \ {0} : (m <= Len(s) \/ m <= Len(u)) /\ ~Same(m)}
<1>1. T = {}
  <2> SUFFICES ASSUME T # {} PROVE FALSE
    OBVIOUS
  <2>1. PICK m \in T : \A j \in T : m <= j
    BY MinNat
  <2>2. m \in Nat \ {0} /\ (m <= Len(s) \/ m <= Len(u)) /\ ~Same(m) /\ Len(s) \in Nat /\ Len(u) \in Nat
    OBVIOUS
  <2>3. ASSUME NEW j \in 1..(m - 1) PROVE s[j] = u[j]
    <3>1. j \in Nat \ {0} /\ j < m
      BY <2>2
    <3>2. j \notin T
      <4> HIDE DEF T
      <4> QED BY <2>1, <2>2, <3>1
    <3>3. j <= Len(s) \/ j <= Len(u)
      BY <2>2, <3>1
    <3> QED BY <3>1, <3>2, <3>3
  <2>4. ASSUME m <= Len(s) PROVE m <= Len(u) /\ u[m] <= s[m]
    BY <2>2, <2>3, <2>4, ListsAgree, Zenon
  <2>5. ASSUME m <= Len(u) PROVE m <= Len(s) /\ s[m] <= u[m]
    <3>1. \A j \in 1..(m - 1) : u[j] = s[j]
      BY <2>3
    <3> QED BY <2>2, <2>5, <3>1, ListsAgree, Zenon
  <2>6. m <= Len(s) /\ m <= Len(u) /\ u[m] <= s[m] /\ s[m] <= u[m]
    BY <2>2, <2>4, <2>5
  <2>7. s[m] \in Nat /\ u[m] \in Nat
    BY <2>2, <2>6
  <2> QED BY <2>2, <2>6, <2>7
<1>2. ASSUME NEW m \in Nat \ {0}, m <= Len(s) \/ m <= Len(u) PROVE Same(m)
  BY <1>1, <1>2
<1>3. Len(s) \in Nat /\ Len(u) \in Nat
  OBVIOUS
<1>4. Len(s) = Len(u)
  <2>1. Len(s) # 0 => Len(s) <= Len(u)
    BY <1>2, <1>3
  <2>2. Len(u) # 0 => Len(u) <= Len(s)
    BY <1>2, <1>3
  <2> QED BY <1>3, <2>1, <2>2
<1>5. \A i \in 1..Len(s) : s[i] = u[i]
  BY <1>2, <1>3
<1> QED BY <1>4, <1>5

\* The specification lists the selected elements.
LEMMA SelectedLists ==
    ASSUME NEW dims, NEW sel, Product(dims) \in Nat
    PROVE  Selected(dims, sel) \in Seq(Nat) /\ Lists(Selected(dims, sel), Selection(dims, sel))
<1> DEFINE n == Product(dims)
           all == Elements(dims)
           places == {i \in DOMAIN all : Selects(dims, sel, all[i])}
           s == ElementsAt(all, places)
<1>1. n \in Nat /\ all = [i \in 1..n |-> i - 1] /\ Selected(dims, sel) = s
  BY DEF Elements, Selected
<1> HIDE DEF n, all
<1>2. all \in Seq(Nat) /\ Len(all) = n /\ DOMAIN all = 1..n /\ \A i \in 1..n : all[i] = i - 1
  BY <1>1
<1>3. \A i \in 1..n : i \in places <=> Selects(dims, sel, i - 1)
  BY <1>2
<1> HIDE DEF places
<1>4. PICK p : /\ Ascending(p, places, n) /\ s \in Seq(Nat) /\ Len(s) = Len(p)
               /\ \A k \in 1..Len(p) : s[k] = all[p[k]]
  <2>1. s \in Seq(Nat) /\ ListsAt(s, all, places)
    <3>1. all \in Seq(Nat)
      BY <1>2
    <3> QED BY <3>1, ElementsAtIs
  <2> HIDE DEF s
  <2>2. PICK p : Ascending(p, places, Len(all)) /\ Len(s) = Len(p) /\ \A k \in 1..Len(p) : s[k] = all[p[k]]
    BY <2>1, Zenon DEF ListsAt
  <2> QED BY <1>2, <2>1, <2>2
<1> HIDE DEF s
<1>5. /\ p \in Seq(1..n) /\ Len(p) \in Nat
      /\ \A k \in 1..Len(p) : p[k] \in 1..n /\ p[k] \in places
      /\ \A i \in 1..n : i \in places => \E k \in 1..Len(p) : p[k] = i
      /\ \A k, l \in 1..Len(p) : k < l => p[k] < p[l]
  <2>1. /\ \A k \in 1..Len(p) : p[k] \in places
        /\ \A i \in 1..n : i \in places => \E k \in 1..Len(p) : p[k] = i
        /\ \A k, l \in 1..Len(p) : k < l => p[k] < p[l]
    BY <1>4, Zenon DEF Ascending
  <2>2. p \in Seq(1..n)
    BY <1>4, Zenon DEF Ascending
  <2>3. Len(p) \in Nat /\ \A k \in 1..Len(p) : p[k] \in 1..n
    <3>1. n \in Nat
      BY <1>1
    <3> QED BY <2>2, <3>1
  <2> QED BY <2>1, <2>2, <2>3
<1>6. DOMAIN s = 1..Len(p) /\ \A k \in 1..Len(p) : s[k] = p[k] - 1
  BY <1>2, <1>4, <1>5
<1>7. ToSet(s) = Selection(dims, sel)
  <2>1. ASSUME NEW k \in 1..Len(p) PROVE s[k] \in Selection(dims, sel)
    <3> DEFINE e == p[k]
    <3>1. e \in 1..n /\ Selects(dims, sel, e - 1) /\ s[k] = e - 1
      BY <1>3, <1>5, <1>6
    <3> HIDE DEF e
    <3>2. e - 1 \in 0..(n - 1)
      BY <1>1, <3>1
    <3> QED BY <3>1, <3>2 DEF Selection, n
  <2>2. ASSUME NEW e \in Selection(dims, sel) PROVE \E k \in 1..Len(p) : s[k] = e
    <3>1. e \in 0..(n - 1) /\ Selects(dims, sel, e)
      BY DEF Selection, n
    <3>2. e + 1 \in 1..n /\ (e + 1) - 1 = e
      BY <1>1, <3>1
    <3>3. e + 1 \in places
      BY <1>3, <3>1, <3>2
    <3>4. PICK k \in 1..Len(p) : p[k] = e + 1
      BY <1>5, <3>2, <3>3
    <3>5. s[k] = e
      BY <1>6, <3>2, <3>4
    <3> QED BY <3>5
  <2>3. ToSet(s) = {s[k] : k \in 1..Len(p)}
    BY <1>6 DEF ToSet
  <2> QED BY <2>1, <2>2, <2>3
<1>8. \A i, j \in DOMAIN s : i < j => s[i] < s[j]
  BY <1>5, <1>6
<1> QED BY <1>1, <1>4, <1>7, <1>8 DEF Lists

\* What a request gets from memory is what the specification selects, in its order.
LEMMA MemoryIsSelected ==
    ASSUME NEW dims, NEW sel, LegalSelection(dims, sel)
    PROVE  /\ FromMemory(dims, sel) = Selected(dims, sel)
           /\ DOMAIN Selected(dims, sel) = 1..Nels(sel)
<1> DEFINE m == Nels(sel)
           v == Visited(Offset(sel), Step(sel), Count(sel))
           h == FromMemory(dims, sel)
<1>1. PICK c : Counters(Count(sel), Len(dims), m, c) /\ Moved(Offset(sel), Step(sel), Len(dims), c, v)
  BY LegalIs, LoopsOf
<1>2. m \in Nat
  BY <1>1 DEF Counters
<1> HIDE DEF v, m
<1>3. /\ h = [i \in 1..m |-> INDEX_nD_TO_1D(dims, v[i])] /\ Product(dims) \in Positive
      /\ \A i \in 1..m : INDEX_nD_TO_1D(dims, v[i]) \in 0..(Product(dims) - 1)
  BY <1>1, MemoryGets DEF v, m
<1>4. Product(dims) \in Nat
  BY <1>3 DEF Positive
<1>5. DOMAIN h = 1..m /\ \A i \in 1..m : h[i] \in Nat
  BY <1>3, <1>4
<1>6. h \in Seq(Nat)
  BY <1>2, <1>3, <1>4
<1>7. Lists(h, Selection(dims, sel))
  BY MemoryTheorem
<1> HIDE DEF h
<1>8. Selected(dims, sel) \in Seq(Nat) /\ Lists(Selected(dims, sel), Selection(dims, sel))
  BY <1>4, SelectedLists
<1>9. h = Selected(dims, sel)
  BY <1>6, <1>7, <1>8, SameLists, Zenon
<1> QED BY <1>5, <1>9 DEF h, m

------------------------------------------------------------------------------
(***************************************************************************)
(* The metadata.                                                           *)
(***************************************************************************)

\* The steps of CountParts.
Counted(parts, t) ==
    /\ t[0] = [total |-> 0, alone |-> FALSE, ok |-> TRUE]
    /\ \A i \in 1..Len(parts) :
         t[i] = IF ~t[i - 1].ok THEN t[i - 1]
                ELSE IF t[i - 1].alone THEN [t[i - 1] EXCEPT !.ok = FALSE]
                ELSE IF t[i - 1].total = 0 /\ parts[i].form = "exact" THEN [t[i - 1] EXCEPT !.alone = TRUE]
                ELSE [t[i - 1] EXCEPT !.total = t[i - 1].total + 1]

LEMMA CountPartsBy ==
    ASSUME NEW parts, Len(parts) \in Nat
    PROVE  \E t : Counted(parts, t) /\ CountParts(parts) = t[Len(parts)]
<1> DEFINE n == Len(parts)
           more(count, o) ==
             IF ~count.ok THEN count
             ELSE IF count.alone THEN [count EXCEPT !.ok = FALSE]
             ELSE IF count.total = 0 /\ o.form = "exact" THEN [count EXCEPT !.alone = TRUE]
             ELSE [count EXCEPT !.total = count.total + 1]
           none == [total |-> 0, alone |-> FALSE, ok |-> TRUE]
           Upto(m, t) == t = [i \in 0..m |-> IF i = 0 THEN none ELSE more(t[i - 1], parts[i])]
           t == CHOOSE t : Upto(n, t)
<1>1. n \in Nat
  OBVIOUS
<1>2. CountParts(parts) = t[n]
  BY Zenon DEF CountParts
<1> HIDE DEF more, none
<1>3. \E u : Upto(n, u)
  <2> DEFINE T == {m \in Nat : ~\E u : Upto(m, u)}
  <2>1. SUFFICES ASSUME T # {} PROVE FALSE
    BY <1>1
  <2>2. PICK m \in T : \A j \in T : m <= j
    BY <2>1, MinNat
  <2>3. CASE m = 0
    <3> DEFINE u == [i \in 0..0 |-> none]
    <3>1. Upto(0, u)
      OBVIOUS
    <3> QED BY <2>2, <2>3, <3>1
  <2>4. CASE m # 0
    <3>1. m \in Nat /\ m - 1 \in Nat
      BY <2>2, <2>4
    <3>2. m - 1 \notin T
      <4> HIDE DEF T
      <4> QED BY <2>2, <3>1
    <3>3. PICK v : Upto(m - 1, v)
      BY <3>1, <3>2
    <3> DEFINE u == [i \in 0..m |-> IF i = m THEN more(v[m - 1], parts[m]) ELSE v[i]]
    <3>4. ASSUME NEW i \in 0..m
          PROVE  u[i] = IF i = 0 THEN none ELSE more(u[i - 1], parts[i])
      BY <2>4, <3>1, <3>3
    <3>5. Upto(m, u)
      BY <3>4
    <3> QED BY <2>2, <3>5
  <2> QED BY <2>3, <2>4
<1>4. Upto(n, t)
  BY <1>3, Zenon
<1> HIDE DEF t
<1>5. t[0] = none /\ \A i \in 1..n : t[i] = more(t[i - 1], parts[i])
  <2>1. 0 \in 0..n /\ \A i \in 1..n : i \in 0..n /\ i # 0
    BY <1>1
  <2> QED BY <1>4, <2>1, Zenon
<1>6. Counted(parts, t)
  BY <1>5, Zenon DEF Counted, more, none
<1> QED BY <1>2, <1>6

\* The steps of PlaceParts.
Empty(total) == [status |-> "ok", whole |-> <<>>, last |-> NoSuffix, parts |-> [j \in 1..total |-> <<>>]]
Placed(parts, total, t) ==
    t[0] = Empty(total) /\ \A i \in 1..Len(parts) : t[i] = PlacePart(t[i - 1], parts[i], total)

LEMMA PlacePartsBy ==
    ASSUME NEW parts, Len(parts) \in Nat, NEW total
    PROVE  \E t : Placed(parts, total, t) /\ PlaceParts(parts, total) = t[Len(parts)]
<1> DEFINE n == Len(parts)
           more(u, i) == PlacePart(u, parts[i], total)
           none == [status |-> "ok", whole |-> <<>>, last |-> NoSuffix, parts |-> [j \in 1..total |-> <<>>]]
           Upto(m, t) == t = [i \in 0..m |-> IF i = 0 THEN none ELSE more(t[i - 1], i)]
           t == CHOOSE t : Upto(n, t)
<1>1. n \in Nat
  OBVIOUS
<1>2. PlaceParts(parts, total) = t[n]
  BY Zenon DEF PlaceParts
<1> HIDE DEF more, none
<1>3. \E u : Upto(n, u)
  <2> DEFINE T == {m \in Nat : ~\E u : Upto(m, u)}
  <2>1. SUFFICES ASSUME T # {} PROVE FALSE
    BY <1>1
  <2>2. PICK m \in T : \A j \in T : m <= j
    BY <2>1, MinNat
  <2>3. CASE m = 0
    <3> DEFINE u == [i \in 0..0 |-> none]
    <3>1. Upto(0, u)
      OBVIOUS
    <3> QED BY <2>2, <2>3, <3>1
  <2>4. CASE m # 0
    <3>1. m \in Nat /\ m - 1 \in Nat
      BY <2>2, <2>4
    <3>2. m - 1 \notin T
      <4> HIDE DEF T
      <4> QED BY <2>2, <3>1
    <3>3. PICK v : Upto(m - 1, v)
      BY <3>1, <3>2
    <3> DEFINE u == [i \in 0..m |-> IF i = m THEN more(v[m - 1], m) ELSE v[i]]
    <3>4. ASSUME NEW i \in 0..m
          PROVE  u[i] = IF i = 0 THEN none ELSE more(u[i - 1], i)
      BY <2>4, <3>1, <3>3
    <3>5. Upto(m, u)
      BY <3>4
    <3> QED BY <2>2, <3>5
  <2> QED BY <2>3, <2>4
<1>4. Upto(n, t)
  BY <1>3, Zenon
<1> HIDE DEF t
<1>5. t[0] = none /\ \A i \in 1..n : t[i] = more(t[i - 1], i)
  <2>1. 0 \in 0..n /\ \A i \in 1..n : i \in 0..n /\ i # 0
    BY <1>1
  <2> QED BY <1>4, <2>1, Zenon
<1>6. Placed(parts, total, t)
  BY <1>5, Zenon DEF Placed, Empty, more, none
<1> QED BY <1>2, <1>6

\* The steps of Concatenated.
Joins(texts, t) == t[0] = <<>> /\ \A i \in 1..Len(texts) : t[i] = t[i - 1] \o texts[i]

LEMMA ConcatenatedBy ==
    ASSUME NEW texts, Len(texts) \in Nat
    PROVE  \E t : Joins(texts, t) /\ Concatenated(texts) = t[Len(texts)]
<1> DEFINE n == Len(texts)
           more(u, i) == u \o texts[i]
           Upto(m, t) == t = [i \in 0..m |-> IF i = 0 THEN <<>> ELSE more(t[i - 1], i)]
           t == CHOOSE t : Upto(n, t)
<1>1. n \in Nat
  OBVIOUS
<1>2. Concatenated(texts) = t[n]
  BY Zenon DEF Concatenated
<1> HIDE DEF more
<1>3. \E u : Upto(n, u)
  <2> DEFINE T == {m \in Nat : ~\E u : Upto(m, u)}
  <2>1. SUFFICES ASSUME T # {} PROVE FALSE
    BY <1>1
  <2>2. PICK m \in T : \A j \in T : m <= j
    BY <2>1, MinNat
  <2>3. CASE m = 0
    <3> DEFINE u == [i \in 0..0 |-> <<>>]
    <3>1. Upto(0, u)
      OBVIOUS
    <3> QED BY <2>2, <2>3, <3>1
  <2>4. CASE m # 0
    <3>1. m \in Nat /\ m - 1 \in Nat
      BY <2>2, <2>4
    <3>2. m - 1 \notin T
      <4> HIDE DEF T
      <4> QED BY <2>2, <3>1
    <3>3. PICK v : Upto(m - 1, v)
      BY <3>1, <3>2
    <3> DEFINE u == [i \in 0..m |-> IF i = m THEN more(v[m - 1], m) ELSE v[i]]
    <3>4. ASSUME NEW i \in 0..m
          PROVE  u[i] = IF i = 0 THEN <<>> ELSE more(u[i - 1], i)
      BY <2>4, <3>1, <3>3
    <3>5. Upto(m, u)
      BY <3>4
    <3> QED BY <2>2, <3>5
  <2> QED BY <2>3, <2>4
<1>4. Upto(n, t)
  BY <1>3, Zenon
<1> HIDE DEF t
<1>5. t[0] = <<>> /\ \A i \in 1..n : t[i] = more(t[i - 1], i)
  <2>1. 0 \in 0..n /\ \A i \in 1..n : i \in 0..n /\ i # 0
    BY <1>1
  <2> QED BY <1>4, <2>1, Zenon
<1>6. Joins(texts, t)
  BY <1>5, Zenon DEF Joins, more
<1> QED BY <1>2, <1>6

\* Texts one after the other are a text, empty when there are none, and not when there
\* are some and none of them is empty.
LEMMA ConcatenatedIs ==
    ASSUME NEW texts \in Seq(Seq(Nat))
    PROVE  /\ Concatenated(texts) \in Seq(Nat)
           /\ texts = <<>> => Concatenated(texts) = <<>>
           /\ (texts # <<>> /\ \A i \in 1..Len(texts) : texts[i] # <<>>) => Concatenated(texts) # <<>>
<1> DEFINE n == Len(texts)
<1>1. n \in Nat /\ \A i \in 1..n : texts[i] \in Seq(Nat)
  OBVIOUS
<1>2. PICK t : Joins(texts, t) /\ Concatenated(texts) = t[n]
  BY <1>1, ConcatenatedBy
<1>3. t[0] = <<>> /\ \A i \in 1..n : t[i] = t[i - 1] \o texts[i]
  BY <1>2 DEF Joins
<1>4. texts = <<>> <=> n = 0
  OBVIOUS
<1> HIDE DEF n
<1> DEFINE Good(m) == t[m] \in Seq(Nat) /\ (m > 0 /\ texts[m] # <<>> => t[m] # <<>>)
           T == {m \in Nat : m <= n /\ ~Good(m)}
<1>5. T = {}
  <2> SUFFICES ASSUME T # {} PROVE FALSE
    OBVIOUS
  <2>1. PICK m \in T : \A j \in T : m <= j
    BY MinNat
  <2>2. m \in Nat /\ m <= n /\ ~Good(m)
    BY <2>1
  <2>3. CASE m = 0
    <3>1. t[m] = <<>> /\ <<>> \in Seq(Nat) /\ ~(m > 0)
      BY <1>3, <2>3
    <3> QED BY <2>2, <3>1, Zenon
  <2>4. CASE m # 0
    <3>1. m - 1 \in Nat /\ m - 1 <= n /\ m \in 1..n
      BY <1>1, <2>2, <2>4
    <3>2. m - 1 \notin T
      <4> HIDE DEF T
      <4> QED BY <2>1, <2>2, <3>1
    <3>3. t[m - 1] \in Seq(Nat) /\ texts[m] \in Seq(Nat) /\ t[m] = t[m - 1] \o texts[m]
      BY <1>1, <1>3, <3>1, <3>2
    <3> DEFINE a == t[m - 1]
               b == texts[m]
    <3> HIDE DEF a, b
    <3>4. a \in Seq(Nat) /\ b \in Seq(Nat) /\ t[m] = a \o b
      BY <3>3 DEF a, b
    <3>5. a \o b \in Seq(Nat) /\ Len(a \o b) = Len(a) + Len(b) /\ Len(a) \in Nat /\ Len(b) \in Nat
      BY <3>4
    <3>6. b # <<>> => Len(b) # 0
      BY <3>4
    <3>7. b # <<>> => a \o b # <<>>
      BY <3>5, <3>6
    <3> QED BY <2>2, <3>4, <3>5, <3>7 DEF b
  <2> QED BY <2>3, <2>4
<1>6. ASSUME NEW m \in 0..n PROVE Good(m)
  <2>1. m \in Nat /\ m <= n
    BY <1>1
  <2>2. m \notin T
    <3> HIDE DEF T
    <3> QED BY <1>5
  <2> QED BY <2>1, <2>2, Zenon
<1>7. n \in 0..n /\ 0 \in 0..n /\ (n # 0 => n > 0 /\ n \in 1..n)
  BY <1>1
<1> QED BY <1>2, <1>3, <1>4, <1>6, <1>7 DEF n

\* A part of a kind whose names have numbers, and no text of them is empty.
LEMMA NumberedIs ==
    ASSUME NEW parts \in Seq(Objects), Numbered(parts), NEW i \in 1..Len(parts)
    PROVE  /\ parts[i].form = "dotted" /\ Place(parts[i]) \in Nat
           /\ get_metadata_num(parts[i]) = [ok |-> TRUE, num |-> Place(parts[i])]
           /\ parts[i].text \in Seq(Nat) /\ parts[i].text # <<>>
<1> DEFINE o == parts[i]
<1>1. o \in ToSet(parts)
  BY DEF ToSet
<1>2. o \in Objects
  BY SeqElement
<1> HIDE DEF o
<1>3. o.form = "dotted" /\ Len(o.numbers) \in 1..2 /\ ToSet(o.numbers) \subseteq Nat /\ o.text # <<>>
  BY <1>1 DEF Numbered
<1>4. o.numbers \in Seq(Nat \cup {NotANumber}) /\ o.text \in Seq(Nat)
  BY <1>2 DEF Objects
<1>5. \A j \in 1..Len(o.numbers) : o.numbers[j] \in Nat
  <2> TAKE j \in 1..Len(o.numbers)
  <2>1. o.numbers[j] \in ToSet(o.numbers)
    BY <1>4 DEF ToSet
  <2> QED BY <1>3, <2>1
<1>6. Place(o) \in Nat
  <2> DEFINE x == Len(o.numbers)
  <2>1. x \in 1..x
    <3>1. x \in 1..2
      BY <1>3
    <3> HIDE DEF x
    <3> QED BY <3>1
  <2> QED BY <1>5, <2>1 DEF Place
<1>7. get_metadata_num(o) = [ok |-> TRUE, num |-> Place(o)]
  <2>1. CASE Len(o.numbers) = 1
    <3>1. o.numbers[1] # NotANumber
      BY <1>5, <2>1 DEF NotANumber
    <3> QED BY <1>3, <2>1, <3>1 DEF get_metadata_num, Place
  <2>2. CASE Len(o.numbers) = 2
    <3>1. o.numbers[2] # NotANumber
      BY <1>5, <2>2 DEF NotANumber
    <3> QED BY <1>3, <2>2, <3>1 DEF get_metadata_num, Place
  <2> QED BY <1>3, <2>1, <2>2
<1> QED BY <1>3, <1>4, <1>6, <1>7 DEF o

LEMMA CountOne ==
    ASSUME NEW m, NEW a, NEW k
    PROVE  [[total |-> m, alone |-> a, ok |-> k] EXCEPT !.total = m + 1] = [total |-> m + 1, alone |-> a, ok |-> k]
BY SMT

\* They are all counted.
LEMMA CountNumbered ==
    ASSUME NEW parts \in Seq(Objects), Numbered(parts)
    PROVE  CountParts(parts) = [total |-> Len(parts), alone |-> FALSE, ok |-> TRUE]
<1> DEFINE n == Len(parts)
           count(m) == [total |-> m, alone |-> FALSE, ok |-> TRUE]
<1>1. n \in Nat
  OBVIOUS
<1>2. PICK t : Counted(parts, t) /\ CountParts(parts) = t[n]
  BY <1>1, CountPartsBy
<1>3. /\ t[0] = count(0)
      /\ \A i \in 1..n :
           t[i] = IF ~t[i - 1].ok THEN t[i - 1]
                  ELSE IF t[i - 1].alone THEN [t[i - 1] EXCEPT !.ok = FALSE]
                  ELSE IF t[i - 1].total = 0 /\ parts[i].form = "exact" THEN [t[i - 1] EXCEPT !.alone = TRUE]
                  ELSE [t[i - 1] EXCEPT !.total = t[i - 1].total + 1]
  BY <1>2 DEF Counted
<1> DEFINE T == {m \in Nat : m <= n /\ t[m] # count(m)}
<1>4. T = {}
  <2> SUFFICES ASSUME T # {} PROVE FALSE
    OBVIOUS
  <2>1. PICK m \in T : \A j \in T : m <= j
    BY MinNat
  <2>2. m \in Nat /\ m <= n /\ t[m] # count(m)
    BY <2>1
  <2>3. CASE m = 0
    BY <1>3, <2>2, <2>3
  <2>4. CASE m # 0
    <3>1. m - 1 \in Nat /\ m - 1 <= n /\ m \in 1..n
      BY <1>1, <2>2, <2>4
    <3>2. m - 1 \notin T
      <4> HIDE DEF T
      <4> QED BY <2>1, <2>2, <3>1
    <3>3. t[m - 1] = count(m - 1)
      BY <3>1, <3>2
    <3>4. parts[m].form # "exact"
      <4>1. parts[m].form = "dotted"
        BY <3>1, NumberedIs
      <4> QED BY <4>1
    <3>5. t[m] = [t[m - 1] EXCEPT !.total = t[m - 1].total + 1]
      <4> DEFINE c == t[m - 1]
      <4>1. c.ok = TRUE /\ c.alone = FALSE
        BY <3>3
      <4> HIDE DEF c
      <4>2. t[m] = [c EXCEPT !.total = c.total + 1]
        BY <1>3, <3>1, <3>4, <4>1 DEF c
      <4> QED BY <4>2 DEF c
    <3>6. t[m] = count(m - 1 + 1)
      <4> DEFINE k == m - 1
      <4>1. t[m - 1] = count(k) /\ count(k).total = k
        BY <3>3
      <4> HIDE DEF k
      <4>2. t[m] = [count(k) EXCEPT !.total = k + 1]
        BY <3>5, <4>1
      <4>3. [count(k) EXCEPT !.total = k + 1] = count(k + 1)
        BY CountOne, Zenon
      <4> QED BY <4>2, <4>3 DEF k
    <3>7. m - 1 + 1 = m
      BY <2>2
    <3> QED BY <2>2, <3>6, <3>7
  <2> QED BY <2>3, <2>4
<1>5. t[n] = count(n)
  <2>1. n \notin T
    <3> HIDE DEF T
    <3> QED BY <1>4
  <2> QED BY <1>1, <2>1
<1> QED BY <1>2, <1>5

\* A numbered part is put into its place, if there is one that is empty.
LEMMA PlacePartIs ==
    ASSUME NEW o, NEW p \in Nat, get_metadata_num(o) = [ok |-> TRUE, num |-> p],
           NEW total \in Nat, NEW w, NEW l, NEW ps \in [1..total -> Seq(Nat)]
    PROVE  LET u == [status |-> "ok", whole |-> w, last |-> l, parts |-> ps]
               q == PlacePart(u, o, total) IN
           /\ p >= total => q.status = "undefined"
           /\ (p < total /\ ps[p + 1] # <<>>) => q.status = "throws"
           /\ (p < total /\ ps[p + 1] = <<>>) =>
                q = [status |-> "ok", whole |-> w, last |-> p, parts |-> [ps EXCEPT ![p + 1] = o.text]]
<1> DEFINE u == [status |-> "ok", whole |-> w, last |-> l, parts |-> ps]
           n == [ok |-> TRUE, num |-> p]
           q == PlacePart(u, o, total)
<1>1. q = IF p >= total THEN [u EXCEPT !.status = "undefined"]
          ELSE IF ps[p + 1] # <<>> THEN [u EXCEPT !.status = "throws"]
          ELSE [status |-> "ok", whole |-> w, last |-> p, parts |-> [ps EXCEPT ![p + 1] = o.text]]
  <2>1. u.status = "ok" /\ n.ok /\ n.num = p /\ u.parts = ps /\ u.whole = w /\ p # NoSuffix
    BY DEF NoSuffix
  <2> HIDE DEF u, n
  <2> QED BY <2>1 DEF PlacePart, n
<1>2. /\ [u EXCEPT !.status = "undefined"].status = "undefined"
      /\ [u EXCEPT !.status = "throws"].status = "throws"
  OBVIOUS
<1>4. p >= total <=> ~(p < total)
  OBVIOUS
<1> HIDE DEF q, u
<1>5. /\ p >= total => q.status = "undefined"
      /\ (p < total /\ ps[p + 1] # <<>>) => q.status = "throws"
      /\ (p < total /\ ps[p + 1] = <<>>) =>
           q = [status |-> "ok", whole |-> w, last |-> p, parts |-> [ps EXCEPT ![p + 1] = o.text]]
  BY <1>1, <1>2, <1>4
<1> QED BY <1>5 DEF q, u

\* After some parts, all is well as long as their numbers are places and no two are the
\* same; then each text is in its place, and the other places are empty.
Good(parts, total, i, u) ==
    /\ u.status = "ok" =>
         /\ \A k \in 1..i : Place(parts[k]) < total
         /\ \A k, l \in 1..i : k # l => Place(parts[k]) # Place(parts[l])
         /\ \E last, ps :
              /\ u = [status |-> "ok", whole |-> <<>>, last |-> last, parts |-> ps]
              /\ ps \in [1..total -> Seq(Nat)]
              /\ i > 0 => last = Place(parts[i])
              /\ \A k \in 1..i : ps[Place(parts[k]) + 1] = parts[k].text
              /\ \A n \in 1..total : ps[n] = <<>> \/ \E k \in 1..i : Place(parts[k]) + 1 = n
    /\ u.status # "ok" =>
         \/ \E k \in 1..i : Place(parts[k]) >= total
         \/ \E k, l \in 1..i : k # l /\ Place(parts[k]) = Place(parts[l])
    /\ u.status \in {"ok", "undefined", "throws"}

LEMMA GoodStep ==
    ASSUME NEW parts \in Seq(Objects), Numbered(parts), NEW total \in Nat,
           NEW i \in 1..Len(parts), NEW u, Good(parts, total, i - 1, u)
    PROVE  Good(parts, total, i, PlacePart(u, parts[i], total))
<1> DEFINE P(k) == Place(parts[k])
           text(k) == parts[k].text
           o == parts[i]
           q == PlacePart(u, o, total)
           p == P(i)
<1>1. /\ i \in Nat /\ i > 0 /\ i - 1 \in Nat /\ \A k \in 1..i : k \in 1..Len(parts)
      /\ \A k \in 1..i : k \in 1..(i - 1) \/ k = i
      /\ \A k \in 1..(i - 1) : k \in 1..i /\ k # i
      /\ i \in 1..i
  OBVIOUS
<1>2. /\ get_metadata_num(o) = [ok |-> TRUE, num |-> p] /\ text(i) \in Seq(Nat) /\ text(i) # <<>>
      /\ \A k \in 1..i : P(k) \in Nat /\ text(k) # <<>>
  BY <1>1, NumberedIs
<1>3. p \in Nat
  BY <1>1, <1>2
<1>4. CASE u.status # "ok"
  <2>1. q = u
    BY <1>4 DEF PlacePart
  <2>2. /\ \/ \E k \in 1..(i - 1) : P(k) >= total
           \/ \E k, l \in 1..(i - 1) : k # l /\ P(k) = P(l)
        /\ u.status \in {"ok", "undefined", "throws"}
    BY <1>4 DEF Good
  <2> HIDE DEF P, q
  <2>3. \/ \E k \in 1..i : P(k) >= total
        \/ \E k, l \in 1..i : k # l /\ P(k) = P(l)
    BY <1>1, <2>2
  <2> QED BY <1>4, <2>1, <2>2, <2>3 DEF Good, P, q
<1>5. CASE u.status = "ok"
  <2>1. /\ \A k \in 1..(i - 1) : P(k) < total
        /\ \A k, l \in 1..(i - 1) : k # l => P(k) # P(l)
    BY <1>5 DEF Good
  <2>2. PICK last, ps : /\ u = [status |-> "ok", whole |-> <<>>, last |-> last, parts |-> ps]
                        /\ ps \in [1..total -> Seq(Nat)]
                        /\ \A k \in 1..(i - 1) : ps[P(k) + 1] = text(k)
                        /\ \A n \in 1..total : ps[n] = <<>> \/ \E k \in 1..(i - 1) : P(k) + 1 = n
    BY <1>5, Zenon DEF Good
  <2> HIDE DEF P, text, o, p
  <2>3. /\ p >= total => q.status = "undefined"
        /\ (p < total /\ ps[p + 1] # <<>>) => q.status = "throws"
        /\ (p < total /\ ps[p + 1] = <<>>) =>
             q = [status |-> "ok", whole |-> <<>>, last |-> p, parts |-> [ps EXCEPT ![p + 1] = text(i)]]
    <3> DEFINE v == [status |-> "ok", whole |-> <<>>, last |-> last, parts |-> ps]
               r == PlacePart(v, o, total)
    <3>1. /\ p >= total => r.status = "undefined"
          /\ (p < total /\ ps[p + 1] # <<>>) => r.status = "throws"
          /\ (p < total /\ ps[p + 1] = <<>>) =>
               r = [status |-> "ok", whole |-> <<>>, last |-> p, parts |-> [ps EXCEPT ![p + 1] = o.text]]
      <4>1. get_metadata_num(o) = [ok |-> TRUE, num |-> p] /\ ps \in [1..total -> Seq(Nat)]
        BY <1>2, <2>2
      <4> QED BY <1>3, <4>1, PlacePartIs
    <3>2. r = q
      BY <2>2
    <3> HIDE DEF r, q
    <3> QED BY <3>1, <3>2 DEF text, o
  <2> HIDE DEF q
  <2>4. CASE p >= total
    <3>1. q.status = "undefined" /\ \E k \in 1..i : P(k) >= total
      BY <1>1, <2>3, <2>4 DEF p
    <3> QED BY <3>1 DEF Good, P, q, o
  <2>5. CASE p < total /\ ps[p + 1] # <<>>
    <3>1. p + 1 \in 1..total
      BY <1>3, <2>5
    <3>2. PICK k \in 1..(i - 1) : P(k) + 1 = p + 1
      BY <2>2, <2>5, <3>1
    <3>3. k \in 1..i /\ k # i /\ P(k) = P(i)
      BY <1>1, <1>2, <1>3, <3>2 DEF p
    <3>4. \E j, l \in 1..i : j # l /\ P(j) = P(l)
      BY <1>1, <3>3
    <3>5. q.status = "throws"
      BY <2>3, <2>5
    <3> QED BY <3>4, <3>5 DEF Good, P, q, o
  <2>6. CASE p < total /\ ps[p + 1] = <<>>
    <3> DEFINE new == [ps EXCEPT ![p + 1] = text(i)]
    <3>1. q = [status |-> "ok", whole |-> <<>>, last |-> p, parts |-> new]
      BY <2>3, <2>6
    <3>2. p + 1 \in 1..total
      BY <1>3, <2>6
    <3>3. /\ new \in [1..total -> Seq(Nat)] /\ new[p + 1] = text(i)
          /\ \A n \in 1..total : n # p + 1 => new[n] = ps[n]
      BY <1>2, <2>2, <3>2
    <3> HIDE DEF new
    <3>4. ASSUME NEW k \in 1..(i - 1) PROVE P(k) # p
      <4>1. ps[P(k) + 1] = text(k) /\ text(k) # <<>>
        BY <1>1, <1>2, <2>2
      <4> QED BY <2>6, <4>1
    <3>5. \A k \in 1..i : P(k) < total
      BY <1>1, <2>1, <2>6 DEF p
    <3>6. ASSUME NEW k \in 1..i, NEW l \in 1..i, k # l PROVE P(k) # P(l)
      BY <1>1, <2>1, <3>4, <3>6 DEF p
    <3>7. ASSUME NEW k \in 1..i PROVE new[P(k) + 1] = text(k)
      <4>1. CASE k = i
        BY <3>3, <4>1 DEF p
      <4>2. CASE k # i
        <5>1. k \in 1..(i - 1) /\ P(k) \in Nat /\ P(k) < total /\ P(k) # p
          BY <1>1, <1>2, <2>1, <3>4, <4>2
        <5>2. P(k) + 1 \in 1..total /\ P(k) + 1 # p + 1
          BY <1>3, <5>1
        <5> QED BY <2>2, <3>3, <5>1, <5>2
      <4> QED BY <4>1, <4>2
    <3>8. ASSUME NEW n \in 1..total PROVE new[n] = <<>> \/ \E k \in 1..i : P(k) + 1 = n
      <4>1. CASE n = p + 1
        BY <1>1, <4>1 DEF p
      <4>2. CASE n # p + 1
        BY <1>1, <2>2, <3>3, <4>2
      <4> QED BY <4>1, <4>2
    <3>9. q.status = "ok"
      BY <3>1
    <3>10. /\ \A k \in 1..i : P(k) < total
           /\ \A k, l \in 1..i : k # l => P(k) # P(l)
           /\ \E m, s : /\ q = [status |-> "ok", whole |-> <<>>, last |-> m, parts |-> s]
                        /\ s \in [1..total -> Seq(Nat)]
                        /\ i > 0 => m = P(i)
                        /\ \A k \in 1..i : s[P(k) + 1] = text(k)
                        /\ \A n \in 1..total : s[n] = <<>> \/ \E k \in 1..i : P(k) + 1 = n
      <4>1. p = P(i)
        BY DEF p
      <4> QED BY <3>1, <3>3, <3>5, <3>6, <3>7, <3>8, <4>1, Zenon
    <3> QED BY <3>9, <3>10 DEF Good, P, q, o, text
  <2> QED BY <1>3, <2>4, <2>5, <2>6
<1> QED BY <1>4, <1>5

\* The vector that PlaceParts fills has the texts in the places of their numbers, unless
\* a number is missing or there twice.
LEMMA PlaceNumbered ==
    ASSUME NEW parts \in Seq(Objects), Numbered(parts)
    PROVE  Good(parts, Len(parts), Len(parts), PlaceParts(parts, Len(parts)))
<1> DEFINE n == Len(parts)
<1>1. n \in Nat
  OBVIOUS
<1>2. PICK t : Placed(parts, n, t) /\ PlaceParts(parts, n) = t[n]
  BY <1>1, PlacePartsBy
<1> DEFINE T == {m \in Nat : m <= n /\ ~Good(parts, n, m, t[m])}
<1>3. T = {}
  <2> SUFFICES ASSUME T # {} PROVE FALSE
    OBVIOUS
  <2>1. PICK m \in T : \A j \in T : m <= j
    BY MinNat
  <2>2. m \in Nat /\ m <= n /\ ~Good(parts, n, m, t[m])
    BY <2>1
  <2>3. CASE m = 0
    <3> DEFINE ps == [j \in 1..n |-> <<>>]
               u == [status |-> "ok", whole |-> <<>>, last |-> NoSuffix, parts |-> ps]
    <3>1. t[0] = u
      BY <1>2 DEF Placed, Empty
    <3>2. ps \in [1..n -> Seq(Nat)] /\ \A j \in 1..n : ps[j] = <<>>
      <4>1. <<>> \in Seq(Nat)
        OBVIOUS
      <4> QED BY <4>1
    <3>3. 1..0 = {} /\ ~(0 > 0) /\ u.status = "ok"
      OBVIOUS
    <3> HIDE DEF ps
    <3>4. \E last, s :
              /\ u = [status |-> "ok", whole |-> <<>>, last |-> last, parts |-> s]
              /\ s \in [1..n -> Seq(Nat)]
              /\ 0 > 0 => last = Place(parts[0])
              /\ \A k \in 1..0 : s[Place(parts[k]) + 1] = parts[k].text
              /\ \A j \in 1..n : s[j] = <<>> \/ \E k \in 1..0 : Place(parts[k]) + 1 = j
      BY <3>2, <3>3, Zenon
    <3> HIDE DEF u, n
    <3>5. Good(parts, n, 0, u)
      BY <3>3, <3>4 DEF Good
    <3> QED BY <2>2, <2>3, <3>1, <3>5
  <2>4. CASE m # 0
    <3>1. m - 1 \in Nat /\ m - 1 <= n /\ m \in 1..n
      BY <1>1, <2>2, <2>4
    <3>2. m - 1 \notin T
      <4> HIDE DEF T
      <4> QED BY <2>1, <2>2, <3>1
    <3>3. Good(parts, n, m - 1, t[m - 1])
      BY <3>1, <3>2
    <3>4. t[m] = PlacePart(t[m - 1], parts[m], n)
      BY <1>2, <3>1 DEF Placed
    <3>5. Good(parts, n, m, PlacePart(t[m - 1], parts[m], n))
      BY <1>1, <3>1, <3>3, GoodStep
    <3> QED BY <2>2, <3>4, <3>5
  <2> QED BY <2>3, <2>4
<1>4. Good(parts, n, n, t[n])
  <2>1. n \notin T
    <3> HIDE DEF T
    <3> QED BY <1>3
  <2> QED BY <1>1, <2>1
<1> QED BY <1>2, <1>4

\* Numbers below n, n of them: they are all of these exactly if no two are the same.
LEMMA AllPlaces ==
    ASSUME NEW n \in Nat, NEW f \in [1..n -> Nat]
    PROVE  {f[k] : k \in 1..n} = 0..(n - 1)
             <=> (\A k \in 1..n : f[k] < n) /\ (\A k, l \in 1..n : k # l => f[k] # f[l])
<1> DEFINE S == 1..n
           T == 0..(n - 1)
<1>1. IsFiniteSet(S) /\ IsFiniteSet(T) /\ Cardinality(S) = n /\ Cardinality(T) = n
  <2>1. IsFiniteSet(S) /\ Cardinality(S) = IF 1 > n THEN 0 ELSE n - 1 + 1
    BY FS_Interval
  <2>2. IsFiniteSet(T) /\ Cardinality(T) = IF 0 > n - 1 THEN 0 ELSE n - 1 - 0 + 1
    BY FS_Interval
  <2> HIDE DEF S, T
  <2> QED BY <2>1, <2>2
<1>2. T \subseteq Nat /\ \A x \in Nat : x \in T <=> x < n
  OBVIOUS
<1>3. \A k \in S : f[k] \in Nat
  OBVIOUS
<1>4. ASSUME {f[k] : k \in S} = T
      PROVE  (\A k \in S : f[k] < n) /\ (\A k, l \in S : k # l => f[k] # f[l])
  <2> HIDE DEF S, T
  <2>1. \A k \in S : f[k] \in T
    BY <1>4
  <2>2. f \in [S -> T]
    BY <2>1 DEF S
  <2>3. f \in Surjection(S, T)
    <3>1. \A x \in T : \E k \in S : f[k] = x
      BY <1>4
    <3> QED BY <2>2, <3>1, Zenon DEF Surjection
  <2>4. f \in Injection(S, T)
    BY <1>1, <2>3, FS_SurjSameCardinalityImpliesInj
  <2>5. \A k, l \in S : f[k] = f[l] => k = l
    BY <2>2, <2>4 DEF Injection, IsInjective
  <2> QED BY <1>2, <1>3, <2>1, <2>5
<1>5. ASSUME \A k \in S : f[k] < n, \A k, l \in S : k # l => f[k] # f[l]
      PROVE  {f[k] : k \in S} = T
  <2> HIDE DEF S, T
  <2>1. \A k \in S : f[k] \in T
    BY <1>2, <1>3, <1>5
  <2>2. f \in [S -> T]
    BY <2>1 DEF S
  <2>3. f \in Injection(S, T)
    <3>1. \A k, l \in DOMAIN f : f[k] = f[l] => k = l
      BY <1>5, <2>2
    <3> QED BY <2>2, <3>1 DEF Injection, IsInjective
  <2>4. f \in Surjection(S, T)
    BY <1>1, <2>3, FS_Injection
  <2>5. \A x \in T : \E k \in S : f[k] = x
    BY <2>4 DEF Surjection
  <2> QED BY <2>1, <2>5
<1> QED BY <1>4, <1>5

\* The parts of a kind are joined if none is missing and none is there twice, and then
\* in their order.
LEMMA JoinNumbered ==
    ASSUME NEW parts \in Seq(Objects), Numbered(parts)
    PROVE  LET placed == PlaceParts(parts, Len(parts)) IN
           /\ placed.status \in {"ok", "undefined", "throws"}
           /\ placed.status = "ok" <=> Whole(parts)
           /\ Whole(parts) => /\ JoinParts(placed) = Concatenated(InPlace(parts))
                              /\ JoinParts(placed) # <<>> <=> parts # <<>>
<1> DEFINE n == Len(parts)
           P(k) == Place(parts[k])
           text(k) == parts[k].text
           placed == PlaceParts(parts, n)
           f == [k \in 1..n |-> P(k)]
<1>1. n \in Nat /\ DOMAIN parts = 1..n /\ (parts = <<>> <=> n = 0)
  OBVIOUS
<1>2. \A k \in 1..n : P(k) \in Nat /\ text(k) \in Seq(Nat) /\ text(k) # <<>>
  BY NumberedIs
<1>3. f \in [1..n -> Nat] /\ \A k \in 1..n : f[k] = P(k)
  BY <1>2
<1>4. Good(parts, n, n, placed)
  BY PlaceNumbered
<1>5. {Place(o) : o \in ToSet(parts)} = {f[k] : k \in 1..n}
  <2>1. ToSet(parts) = {parts[k] : k \in 1..n}
    BY <1>1 DEF ToSet
  <2> QED BY <2>1
<1>6. Whole(parts) <=> (\A k \in 1..n : P(k) < n) /\ (\A k, l \in 1..n : k # l => P(k) # P(l))
  <2> HIDE DEF f, P
  <2>1. {f[k] : k \in 1..n} = 0..(n - 1)
             <=> (\A k \in 1..n : f[k] < n) /\ (\A k, l \in 1..n : k # l => f[k] # f[l])
    <3> HIDE DEF n
    <3> QED BY <1>1, <1>3, AllPlaces, Zenon
  <2> HIDE DEF n
  <2> QED BY <1>3, <1>5, <2>1 DEF Whole, n
<1>7. placed.status \in {"ok", "undefined", "throws"}
  BY <1>4 DEF Good
<1>8. placed.status = "ok" <=> Whole(parts)
  <2>1. placed.status = "ok" => (\A k \in 1..n : P(k) < n) /\ (\A k, l \in 1..n : k # l => P(k) # P(l))
    BY <1>4 DEF Good
  <2>2. placed.status # "ok" => \/ \E k \in 1..n : P(k) >= n
                               \/ \E k, l \in 1..n : k # l /\ P(k) = P(l)
    BY <1>4 DEF Good
  <2> HIDE DEF placed, n, P
  <2>3. ASSUME NEW k \in 1..n, P(k) >= n PROVE ~(P(k) < n)
    <3> DEFINE x == P(k)
    <3>1. x \in Nat /\ x >= n
      BY <1>2, <2>3
    <3> HIDE DEF x
    <3>2. ~(x < n)
      BY <1>1, <3>1
    <3> QED BY <3>2 DEF x
  <2> QED BY <1>6, <2>1, <2>2, <2>3
<1>9. ASSUME Whole(parts)
      PROVE  /\ JoinParts(placed) = Concatenated(InPlace(parts))
             /\ JoinParts(placed) # <<>> <=> parts # <<>>
  <2>1. PICK last, ps : /\ placed = [status |-> "ok", whole |-> <<>>, last |-> last, parts |-> ps]
                        /\ ps \in [1..n -> Seq(Nat)]
                        /\ n > 0 => last = P(n)
                        /\ \A k \in 1..n : ps[P(k) + 1] = text(k)
                        /\ \A j \in 1..n : ps[j] = <<>> \/ \E k \in 1..n : P(k) + 1 = j
    BY <1>4, <1>8, <1>9, Zenon DEF Good
  <2>2. {f[k] : k \in 1..n} = 0..(n - 1)
    BY <1>5, <1>9 DEF Whole
  <2>3. \A k, l \in 1..n : k # l => P(k) # P(l)
    BY <1>6, <1>9
  <2> DEFINE of(j) == CHOOSE o \in ToSet(parts) : Place(o) = j - 1
  <2>4. ASSUME NEW j \in 1..n PROVE ps[j] = of(j).text /\ ps[j] # <<>>
    <3>1. j - 1 \in 0..(n - 1)
      BY <1>1
    <3>2. PICK k \in 1..n : f[k] = j - 1
      BY <2>2, <3>1
    <3>3. P(k) = j - 1 /\ P(k) + 1 = j
      BY <1>2, <1>3, <3>2
    <3>4. ps[j] = text(k) /\ text(k) # <<>>
      BY <1>2, <2>1, <3>3
    <3>5. parts[k] \in ToSet(parts) /\ Place(parts[k]) = j - 1
      BY <1>1, <3>3 DEF ToSet
    <3>6. of(j) \in ToSet(parts) /\ Place(of(j)) = j - 1
      BY <3>5, Zenon
    <3> HIDE DEF of
    <3>7. PICK l \in 1..n : of(j) = parts[l]
      BY <1>1, <3>6 DEF ToSet
    <3>8. P(l) = P(k)
      BY <3>3, <3>6, <3>7
    <3>9. l = k
      BY <2>3, <3>8
    <3> QED BY <3>4, <3>7, <3>9
  <2>5. ps = InPlace(parts)
    <3> HIDE DEF n, of
    <3>1. InPlace(parts) = [j \in 1..n |-> of(j).text]
      BY <1>1, Zenon DEF InPlace, of
    <3>2. ps = [j \in 1..n |-> ps[j]]
      BY <2>1
    <3> QED BY <2>4, <3>1, <3>2
  <2>6. ps \in Seq(Seq(Nat)) /\ Len(ps) = n /\ (ps = <<>> <=> n = 0)
    <3> HIDE DEF n
    <3> QED BY <1>1, <2>1
  <2>7. /\ Concatenated(ps) \in Seq(Nat)
        /\ ps = <<>> => Concatenated(ps) = <<>>
        /\ ps # <<>> => Concatenated(ps) # <<>>
    <3>1. \A j \in 1..Len(ps) : ps[j] # <<>>
      BY <2>4, <2>6
    <3> QED BY <2>6, <3>1, ConcatenatedIs
  <2>8. JoinParts(placed) = Concatenated(ps)
    <3> DEFINE c == Concatenated(ps)
    <3>1. c \in Seq(Nat) /\ <<>> \o c = c
      BY <2>7
    <3> HIDE DEF c
    <3>2. placed.parts = ps /\ placed.last = last /\ placed.whole = <<>>
      BY <2>1
    <3>3. CASE ps = <<>>
      BY <2>7, <3>2, <3>3 DEF JoinParts
    <3>4. CASE ps # <<>>
      <4>1. n > 0 /\ n \in 1..n
        BY <1>1, <2>6, <3>4
      <4>2. last # NoSuffix
        BY <1>2, <2>1, <4>1 DEF NoSuffix
      <4> QED BY <3>1, <3>2, <3>4, <4>2 DEF JoinParts, c
    <3> QED BY <3>3, <3>4
  <2> QED BY <1>1, <2>5, <2>6, <2>7, <2>8
<1> QED BY <1>7, <1>8, <1>9

\* What is read of a file whose parts all have numbers.
LEMMA ReadNumbered ==
    ASSUME NEW objects \in Seq(Objects), AllDatasets(objects), NEW st \in BOOLEAN,
           \A k \in KindsRead(st) : Numbered(OfKind(objects, k))
    PROVE  LET r == read_ecs_metadata(objects, st) IN
           /\ r.status = "ok" <=> /\ OfKind(objects, "StructMetadata") # <<>>
                                  /\ \A k \in KindsRead(st) : Whole(OfKind(objects, k))
           /\ r.status = "ok" => \A k \in KindsRead(st) : /\ r.text[k] = Concatenated(InPlace(OfKind(objects, k)))
                                                          /\ r.text[k] # <<>> <=> OfKind(objects, k) # <<>>
<1> DEFINE kinds == KindsRead(st)
           parts(k) == OfKind(objects, k)
           count(k) == CountParts(parts(k))
           place(k) == PlaceParts(parts(k), Len(parts(k)))
           counts == [k \in kinds |-> count(k)]
           placed == [k \in kinds |-> PlaceParts(parts(k), counts[k].total)]
           other == IF st THEN <<>> ELSE OtherMetadata(objects)
           refused == [status |-> "throws", text |-> [k \in kinds |-> <<>>], other |-> <<>>]
           joined == [status |-> "ok", text |-> [k \in kinds |-> JoinParts(placed[k])], other |-> other]
           r == read_ecs_metadata(objects, st)
           main == "StructMetadata"
<1>1. main \in kinds
  BY DEF KindsRead, Kinds
<1>2. ASSUME NEW k \in kinds PROVE parts(k) \in Seq(Objects) /\ Numbered(parts(k))
  <2>1. parts(k) \in Seq(Objects)
    BY ElementsAtIs DEF OfKind
  <2> QED BY <2>1
<1> HIDE DEF parts, kinds
<1>3. ASSUME NEW k \in kinds
      PROVE  /\ counts[k].ok /\ counts[k].total = Len(parts(k)) /\ Len(parts(k)) \in Nat
             /\ placed[k] = place(k)
  <2>1. count(k) = [total |-> Len(parts(k)), alone |-> FALSE, ok |-> TRUE]
    BY <1>2, CountNumbered
  <2>2. counts[k] = count(k)
    OBVIOUS
  <2>3. Len(parts(k)) \in Nat
    BY <1>2
  <2>4. counts[k].ok /\ counts[k].total = Len(parts(k))
    BY <2>1, <2>2
  <2> QED BY <2>3, <2>4
<1>4. r = IF ~AllDatasets(objects) \/ (\E k \in kinds : ~counts[k].ok) \/ counts[main].total = 0 THEN refused
          ELSE IF \E k \in kinds : placed[k].status = "undefined" THEN [refused EXCEPT !.status = "undefined"]
          ELSE IF \E k \in kinds : placed[k].status = "throws" THEN refused
          ELSE joined
  BY Zenon DEF read_ecs_metadata, parts, kinds
<1>5. ASSUME NEW k \in kinds
      PROVE  /\ place(k).status \in {"ok", "undefined", "throws"}
             /\ place(k).status = "ok" <=> Whole(parts(k))
             /\ Whole(parts(k)) => /\ JoinParts(place(k)) = Concatenated(InPlace(parts(k)))
                                   /\ JoinParts(place(k)) # <<>> <=> parts(k) # <<>>
  BY <1>2, JoinNumbered
<1>6. /\ refused.status = "throws" /\ [refused EXCEPT !.status = "undefined"].status = "undefined"
      /\ joined.status = "ok" /\ \A k \in kinds : joined.text[k] = JoinParts(placed[k])
  OBVIOUS
<1> HIDE DEF refused, joined, counts, placed, place, r
<1>7. counts[main].total = 0 <=> parts(main) = <<>>
  <2>1. parts(main) \in Seq(Objects)
    BY <1>1, <1>2
  <2>2. Len(parts(main)) = 0 <=> parts(main) = <<>>
    BY <2>1
  <2> QED BY <1>1, <1>3, <2>2
<1>8. r.status = "ok" => r = joined
  BY <1>4, <1>6
<1>9. r = joined <=> parts(main) # <<>> /\ \A k \in kinds : Whole(parts(k))
  <2>1. r = joined <=> parts(main) # <<>> /\ \A k \in kinds : place(k).status = "ok"
    <3>1. \A k \in kinds : counts[k].ok /\ placed[k] = place(k)
      BY <1>3
    <3>2. \A k \in kinds : place(k).status \in {"ok", "undefined", "throws"}
      BY <1>5
    <3>3. r = joined <=> ~(counts[main].total = 0) /\ \A k \in kinds : place(k).status = "ok"
      BY <1>4, <1>6, <3>1, <3>2
    <3> QED BY <1>7, <3>3
  <2> QED BY <1>5, <2>1
<1>10. r.status = "ok" <=> parts(main) # <<>> /\ \A k \in kinds : Whole(parts(k))
  BY <1>6, <1>8, <1>9
<1>11. ASSUME r.status = "ok", NEW k \in kinds
       PROVE  /\ r.text[k] = Concatenated(InPlace(parts(k)))
              /\ r.text[k] # <<>> <=> parts(k) # <<>>
  <2>1. r.text[k] = JoinParts(place(k)) /\ Whole(parts(k))
    BY <1>3, <1>6, <1>8, <1>9, <1>11
  <2> QED BY <1>5, <2>1
<1>12. /\ r.status = "ok" <=> parts(main) # <<>> /\ \A k \in kinds : Whole(parts(k))
       /\ r.status = "ok" => \A k \in kinds : /\ r.text[k] = Concatenated(InPlace(parts(k)))
                                              /\ r.text[k] # <<>> <=> parts(k) # <<>>
  BY <1>10, <1>11
<1> QED BY <1>12 DEF r, parts, kinds

\* MetadataJoined, of the objects of a file.
LEMMA JoinedAlways ==
    ASSUME NEW objects \in Seq(Objects), AllDatasets(objects),
           \A k \in Kinds : Numbered(OfKind(objects, k))
    PROVE  LET read      == read_ecs_metadata(objects, FALSE)
               structure == read_ecs_metadata(objects, TRUE)
               parts(k)  == OfKind(objects, k) IN
           /\ read.status = "ok" <=> parts("StructMetadata") # <<>> /\ \A k \in Kinds : Whole(parts(k))
           /\ read.status = "ok" =>
                /\ \A k \in Kinds : read.text[k] = Concatenated(InPlace(parts(k)))
                /\ structure.status = "ok" /\ structure.text["StructMetadata"] = read.text["StructMetadata"]
                /\ \A disabled \in BOOLEAN :
                     MetadataTables(read, FALSE, disabled) \cap Kinds =
                       {k \in Kinds : parts(k) # <<>> /\ ~(disabled /\ k = "StructMetadata")}
<1> DEFINE read == read_ecs_metadata(objects, FALSE)
           structure == read_ecs_metadata(objects, TRUE)
           parts(k) == OfKind(objects, k)
           main == "StructMetadata"
<1>1. KindsRead(FALSE) = Kinds /\ KindsRead(TRUE) = {main} /\ main \in Kinds /\ "OtherMetadata" \notin Kinds
  BY DEF KindsRead, Kinds
<1>2. /\ read.status = "ok" <=> parts(main) # <<>> /\ \A k \in Kinds : Whole(parts(k))
      /\ read.status = "ok" => \A k \in Kinds : /\ read.text[k] = Concatenated(InPlace(parts(k)))
                                                /\ read.text[k] # <<>> <=> parts(k) # <<>>
  <2>1. FALSE \in BOOLEAN /\ \A k \in KindsRead(FALSE) : Numbered(OfKind(objects, k))
    BY <1>1
  <2>2. /\ read.status = "ok" <=> parts(main) # <<>> /\ \A k \in KindsRead(FALSE) : Whole(parts(k))
        /\ read.status = "ok" => \A k \in KindsRead(FALSE) : /\ read.text[k] = Concatenated(InPlace(parts(k)))
                                                             /\ read.text[k] # <<>> <=> parts(k) # <<>>
    BY <2>1, ReadNumbered, Zenon
  <2> QED BY <1>1, <2>2
<1>3. /\ structure.status = "ok" <=> parts(main) # <<>> /\ Whole(parts(main))
      /\ structure.status = "ok" => structure.text[main] = Concatenated(InPlace(parts(main)))
  <2>1. TRUE \in BOOLEAN /\ \A k \in KindsRead(TRUE) : Numbered(OfKind(objects, k))
    BY <1>1
  <2>2. /\ structure.status = "ok" <=> parts(main) # <<>> /\ \A k \in KindsRead(TRUE) : Whole(parts(k))
        /\ structure.status = "ok" => \A k \in KindsRead(TRUE) : /\ structure.text[k] = Concatenated(InPlace(parts(k)))
                                                                 /\ structure.text[k] # <<>> <=> parts(k) # <<>>
    BY <2>1, ReadNumbered, Zenon
  <2> QED BY <1>1, <2>2
<1> HIDE DEF read, structure, parts
<1>4. ASSUME read.status = "ok"
      PROVE  /\ \A k \in Kinds : read.text[k] = Concatenated(InPlace(parts(k)))
             /\ structure.status = "ok" /\ structure.text[main] = read.text[main]
  BY <1>1, <1>2, <1>3, <1>4, Zenon
<1>5. ASSUME read.status = "ok", NEW disabled \in BOOLEAN
      PROVE  MetadataTables(read, FALSE, disabled) \cap Kinds =
               {k \in Kinds : parts(k) # <<>> /\ ~(disabled /\ k = main)}
  <2>1. MetadataTables(read, FALSE, disabled) =
          {k \in Kinds : read.text[k] # <<>> /\ ~(k = main /\ disabled)}
            \cup (IF read.other # <<>> THEN {"OtherMetadata"} ELSE {})
    BY DEF MetadataTables
  <2>2. \A k \in Kinds : read.text[k] # <<>> <=> parts(k) # <<>>
    BY <1>2, <1>5, Zenon
  <2> QED BY <1>1, <2>1, <2>2
<1>6. /\ read.status = "ok" <=> parts(main) # <<>> /\ \A k \in Kinds : Whole(parts(k))
      /\ read.status = "ok" =>
           /\ \A k \in Kinds : read.text[k] = Concatenated(InPlace(parts(k)))
           /\ structure.status = "ok" /\ structure.text[main] = read.text[main]
           /\ \A disabled \in BOOLEAN :
                MetadataTables(read, FALSE, disabled) \cap Kinds =
                  {k \in Kinds : parts(k) # <<>> /\ ~(disabled /\ k = main)}
  BY <1>2, <1>4, <1>5
<1> QED BY <1>6 DEF read, structure, parts

------------------------------------------------------------------------------
(***************************************************************************)
(* The properties of the runs.                                             *)
(***************************************************************************)

\* The input stays one of the inputs.
LEMMA InputKept == Spec => [](input \in Inputs)
<1>1. Init => input \in Inputs
  BY DEF Init
<1>2. input \in Inputs /\ [Next]_input => (input \in Inputs)'
  BY DEF Next
<1> QED BY <1>1, <1>2, PTL DEF Spec

\* CacheSelection: what a request gets from the memory caches and from a cache file is what
\* its constraint selects, for every array and every selection.
THEOREM CacheSelectionHolds == Spec => []CacheSelection
<1>1. input \in Inputs => CacheSelection
  <2> SUFFICES ASSUME input \in Inputs, About("selection")
               PROVE  /\ Lists(FromMemory(input.dims, input.sel), Selection(input.dims, input.sel))
                      /\ FromDisk(input.dims, input.sel) = FromMemory(input.dims, input.sel)
    BY DEF CacheSelection
  <2>1. LegalSelection(input.dims, input.sel)
    BY InputsAssumption DEF About
  <2> QED BY <2>1, MemoryTheorem, DiskTheorem
<1> QED BY <1>1, InputKept, PTL

\* ComputedSelection: what a request gets of the latitudes and longitudes of a projected
\* grid, and of the natural numbers of a dimension, is what its constraint selects.
THEOREM ComputedSelectionHolds == Spec => []ComputedSelection
<1>1. input \in Inputs => ComputedSelection
  <2> SUFFICES ASSUME input \in Inputs, About("selection") PROVE ComputedSelection
    BY DEF ComputedSelection
  <2> DEFINE dims == input.dims
             sel == input.sel
             wanted == Selected(dims, sel)
  <2>1. LegalSelection(dims, sel)
    BY InputsAssumption DEF About
  <2> HIDE DEF dims, sel
  <2>2. FromMemory(dims, sel) = wanted /\ DOMAIN wanted = 1..Nels(sel)
    BY <2>1, MemoryIsSelected
  <2>3. /\ FromLatLonFile(dims, sel, FALSE) = FromMemory(dims, sel)
        /\ FromLatLonFile(dims, sel, TRUE) = [i \in 1..Nels(sel) |-> Product(dims) + FromMemory(dims, sel)[i]]
    BY <2>1, LatLonTheorem
  <2>4. Len(dims) = 1 => NaturalNumbers(sel, Product(dims)) = FromMemory(dims, sel)
    BY <2>1, NaturalNumbersTheorem
  <2> HIDE DEF wanted
  <2>5. /\ FromLatLonFile(dims, sel, FALSE) = wanted
        /\ FromLatLonFile(dims, sel, TRUE) = [i \in DOMAIN wanted |-> Product(dims) + wanted[i]]
        /\ Len(dims) = 1 => NaturalNumbers(sel, Product(dims)) = wanted
    BY <2>2, <2>3, <2>4
  <2> QED BY <2>5 DEF ComputedSelection, dims, sel, wanted
<1> QED BY <1>1, InputKept, PTL

\* MetadataJoined: whatever the links of a file and the numbers of its parts, its metadata
\* is refused or joined in the order of the numbers, and shown in full.
THEOREM MetadataJoinedHolds == Spec => []MetadataJoined
<1>1. input \in Inputs => MetadataJoined
  <2> SUFFICES ASSUME input \in Inputs, About("metadata") PROVE MetadataJoined
    BY DEF MetadataJoined
  <2> DEFINE objects == input.objects
             read == read_ecs_metadata(objects, FALSE)
  <2>1. objects \in Seq(Objects)
    BY InputsAssumption DEF About
  <2> HIDE DEF objects
  <2>2. ~AllDatasets(objects) => read.status = "throws"
    <3> SUFFICES ASSUME ~AllDatasets(objects) PROVE read.status = "throws"
      OBVIOUS
    <3> DEFINE refused == [status |-> "throws", text |-> [k \in KindsRead(FALSE) |-> <<>>], other |-> <<>>]
    <3>1. read = refused
      BY Zenon DEF read_ecs_metadata
    <3>2. refused.status = "throws"
      OBVIOUS
    <3> HIDE DEF read, refused
    <3> QED BY <3>1, <3>2
  <2>3. (AllDatasets(objects) /\ \A k \in Kinds : Numbered(OfKind(objects, k))) =>
          LET structure == read_ecs_metadata(objects, TRUE)
              parts(k)  == OfKind(objects, k) IN
          /\ read.status = "ok" <=> parts("StructMetadata") # <<>> /\ \A k \in Kinds : Whole(parts(k))
          /\ read.status = "ok" =>
               /\ \A k \in Kinds : read.text[k] = Concatenated(InPlace(parts(k)))
               /\ structure.status = "ok" /\ structure.text["StructMetadata"] = read.text["StructMetadata"]
               /\ \A disabled \in BOOLEAN :
                    MetadataTables(read, FALSE, disabled) \cap Kinds =
                      {k \in Kinds : parts(k) # <<>> /\ ~(disabled /\ k = "StructMetadata")}
    BY <2>1, JoinedAlways, Zenon
  <2> QED BY <2>2, <2>3, Zenon DEF MetadataJoined, objects
<1> QED BY <1>1, InputKept, PTL
==============================================================================
