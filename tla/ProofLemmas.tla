----------------------------- MODULE ProofLemmas -----------------------------
(***************************************************************************)
(* Lemmas on numbers and sequences that the proofs of several modules use. *)
(* What is proved by induction in them is proved with MinNat: the smallest *)
(* number for which it is false cannot be 0, nor come after one for which  *)
(* it is true.                                                             *)
(***************************************************************************)
EXTENDS Integers, Sequences, Subsequences, FiniteSetTheorems, TLAPS, WellFoundedInduction, SequenceTheorems

Less == {p \in Nat \X Nat : p[1] < p[2]}

\* The order of the natural numbers is well-founded.
LEMMA LessWellFounded == IsWellFoundedOn(Less, Nat)
<1>1. OpToRel(<, Nat) = Less
  BY Zenon DEF OpToRel, Less
<1> QED BY <1>1, NatLessThanWellFounded, Zenon

\* A set of numbers that is not empty has a smallest member.
LEMMA MinNat ==
    ASSUME NEW T, T \subseteq Nat, T # {}
    PROVE  \E x \in T: \A y \in T : x <= y
<1>1. PICK x \in T : \A y \in T : ~ (<<y, x>> \in Less)
  BY LessWellFounded, WFMin
<1>2. SUFFICES ASSUME NEW y \in T PROVE x <= y
  OBVIOUS
<1>3. x \in Nat /\ y \in Nat
  OBVIOUS
<1>4. y < x => <<y, x>> \in Less
  BY <1>3 DEF Less
<1> QED BY <1>1, <1>3, <1>4

\* What a sequence holds at its positions.
LEMMA SeqElement ==
    ASSUME NEW S, NEW s \in Seq(S), NEW i \in Nat \ {0}, i <= Len(s)
    PROVE  s[i] \in S
OBVIOUS

\* A sequence of n elements is a function on 1..n.
LEMMA SeqAsFunction ==
    ASSUME NEW S, NEW s \in Seq(S), NEW n, Len(s) = n
    PROVE  s \in [1..n -> S]
OBVIOUS

\* A sequence over a set is one over every larger set.
LEMMA SeqInSeq ==
    ASSUME NEW S, NEW T, S \subseteq T, NEW s \in Seq(S)
    PROVE  s \in Seq(T)
OBVIOUS

\* A sequence without its last element.
LEMMA FrontIs ==
    ASSUME NEW S, NEW s \in Seq(S), Len(s) # 0
    PROVE  /\ SubSeq(s, 1, Len(s) - 1) \in Seq(S)
           /\ Len(SubSeq(s, 1, Len(s) - 1)) = Len(s) - 1
           /\ \A i \in 1..(Len(s) - 1) : SubSeq(s, 1, Len(s) - 1)[i] = s[i]
<1> DEFINE n == Len(s) - 1
           t == SubSeq(s, 1, n)
<1>1. n \in Nat /\ n \in Int /\ 1 \in Int /\ \A i \in 1..n : s[i] \in S
  OBVIOUS
<1> HIDE DEF n
<1>2. n - 1 + 1 = n /\ (IF 1 <= n THEN n - 1 + 1 ELSE 0) = n /\ \A i \in 1..n : 1 + i - 1 = i
  BY <1>1
<1>3. /\ t \in Seq(S)
      /\ Len(t) = IF 1 <= n THEN n - 1 + 1 ELSE 0
      /\ \A i \in 1..(n - 1 + 1) : t[i] = s[1 + i - 1]
  BY <1>1, SubSeqProperties
<1> HIDE DEF t
<1>4. t \in Seq(S) /\ Len(t) = n /\ \A i \in 1..n : t[i] = s[i]
  BY <1>2, <1>3
<1> QED BY <1>4 DEF n, t

\* A sequence with an element of any kind behind it.
LEMMA AppendAny ==
    ASSUME NEW S, NEW s \in Seq(S), NEW x
    PROVE  /\ Append(s, x) \in Seq(S \cup {x})
           /\ Len(Append(s, x)) = Len(s) + 1
           /\ Append(s, x)[Len(s) + 1] = x
           /\ \A i \in 1..Len(s) : Append(s, x)[i] = s[i]
OBVIOUS

\* A sequence with one more element of its set behind it.
LEMMA AppendIn ==
    ASSUME NEW S, NEW s \in Seq(S), NEW x \in S
    PROVE  /\ Append(s, x) \in Seq(S)
           /\ Len(s) \in Nat /\ Len(Append(s, x)) = Len(s) + 1
           /\ Append(s, x)[Len(s) + 1] = x
           /\ \A i \in 1..Len(s) : Append(s, x)[i] = s[i]
OBVIOUS

\* A finite set of which no two members are different has at most one, and one of which
\* no three are different at most two.
LEMMA AtMostOne ==
    ASSUME NEW S, \A x, y \in S : x = y
    PROVE  IsFiniteSet(S) /\ Cardinality(S) <= 1
<1>1. CASE S = {}
  BY <1>1, FS_EmptySet
<1>2. CASE S # {}
  <2>1. PICK x \in S : TRUE
    BY <1>2
  <2>2. S = {x}
    BY <2>1
  <2>3. IsFiniteSet({x}) /\ Cardinality({x}) = 1
    BY FS_Singleton
  <2> QED BY <2>2, <2>3
<1> QED BY <1>1, <1>2

\* A set of which no three members are different has at most two.
LEMMA AtMostTwo ==
    ASSUME NEW S, \A x, y, z \in S : x = y \/ y = z \/ x = z
    PROVE  IsFiniteSet(S) /\ Cardinality(S) <= 2
<1>1. CASE \A x, y \in S : x = y
  <2>1. IsFiniteSet(S) /\ Cardinality(S) <= 1
    BY <1>1, AtMostOne, Zenon
  <2>2. Cardinality(S) \in Nat
    BY <2>1, FS_CardinalityType
  <2> QED BY <2>1, <2>2
<1>2. CASE ~\A x, y \in S : x = y
  <2>1. PICK x \in S : \E y \in S : x # y
    BY <1>2
  <2>2. PICK y \in S : x # y
    BY <2>1
  <2>3. S = {x} \cup {y}
    BY <2>2
  <2>4. /\ IsFiniteSet({x}) /\ Cardinality({x}) = 1
        /\ IsFiniteSet({y}) /\ Cardinality({y}) = 1
    BY FS_Singleton
  <2>5. ~(y \in {x})
    BY <2>2
  <2>6. IsFiniteSet({x} \cup {y}) /\ Cardinality({x} \cup {y}) = 1 + 1
    BY <2>4, <2>5, FS_AddElement
  <2> QED BY <2>3, <2>6
<1> QED BY <1>1, <1>2

------------------------------------------------------------------------------
(***************************************************************************)
(* Parts of sequences.                                                     *)
(***************************************************************************)

\* The steps of ElementsAt.
ElementSteps(s, places, n, t) ==
    \A i \in 0..n :
      t[i] = IF i = 0 THEN <<>> ELSE IF i \in places THEN Append(t[i - 1], s[i]) ELSE t[i - 1]

LEMMA ElementsAtBy ==
    ASSUME NEW s, Len(s) \in Nat, NEW places
    PROVE  \E t : ElementSteps(s, places, Len(s), t) /\ ElementsAt(s, places) = t[Len(s)]
<1> DEFINE n == Len(s)
           More(u, i) == IF i \in places THEN Append(u, s[i]) ELSE u
           Upto(m, t) == t = [i \in 0..m |-> IF i = 0 THEN <<>> ELSE More(t[i - 1], i)]
           t == CHOOSE t : Upto(n, t)
<1>1. n \in Nat
  OBVIOUS
<1>2. ElementsAt(s, places) = t[n]
  BY Zenon DEF ElementsAt
<1> HIDE DEF More
<1>3. \E u : Upto(n, u)
  <2> DEFINE T == {m \in Nat : ~\E u : Upto(m, u)}
  <2>1. SUFFICES ASSUME T # {} PROVE FALSE
    BY <1>1
  <2>2. PICK m \in T : \A j \in T : m <= j
    BY <2>1, MinNat
  <2>3. CASE m = 0
    <3> DEFINE u == [i \in 0..0 |-> <<>>]
    <3>1. Upto(0, u)
      OBVIOUS
    <3> QED BY <2>2, <2>3, <3>1
  <2>4. CASE m # 0
    <3>1. m \in Nat /\ m - 1 \in Nat
      BY <2>2, <2>4
    <3>2. m - 1 \notin T
      <4> HIDE DEF T
      <4> QED BY <2>2, <3>1
    <3>3. PICK v : Upto(m - 1, v)
      BY <3>1, <3>2
    <3> DEFINE u == [i \in 0..m |-> IF i = m THEN More(v[m - 1], m) ELSE v[i]]
    <3>4. ASSUME NEW i \in 0..m
          PROVE  u[i] = IF i = 0 THEN <<>> ELSE More(u[i - 1], i)
      BY <2>4, <3>1, <3>3
    <3>5. Upto(m, u)
      BY <3>4
    <3> QED BY <2>2, <3>5
  <2> QED BY <2>3, <2>4
<1>4. Upto(n, t)
  BY <1>3, Zenon
<1> HIDE DEF t
<1>5. ElementSteps(s, places, n, t)
  BY <1>4, Zenon DEF ElementSteps, More
<1> QED BY <1>2, <1>5

\* The places p, in their order, are all of these up to n.
Ascending(p, places, n) ==
    /\ p \in Seq(1..n)
    /\ \A k \in 1..Len(p) : p[k] \in places
    /\ \A i \in 1..n : i \in places => \E k \in 1..Len(p) : p[k] = i
    /\ \A k, l \in 1..Len(p) : k < l => p[k] < p[l]

LEMMA AscendingMore ==
    ASSUME NEW n \in Nat \ {0}, NEW places, NEW p, Ascending(p, places, n - 1), n \in places
    PROVE  Ascending(Append(p, n), places, n)
<1> DEFINE q == Append(p, n)
           m == Len(p)
<1>1. /\ p \in Seq(1..(n - 1)) /\ 1..(n - 1) \subseteq 1..n /\ n \in 1..n
      /\ \A k \in 1..m : p[k] \in places /\ p[k] \in 1..(n - 1)
      /\ \A i \in 1..(n - 1) : i \in places => \E k \in 1..m : p[k] = i
      /\ \A k, l \in 1..m : k < l => p[k] < p[l]
  BY DEF Ascending
<1>2. p \in Seq(1..n)
  BY <1>1, SeqInSeq, Zenon
<1>3. q \in Seq(1..n) /\ m \in Nat /\ Len(q) = m + 1 /\ q[m + 1] = n /\ \A i \in 1..m : q[i] = p[i]
  BY <1>1, <1>2, AppendIn
<1> HIDE DEF q, m
<1>4. \A k \in 1..(m + 1) : k \in 1..m \/ k = m + 1
  BY <1>3
<1>5. \A k \in 1..(m + 1) : q[k] \in places
  BY <1>1, <1>3, <1>4
<1>6. \A i \in 1..n : i \in places => \E k \in 1..(m + 1) : q[k] = i
  <2> TAKE i \in 1..n
  <2> HAVE i \in places
  <2>1. CASE i = n
    BY <1>3, <2>1
  <2>2. CASE i # n
    <3>1. PICK k \in 1..m : p[k] = i
      BY <1>1, <2>2
    <3>2. k \in 1..(m + 1) /\ q[k] = i
      BY <1>3, <3>1
    <3> QED BY <3>2
  <2> QED BY <2>1, <2>2
<1>7. ASSUME NEW k \in 1..(m + 1), NEW l \in 1..(m + 1), k < l PROVE q[k] < q[l]
  <2>1. k \in 1..m /\ q[k] = p[k]
    BY <1>3, <1>7
  <2>2. CASE l = m + 1
    BY <1>1, <1>3, <2>1, <2>2
  <2>3. CASE l # m + 1
    BY <1>1, <1>3, <1>7, <2>1, <2>3
  <2> QED BY <2>2, <2>3
<1> QED BY <1>3, <1>5, <1>6, <1>7 DEF Ascending, q

\* e lists the elements at the places of s that are among these.
ListsAt(e, s, places) ==
    \E p : /\ Ascending(p, places, Len(s)) /\ Len(e) = Len(p)
          /\ \A k \in 1..Len(p) : e[k] = s[p[k]]

LEMMA ElementsAtIs ==
    ASSUME NEW S, NEW s \in Seq(S), NEW places
    PROVE  ElementsAt(s, places) \in Seq(S) /\ ListsAt(ElementsAt(s, places), s, places)
<1> DEFINE n == Len(s)
<1>1. n \in Nat
  OBVIOUS
<1>2. PICK t : ElementSteps(s, places, n, t) /\ ElementsAt(s, places) = t[n]
  BY <1>1, ElementsAtBy
<1> DEFINE Good(m, p) == /\ Ascending(p, places, m)
                         /\ t[m] \in Seq(S) /\ Len(t[m]) = Len(p)
                         /\ \A k \in 1..Len(p) : t[m][k] = s[p[k]]
           T == {m \in Nat : m <= n /\ ~\E p : Good(m, p)}
<1>3. SUFFICES ASSUME T # {} PROVE FALSE
  BY <1>1, <1>2 DEF ListsAt
<1>4. PICK m \in T : \A j \in T : m <= j
  BY <1>3, MinNat
<1>5. m \in Nat /\ m <= n /\ m \in 0..n /\ ~\E p : Good(m, p)
  BY <1>1, <1>4
<1>6. CASE m = 0
  <2>1. t[0] = <<>>
    BY <1>2, <1>5, <1>6 DEF ElementSteps
  <2>2. Ascending(<<>>, places, 0)
    BY DEF Ascending
  <2>3. Good(0, <<>>)
    BY <2>1, <2>2
  <2> QED BY <1>5, <1>6, <2>3
<1>7. CASE m # 0
  <2>1. m - 1 \in Nat /\ m - 1 <= n /\ m \in Nat \ {0} /\ m \in 1..n
    BY <1>1, <1>5, <1>7
  <2>2. m - 1 \notin T
    <3> HIDE DEF T
    <3> QED BY <1>4, <1>5, <2>1
  <2>3. PICK p : Good(m - 1, p)
    BY <2>1, <2>2
  <2>4. t[m] = IF m \in places THEN Append(t[m - 1], s[m]) ELSE t[m - 1]
    BY <1>2, <1>5, <1>7 DEF ElementSteps
  <2>5. s[m] \in S
    BY <2>1
  <2>6. CASE m \notin places
    <3>1. Ascending(p, places, m)
      <4>1. /\ p \in Seq(1..(m - 1)) /\ 1..(m - 1) \subseteq 1..m
            /\ \A i \in 1..m : i \in places => i \in 1..(m - 1)
        BY <2>1, <2>3, <2>6 DEF Ascending
      <4>2. p \in Seq(1..m)
        BY <4>1, SeqInSeq, Zenon
      <4> QED BY <2>3, <4>1, <4>2 DEF Ascending
    <3>2. Good(m, p)
      BY <2>3, <2>4, <2>6, <3>1
    <3> QED BY <1>5, <3>2
  <2>7. CASE m \in places
    <3>1. Ascending(Append(p, m), places, m)
      BY <2>1, <2>3, <2>7, AscendingMore
    <3>2. /\ p \in Seq(1..(m - 1)) /\ Len(p) \in Nat /\ p \in Seq(Nat) /\ m \in Nat
          /\ t[m - 1] \in Seq(S) /\ Len(t[m - 1]) = Len(p)
          /\ \A k \in 1..Len(p) : t[m - 1][k] = s[p[k]]
      BY <1>5, <2>3 DEF Ascending
    <3> DEFINE q == Append(p, m)
               u == Append(t[m - 1], s[m])
    <3>3. Len(q) = Len(p) + 1 /\ q[Len(p) + 1] = m /\ \A k \in 1..Len(p) : q[k] = p[k]
      BY <3>2, AppendIn
    <3>4. u \in Seq(S) /\ Len(u) = Len(p) + 1 /\ u[Len(p) + 1] = s[m] /\ \A k \in 1..Len(p) : u[k] = t[m - 1][k]
      BY <2>5, <3>2, AppendIn
    <3>5. t[m] = u
      BY <2>4, <2>7
    <3> HIDE DEF q, u
    <3>6. ASSUME NEW k \in 1..(Len(p) + 1) PROVE u[k] = s[q[k]]
      <4>1. CASE k = Len(p) + 1
        BY <3>3, <3>4, <4>1
      <4>2. CASE k # Len(p) + 1
        <5>1. k \in 1..Len(p)
          BY <3>2, <4>2
        <5> QED BY <3>2, <3>3, <3>4, <5>1, Zenon
      <4> QED BY <4>1, <4>2
    <3>7. Good(m, q)
      BY <3>1, <3>3, <3>4, <3>5, <3>6 DEF q
    <3> QED BY <1>5, <3>7
  <2> QED BY <2>6, <2>7
<1> QED BY <1>6, <1>7
==============================================================================
