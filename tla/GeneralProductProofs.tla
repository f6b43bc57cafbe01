---------------------------- MODULE GeneralProductProofs ----------------------------
(***************************************************************************)
(* What the CF option does with names that clash, for every list of names. *)
(*                                                                         *)
(* A theorem here has two assumptions besides the shape of the names: the  *)
(* names taken are finitely many, and different numbers have different     *)
(* digits (ToString is not defined by what it does in the TLC module, and  *)
(* stands for the stringstream of gen_unique_name).                        *)
(***************************************************************************)
EXTENDS GeneralProduct, ProofLemmas

\* A word is a string; that these literals are strings has to be said to the provers.
Words == STRING \cup {"Time", "Date", "lat", "lon"}
Name == Seq(Words)

Digits == \A i, j \in Nat : ToString(i) \in STRING /\ (ToString(i) = ToString(j) => i = j)

------------------------------------------------------------------------------
(***************************************************************************)
(* One name.                                                               *)
(***************************************************************************)

\* A sequence with one more element behind it.
LEMMA OneMore ==
    ASSUME NEW S, NEW s \in Seq(S), NEW x \in S
    PROVE  s \o <<x>> \in Seq(S) /\ (s \o <<x>>)[Len(s) + 1] = x
OBVIOUS

\* Two sequences one behind the other repeat nothing if neither does and they share
\* nothing.
LEMMA BothInjective ==
    ASSUME NEW S, NEW a \in Seq(S), NEW b \in Seq(S), IsInjective(a), IsInjective(b),
           \A i \in DOMAIN a, j \in DOMAIN b : a[i] # b[j]
    PROVE  IsInjective(a \o b)
<1>1. /\ Len(a) \in Nat /\ DOMAIN a = 1..Len(a) /\ Len(b) \in Nat /\ DOMAIN b = 1..Len(b)
      /\ DOMAIN (a \o b) = 1..(Len(a) + Len(b))
  OBVIOUS
<1>2. ASSUME NEW i \in 1..(Len(a) + Len(b))
      PROVE  \/ i \in DOMAIN a /\ (a \o b)[i] = a[i]
             \/ i - Len(a) \in DOMAIN b /\ (a \o b)[i] = b[i - Len(a)]
  BY <1>1
<1>3. ASSUME NEW i \in 1..(Len(a) + Len(b)), NEW j \in 1..(Len(a) + Len(b)), (a \o b)[i] = (a \o b)[j]
      PROVE  i = j
  <2> DEFINE s == a \o b
  <2>1. s[i] = s[j] /\ Len(a) \in Nat /\ i \in Int /\ j \in Int
    BY <1>1, <1>3
  <2>2. /\ (i \in DOMAIN a /\ s[i] = a[i]) \/ (i - Len(a) \in DOMAIN b /\ s[i] = b[i - Len(a)])
        /\ (j \in DOMAIN a /\ s[j] = a[j]) \/ (j - Len(a) \in DOMAIN b /\ s[j] = b[j - Len(a)])
    BY <1>2, Zenon
  <2> HIDE DEF s
  <2>3. \A k, l \in DOMAIN a : a[k] = a[l] => k = l
    BY DEF IsInjective
  <2>4. \A k, l \in DOMAIN b : b[k] = b[l] => k = l
    BY DEF IsInjective
  <2>5. i = j \/ i - Len(a) = j - Len(a)
    BY <2>1, <2>2, <2>3, <2>4, Zenon
  <2> QED BY <2>1, <2>5
<1> QED BY <1>1, <1>3 DEF IsInjective

\* Two names with different numbers behind are different.
LEMMA NumberedDiffer ==
    ASSUME Digits, NEW name \in Name, NEW i \in Nat, NEW j \in Nat,
           name \o <<ToString(i)>> = name \o <<ToString(j)>>
    PROVE  i = j
<1> DEFINE a == ToString(i)
           b == ToString(j)
<1>1. a \in Words /\ b \in Words /\ (a = b => i = j)
  BY Zenon DEF Digits, Words
<1>2. name \o <<a>> = name \o <<b>>
  OBVIOUS
<1> HIDE DEF a, b
<1>3. (name \o <<a>>)[Len(name) + 1] = a /\ (name \o <<b>>)[Len(name) + 1] = b
  BY <1>1, OneMore, Zenon DEF Name
<1> QED BY <1>1, <1>2, <1>3

\* A name with a number behind is a name.
LEMMA NumberedIsName ==
    ASSUME Digits, NEW name \in Name, NEW i \in Nat
    PROVE  name \o <<ToString(i)>> \in Name
<1> DEFINE a == ToString(i)
<1>1. a \in Words
  BY Zenon DEF Digits, Words
<1>2. name \o <<a>> \in Name
  <2> HIDE DEF a
  <2> QED BY <1>1, OneMore, Zenon DEF Name
<1> QED BY <1>2

\* The name with a number behind.
Numbered(name, new) == \E i \in Nat : new = name \o <<ToString(i)>>

\* gen_unique_name finds a name: among one number more than there are names, one
\* gives a name that is not taken.
LEMMA SomeFree ==
    ASSUME Digits, NEW name \in Name, NEW taken, IsFiniteSet(taken)
    PROVE  \E i \in 1..(Cardinality(taken) + 1) : name \o <<ToString(i)>> \notin taken
<1> DEFINE n == Cardinality(taken) + 1
           numbered == [i \in 1..n |-> name \o <<ToString(i)>>]
<1>1. Cardinality(taken) \in Nat
  BY FS_CardinalityType
<1>2. IsFiniteSet(1..n) /\ Cardinality(1..n) = n
  <2>1. n \in Int /\ 1 \in Int /\ 1 <= n
    BY <1>1
  <2>2. IsFiniteSet(1..n) /\ Cardinality(1..n) = IF 1 > n THEN 0 ELSE n - 1 + 1
    BY <2>1, FS_Interval
  <2> QED BY <2>1, <2>2
<1>3. SUFFICES ASSUME \A i \in 1..n : numbered[i] \in taken PROVE FALSE
  OBVIOUS
<1>4. numbered \in [1..n -> taken]
  BY <1>3
<1>5. \E i, j \in 1..n : i # j /\ numbered[i] = numbered[j]
  <2>1. Cardinality(taken) < Cardinality(1..n)
    BY <1>1, <1>2
  <2> HIDE DEF numbered, n
  <2> QED BY <1>2, <1>4, <2>1, FS_PigeonHole
<1>6. PICK i \in 1..n, j \in 1..n : i # j /\ numbered[i] = numbered[j]
  BY <1>5
<1>7. i \in Nat /\ j \in Nat
  BY <1>1
<1>8. name \o <<ToString(i)>> = name \o <<ToString(j)>>
  BY <1>6, Zenon
<1> QED BY <1>6, <1>7, <1>8, NumberedDiffer

\* gen_unique_name gives a name that is not taken.
LEMMA UniqueIsFree ==
    ASSUME Digits, NEW name \in Name, NEW taken, IsFiniteSet(taken)
    PROVE  /\ gen_unique_name(name, taken) \in Name /\ gen_unique_name(name, taken) \notin taken
           /\ Numbered(name, gen_unique_name(name, taken))
<1> DEFINE n == Cardinality(taken) + 1
           free == {i \in 1..n : name \o <<ToString(i)>> \notin taken}
<1>1. Cardinality(taken) \in Nat /\ n \in Nat
  BY FS_CardinalityType
<1>2. free # {}
  BY SomeFree
<1>3. free \subseteq Nat
  BY <1>1
<1>4. PICK x \in free : \A y \in free : x <= y
  BY <1>2, <1>3, MinNat
<1>5. Min(free) \in free
  <2> HIDE DEF free
  <2>1. (CHOOSE x1 \in free : \A y \in free : x1 <= y) \in free
    BY <1>4, Zenon
  <2> QED BY <2>1 DEF Min
<1>6. gen_unique_name(name, taken) = name \o <<ToString(Min(free))>>
  BY Zenon DEF gen_unique_name
<1>7. Min(free) \in Nat /\ name \o <<ToString(Min(free))>> \notin taken
  BY <1>3, <1>5, Zenon
<1>8. Numbered(name, name \o <<ToString(Min(free))>>)
  BY <1>7, Zenon DEF Numbered
<1> QED BY <1>6, <1>7, <1>8, NumberedIsName

------------------------------------------------------------------------------
(***************************************************************************)
(* A list of names.                                                        *)
(***************************************************************************)

Clashing(taken, names) ==
    {i \in DOMAIN names : names[i] \in taken \/ \E j \in 1..(i - 1) : names[j] = names[i]}

Entered(taken, names) == [taken |-> taken \cup Range(names), names |-> names]

Renaming(r, i, name) ==
    LET new == gen_unique_name(name, r.taken)
    IN [taken |-> r.taken \cup {new}, names |-> [r.names EXCEPT ![i] = new]]

\* t[i] is what there is after the first i names.
Turns(taken, names, n, t) ==
    t = [i \in 0..n |-> IF i = 0 THEN Entered(taken, names)
                        ELSE IF i \notin Clashing(taken, names) THEN t[i - 1]
                        ELSE Renaming(t[i - 1], i, names[i])]

\* After i names: the names that clash among them have new names, which are new to
\* the list and to the names taken, and all names are taken.
After(taken, names, i, r) ==
    \E u, m :
      /\ r = [taken |-> u, names |-> m]
      /\ IsFiniteSet(u) /\ m \in [1..Len(names) -> Name]
      /\ taken \subseteq u /\ Range(names) \subseteq u /\ Range(m) \subseteq u
      /\ u \subseteq taken \cup Range(names) \cup Range(m)
      /\ \A j \in 1..Len(names) : j > i \/ j \notin Clashing(taken, names) => m[j] = names[j]
      /\ \A j \in 1..Len(names) : j <= i /\ j \in Clashing(taken, names) =>
           /\ m[j] \notin taken \cup Range(names) /\ Numbered(names[j], m[j])
           /\ \A k \in 1..(j - 1) : k \in Clashing(taken, names) => m[j] # m[k]

\* The function of Handle_General_NameClashing exists.
LEMMA TurnsExist ==
    ASSUME NEW taken, NEW names, NEW n \in Nat
    PROVE  \E t : Turns(taken, names, n, t)
<1> DEFINE T == {i \in Nat : ~\E t : Turns(taken, names, i, t)}
           start == Entered(taken, names)
           Turn(r, i) == IF i \notin Clashing(taken, names) THEN r ELSE Renaming(r, i, names[i])
<1> HIDE DEF start, Turn
<1>1. SUFFICES ASSUME T # {} PROVE FALSE
  OBVIOUS
<1>2. PICK i \in T : \A j \in T : i <= j
  BY <1>1, MinNat
<1>3. ASSUME NEW k \in Nat, NEW t
      PROVE  Turns(taken, names, k, t) <=> t = [j \in 0..k |-> IF j = 0 THEN start ELSE Turn(t[j - 1], j)]
  BY DEF Turns, start, Turn
<1>4. CASE i = 0
  <2> DEFINE t == [j \in 0..0 |-> start]
  <2>1. t = [j \in 0..0 |-> IF j = 0 THEN start ELSE Turn(t[j - 1], j)]
    OBVIOUS
  <2>2. Turns(taken, names, 0, t)
    BY <1>3, <2>1
  <2> QED BY <1>2, <1>4, <2>2
<1>5. CASE i # 0
  <2>1. i \in Nat /\ i - 1 \in Nat
    BY <1>2, <1>5
  <2>2. i - 1 \notin T
    <3> HIDE DEF T
    <3> QED BY <1>2, <2>1
  <2>3. PICK s : Turns(taken, names, i - 1, s)
    BY <2>1, <2>2
  <2>4. s = [j \in 0..(i - 1) |-> IF j = 0 THEN start ELSE Turn(s[j - 1], j)]
    BY <1>3, <2>1, <2>3
  <2> DEFINE t == [j \in 0..i |-> IF j = i THEN Turn(s[i - 1], i) ELSE s[j]]
  <2>5. ASSUME NEW j \in 0..i
        PROVE  t[j] = IF j = 0 THEN start ELSE Turn(t[j - 1], j)
    BY <1>5, <2>1, <2>4
  <2>6. t = [j \in 0..i |-> IF j = 0 THEN start ELSE Turn(t[j - 1], j)]
    BY <2>5
  <2>7. Turns(taken, names, i, t)
    <3> HIDE DEF t
    <3> QED BY <1>3, <2>1, <2>6
  <2> QED BY <1>2, <2>7
<1> QED BY <1>4, <1>5

\* One name more: if it clashes, it gets a name that none has.
LEMMA AfterOne ==
    ASSUME Digits, NEW taken, NEW names \in Seq(Name), NEW i \in 1..Len(names),
           NEW r, After(taken, names, i - 1, r)
    PROVE  /\ i \notin Clashing(taken, names) => After(taken, names, i, r)
           /\ i \in Clashing(taken, names) => After(taken, names, i, Renaming(r, i, names[i]))
<1> DEFINE C == Clashing(taken, names)
<1>1. Len(names) \in Nat /\ DOMAIN names = 1..Len(names)
  OBVIOUS
<1>2. PICK u, m :
      /\ r = [taken |-> u, names |-> m]
      /\ IsFiniteSet(u) /\ m \in [1..Len(names) -> Name]
      /\ taken \subseteq u /\ Range(names) \subseteq u /\ Range(m) \subseteq u
      /\ u \subseteq taken \cup Range(names) \cup Range(m)
      /\ \A j \in 1..Len(names) : j > i - 1 \/ j \notin C => m[j] = names[j]
      /\ \A j \in 1..Len(names) : j <= i - 1 /\ j \in C =>
           /\ m[j] \notin taken \cup Range(names) /\ Numbered(names[j], m[j])
           /\ \A k \in 1..(j - 1) : k \in C => m[j] # m[k]
  BY Zenon DEF After
<1> HIDE DEF C
<1>3. ASSUME i \notin C PROVE After(taken, names, i, r)
  <2>1. \A j \in 1..Len(names) : j > i \/ j \notin C => m[j] = names[j]
    BY <1>1, <1>2
  <2>2. \A j \in 1..Len(names) : j <= i /\ j \in C => j <= i - 1
    BY <1>1, <1>3
  <2> QED BY <1>2, <2>1, <2>2, Zenon DEF After, C
<1>4. ASSUME i \in C PROVE After(taken, names, i, Renaming(r, i, names[i]))
  <2> DEFINE new == gen_unique_name(names[i], u)
             v == u \cup {new}
             w == [m EXCEPT ![i] = new]
  <2>1. names[i] \in Name
    <3> HIDE DEF Name
    <3> QED OBVIOUS
  <2>2. new \in Name /\ new \notin u /\ Numbered(names[i], new)
    BY <1>2, <2>1, UniqueIsFree
  <2>3. Renaming(r, i, names[i]) = [taken |-> v, names |-> w]
    BY <1>2 DEF Renaming
  <2> HIDE DEF new
  <2>4. w \in [1..Len(names) -> Name] /\ w[i] = new
        /\ \A j \in 1..Len(names) : j # i => w[j] = m[j]
    <3> HIDE DEF Name
    <3> QED BY <1>2, <2>2
  <2>5. IsFiniteSet(v)
    BY <1>2, FS_AddElement
  <2>6. Range(m) = {m[j] : j \in 1..Len(names)} /\ Range(w) = {w[j] : j \in 1..Len(names)}
        /\ Range(names) = {names[j] : j \in 1..Len(names)}
    BY <1>1, <1>2, <2>4 DEF Range
  <2>7. Range(w) \subseteq v
    BY <1>2, <2>4, <2>6
  <2>8. m[i] \in Range(names)
    BY <1>2, <2>6
  <2>9. v \subseteq taken \cup Range(names) \cup Range(w)
    <3>1. Range(m) \subseteq Range(names) \cup Range(w)
      BY <2>4, <2>6, <2>8
    <3>2. new \in Range(w)
      BY <2>4, <2>6
    <3> QED BY <1>2, <3>1, <3>2
  <2> HIDE DEF v, w
  <2>10. taken \subseteq v /\ Range(names) \subseteq v
    BY <1>2 DEF v
  <2>11. \A j \in 1..Len(names) : j > i \/ j \notin C => w[j] = names[j]
    BY <1>1, <1>2, <1>4, <2>4
  <2>12. ASSUME NEW j \in 1..Len(names), j <= i, j \in C
         PROVE  /\ w[j] \notin taken \cup Range(names) /\ Numbered(names[j], w[j])
                /\ \A k \in 1..(j - 1) : k \in C => w[j] # w[k]
    <3>1. CASE j = i
      <4>1. w[j] = new /\ Numbered(names[j], w[j]) /\ new \notin taken \cup Range(names) \cup Range(m)
        BY <1>2, <2>2, <2>4, <3>1
      <4>2. \A k \in 1..(j - 1) : k \in 1..Len(names) /\ w[k] = m[k] /\ m[k] \in Range(m)
        BY <1>1, <2>4, <2>6, <3>1
      <4> QED BY <4>1, <4>2
    <3>2. CASE j # i
      <4>1. j <= i - 1 /\ w[j] = m[j]
        BY <1>1, <2>4, <2>12, <3>2
      <4>2. \A k \in 1..(j - 1) : k \in 1..Len(names) /\ w[k] = m[k]
        BY <1>1, <2>4, <2>12, <3>2
      <4> QED BY <1>2, <2>12, <4>1, <4>2
    <3> QED BY <3>1, <3>2
  <2>13. After(taken, names, i, [taken |-> v, names |-> w])
    BY <2>4, <2>5, <2>7, <2>9, <2>10, <2>11, <2>12, Zenon DEF After, C
  <2> QED BY <2>3, <2>13
<1> QED BY <1>3, <1>4 DEF C

\* The names of a list that has been told apart, r being what the code leaves behind.
ToldApart(taken, names, r) ==
    /\ r.names \in Seq(Name) /\ Len(r.names) = Len(names)
    /\ IsInjective(r.names)
    /\ \A i \in 1..Len(names) : r.names[i] \notin taken
    /\ \A i \in 1..Len(names) : i \notin Clashing(taken, names) => r.names[i] = names[i]
    /\ \A i \in 1..Len(names) : r.names[i] = names[i] \/ Numbered(names[i], r.names[i])
    /\ r.taken = taken \cup Range(names) \cup Range(r.names)
    /\ IsFiniteSet(r.taken)

\* What AfterOne says holds after all names.
LEMMA AfterAll ==
    ASSUME Digits, NEW taken, IsFiniteSet(taken), NEW names \in Seq(Name)
    PROVE  After(taken, names, Len(names), Handle_General_NameClashing(taken, names))
<1> DEFINE n == Len(names)
           t == CHOOSE t : Turns(taken, names, n, t)
<1>1. n \in Nat /\ DOMAIN names = 1..n
  OBVIOUS
<1>2. Turns(taken, names, n, t)
  <2>1. \E s : Turns(taken, names, n, s)
    BY <1>1, TurnsExist
  <2> QED BY <2>1, Zenon
<1>3. Handle_General_NameClashing(taken, names) = t[n]
  BY Zenon DEF Handle_General_NameClashing, Turns, Entered, Renaming, Clashing
<1> HIDE DEF t
<1>4. t[0] = Entered(taken, names)
  <2> DEFINE e == Entered(taken, names)
             C == Clashing(taken, names)
             R(r, i) == Renaming(r, i, names[i])
  <2>1. t = [i \in 0..n |-> IF i = 0 THEN e ELSE IF i \notin C THEN t[i - 1] ELSE R(t[i - 1], i)]
    BY <1>2, Zenon DEF Turns
  <2> HIDE DEF e, C, R
  <2>2. t[0] = e
    BY <1>1, <2>1
  <2> QED BY <2>2 DEF e
<1>5. ASSUME NEW i \in 1..n
      PROVE  t[i] = IF i \notin Clashing(taken, names) THEN t[i - 1] ELSE Renaming(t[i - 1], i, names[i])
  <2> DEFINE e == Entered(taken, names)
             C == Clashing(taken, names)
             R(r, j) == Renaming(r, j, names[j])
  <2>1. t = [j \in 0..n |-> IF j = 0 THEN e ELSE IF j \notin C THEN t[j - 1] ELSE R(t[j - 1], j)]
    BY <1>2, Zenon DEF Turns
  <2> HIDE DEF e, C, R
  <2>2. t[i] = IF i \notin C THEN t[i - 1] ELSE R(t[i - 1], i)
    BY <1>1, <2>1
  <2> QED BY <2>2 DEF C, R
<1> DEFINE T == {i \in Nat : i <= n /\ ~After(taken, names, i, t[i])}
<1>6. After(taken, names, 0, t[0])
  <2>1. IsFiniteSet(taken \cup Range(names))
    <3>1. names \in Surjection(1..n, Range(names))
      BY <1>1 DEF Surjection, Range
    <3>2. IsFiniteSet(Range(names))
      <4>1. IsFiniteSet(1..n)
        BY <1>1, FS_Interval
      <4> QED BY <3>1, <4>1, FS_Surjection
    <3> QED BY <3>2, FS_Union
  <2>2. names \in [1..Len(names) -> Name]
    <3> HIDE DEF Name
    <3> QED OBVIOUS
  <2>3. \A j \in 1..Len(names) : ~(j <= 0)
    BY <1>1
  <2>4. After(taken, names, 0, Entered(taken, names))
    BY <2>1, <2>2, <2>3, Zenon DEF After, Entered
  <2> QED BY <1>4, <2>4
<1>7. SUFFICES ASSUME T # {} PROVE FALSE
  BY <1>1, <1>3
<1>8. PICK i \in T : \A j \in T : i <= j
  BY <1>7, MinNat
<1>9. i # 0
  BY <1>6, <1>8
<1>10. i \in 1..n /\ i - 1 \in Nat /\ i - 1 <= n
  BY <1>1, <1>8, <1>9
<1>11. i - 1 \notin T
  <2> HIDE DEF T
  <2> QED BY <1>8, <1>10
<1>12. After(taken, names, i - 1, t[i - 1])
  BY <1>10, <1>11
<1>13. After(taken, names, i, t[i])
  <2>1. /\ i \notin Clashing(taken, names) => After(taken, names, i, t[i - 1])
        /\ i \in Clashing(taken, names) => After(taken, names, i, Renaming(t[i - 1], i, names[i]))
    BY <1>10, <1>12, AfterOne, Zenon
  <2> QED BY <1>5, <1>10, <2>1, Zenon
<1> QED BY <1>8, <1>13

\* Handle_General_NameClashing: whatever names a list has and whatever is taken, no
\* two names of the list are equal afterwards and none is taken; a name that clashes
\* with no name taken and no earlier one stays what it is; and all names, the old
\* ones and the new ones, are taken for the next list.
THEOREM ClashingTheorem ==
    ASSUME Digits, NEW taken, IsFiniteSet(taken), NEW names \in Seq(Name)
    PROVE  ToldApart(taken, names, Handle_General_NameClashing(taken, names))
<1> DEFINE n == Len(names)
           C == Clashing(taken, names)
<1>1. PICK u, m :
      /\ Handle_General_NameClashing(taken, names) = [taken |-> u, names |-> m]
      /\ IsFiniteSet(u) /\ m \in [1..Len(names) -> Name]
      /\ taken \subseteq u /\ Range(names) \subseteq u /\ Range(m) \subseteq u
      /\ u \subseteq taken \cup Range(names) \cup Range(m)
      /\ \A j \in 1..Len(names) : j > n \/ j \notin C => m[j] = names[j]
      /\ \A j \in 1..Len(names) : j <= n /\ j \in C =>
           /\ m[j] \notin taken \cup Range(names) /\ Numbered(names[j], m[j])
           /\ \A k \in 1..(j - 1) : k \in C => m[j] # m[k]
  BY AfterAll, Zenon DEF After
<1>2. n \in Nat /\ DOMAIN names = 1..n
  OBVIOUS
<1>3. m \in Seq(Name) /\ Len(m) = n /\ DOMAIN m = 1..n
  <2> HIDE DEF Name
  <2> QED BY <1>1, <1>2
<1>4. u = taken \cup Range(names) \cup Range(m)
  BY <1>1
<1>5. \A j \in 1..n : names[j] \in Range(names)
  BY <1>2 DEF Range
<1>6. \A j \in 1..n : j \notin C => names[j] \notin taken /\ \A k \in 1..(j - 1) : names[k] # names[j]
  BY <1>2 DEF Clashing
<1> HIDE DEF C
<1>7. \A j \in 1..n : m[j] \notin taken
  BY <1>1, <1>2, <1>6
<1>8. ASSUME NEW j \in 1..n, NEW k \in 1..n, k < j PROVE m[j] # m[k]
  <2>1. k \in 1..(j - 1)
    BY <1>2, <1>8
  <2>2. CASE j \in C /\ k \in C
    BY <1>1, <1>2, <2>1, <2>2
  <2>3. CASE j \in C /\ k \notin C
    BY <1>1, <1>2, <1>5, <2>3
  <2>4. CASE j \notin C /\ k \in C
    BY <1>1, <1>2, <1>5, <2>4
  <2>5. CASE j \notin C /\ k \notin C
    BY <1>1, <1>2, <1>6, <2>1, <2>5
  <2> QED BY <2>2, <2>3, <2>4, <2>5
<1>9. IsInjective(m)
  <2>1. ASSUME NEW j \in 1..n, NEW k \in 1..n, m[j] = m[k] PROVE j = k
    <3>1. j \in Int /\ k \in Int
      OBVIOUS
    <3>2. ~(k < j) /\ ~(j < k)
      BY <1>8, <2>1
    <3> QED BY <3>1, <3>2
  <2> QED BY <1>3, <2>1 DEF IsInjective
<1>10. ToldApart(taken, names, [taken |-> u, names |-> m])
  BY <1>1, <1>2, <1>3, <1>4, <1>7, <1>9 DEF ToldApart, C
<1> QED BY <1>1, <1>10

\* Handle_Obj_NameClashing of both kinds of products: the names of the coordinate
\* variables are told apart first, then those of the variables from them and from
\* each other.  No two variables of either list have one name afterwards, and a
\* coordinate variable keeps its name against every variable.
THEOREM TwoListsTheorem ==
    ASSUME Digits, NEW cvs \in Seq(Name), NEW vs \in Seq(Name)
    PROVE  LET c == Handle_General_NameClashing({}, cvs)
               v == Handle_General_NameClashing(c.taken, vs)
           IN  /\ v.names \in Seq(Name) /\ c.names \in Seq(Name)
               /\ IsInjective(v.names \o c.names)
               /\ \A i \in 1..Len(cvs) : (\A j \in 1..(i - 1) : cvs[j] # cvs[i]) => c.names[i] = cvs[i]
<1> DEFINE c == Handle_General_NameClashing({}, cvs)
           v == Handle_General_NameClashing(c.taken, vs)
<1>1. IsFiniteSet({})
  BY FS_EmptySet
<1>2. ToldApart({}, cvs, c)
  BY <1>1, ClashingTheorem, Zenon
<1>3. IsFiniteSet(c.taken) /\ Range(c.names) \subseteq c.taken
  BY <1>2 DEF ToldApart
<1>4. ToldApart(c.taken, vs, v)
  BY <1>3, ClashingTheorem, Zenon
<1> HIDE DEF c, v
<1>5. /\ v.names \in Seq(Name) /\ IsInjective(v.names) /\ Len(v.names) = Len(vs)
      /\ c.names \in Seq(Name) /\ IsInjective(c.names) /\ Len(c.names) = Len(cvs)
  BY <1>2, <1>4 DEF ToldApart
<1> DEFINE a == v.names
           b == c.names
<1>6. Len(a) \in Nat /\ DOMAIN a = 1..Len(a) /\ Len(b) \in Nat /\ DOMAIN b = 1..Len(b)
  <2> HIDE DEF Name
  <2> QED BY <1>5
<1>7. \A i \in DOMAIN a, j \in DOMAIN b : a[i] # b[j]
  <2>1. \A i \in DOMAIN a : a[i] \notin c.taken
    BY <1>4, <1>5, <1>6 DEF ToldApart
  <2>2. \A j \in DOMAIN b : b[j] \in c.taken
    BY <1>3 DEF Range
  <2> QED BY <2>1, <2>2
<1>8. IsInjective(a \o b)
  BY <1>5, <1>6, <1>7, BothInjective
<1>9. \A i \in 1..Len(cvs) : (\A j \in 1..(i - 1) : cvs[j] # cvs[i]) => c.names[i] = cvs[i]
  <2>1. \A i \in 1..Len(cvs) : (\A j \in 1..(i - 1) : cvs[j] # cvs[i]) => i \notin Clashing({}, cvs)
    BY DEF Clashing
  <2> QED BY <1>2, <2>1 DEF ToldApart
<1> QED BY <1>5, <1>8, <1>9 DEF c, v

\* What two sequences one behind the other hold.
LEMMA ConcatRange ==
    ASSUME NEW S, NEW a \in Seq(S), NEW b \in Seq(S), NEW w
    PROVE  a \o b \in Seq(S) /\ (w \in Range(a \o b) <=> w \in Range(a) \/ w \in Range(b))
<1>1. /\ Len(a) \in Nat /\ DOMAIN a = 1..Len(a) /\ Len(b) \in Nat /\ DOMAIN b = 1..Len(b)
      /\ DOMAIN (a \o b) = 1..(Len(a) + Len(b)) /\ a \o b \in Seq(S)
      /\ \A i \in 1..Len(a) : (a \o b)[i] = a[i]
      /\ \A i \in 1..Len(b) : (a \o b)[i + Len(a)] = b[i]
  OBVIOUS
<1> DEFINE s == a \o b
<1> HIDE DEF s
<1>2. ASSUME w \in Range(s) PROVE w \in Range(a) \/ w \in Range(b)
  <2>1. PICK i \in 1..(Len(a) + Len(b)) : s[i] = w
    BY <1>1, <1>2 DEF Range, s
  <2>2. CASE i <= Len(a)
    BY <1>1, <2>1, <2>2 DEF Range, s
  <2>3. CASE i > Len(a)
    <3>1. i - Len(a) \in 1..Len(b) /\ i - Len(a) + Len(a) = i
      BY <1>1, <2>3
    <3>2. b[i - Len(a)] = w
      BY <1>1, <2>1, <3>1 DEF s
    <3> QED BY <1>1, <3>1, <3>2 DEF Range
  <2> QED BY <1>1, <2>2, <2>3
<1>3. ASSUME w \in Range(a) PROVE w \in Range(s)
  <2>1. PICK i \in 1..Len(a) : a[i] = w
    BY <1>1, <1>3 DEF Range
  <2>2. i \in 1..(Len(a) + Len(b)) /\ s[i] = w
    BY <1>1, <2>1 DEF s
  <2> QED BY <1>1, <2>2 DEF Range, s
<1>4. ASSUME w \in Range(b) PROVE w \in Range(s)
  <2>1. PICK i \in 1..Len(b) : b[i] = w
    BY <1>1, <1>4 DEF Range
  <2>2. i + Len(a) \in 1..(Len(a) + Len(b)) /\ s[i + Len(a)] = w
    BY <1>1, <2>1 DEF s
  <2> QED BY <1>1, <2>2 DEF Range, s
<1> QED BY <1>1, <1>2, <1>3, <1>4 DEF s

\* The steps of FlattenSeq.
LEMMA FlattenBy ==
    ASSUME NEW s, Len(s) \in Nat \ {0}
    PROVE  \E t : /\ FlattenSeq(s) = t[Len(s)]
                  /\ \A i \in 1..Len(s) : t[i] = IF i = 1 THEN s[i] ELSE t[i - 1] \o s[i]
<1> DEFINE n == Len(s)
           More(u, i) == u \o s[i]
           Upto(m, t) == t = [i \in 1..m |-> IF i = 1 THEN s[i] ELSE More(t[i - 1], i)]
           t == CHOOSE t : Upto(n, t)
<1>1. n \in Nat /\ n # 0
  OBVIOUS
<1>2. FlattenSeq(s) = t[n]
  BY <1>1, Zenon DEF FlattenSeq
<1> HIDE DEF More
<1>3. \E u : Upto(n, u)
  <2> DEFINE T == {m \in Nat : ~\E u : Upto(m, u)}
  <2>1. SUFFICES ASSUME T # {} PROVE FALSE
    BY <1>1
  <2>2. PICK m \in T : \A j \in T : m <= j
    BY <2>1, MinNat
  <2>3. CASE m = 0
    <3> DEFINE u == [i \in 1..0 |-> <<>>]
    <3>1. Upto(0, u)
      OBVIOUS
    <3> QED BY <2>2, <2>3, <3>1
  <2>4. CASE m # 0
    <3>1. m \in Nat /\ m - 1 \in Nat
      BY <2>2, <2>4
    <3>2. m - 1 \notin T
      <4> HIDE DEF T
      <4> QED BY <2>2, <3>1
    <3>3. PICK v : Upto(m - 1, v)
      BY <3>1, <3>2
    <3> DEFINE u == [i \in 1..m |-> IF i = m THEN IF m = 1 THEN s[m] ELSE More(v[m - 1], m) ELSE v[i]]
    <3>4. ASSUME NEW i \in 1..m
          PROVE  u[i] = IF i = 1 THEN s[i] ELSE More(u[i - 1], i)
      BY <2>4, <3>1, <3>3
    <3>5. Upto(m, u)
      BY <3>4
    <3> QED BY <2>2, <3>5
  <2> QED BY <2>3, <2>4
<1>4. Upto(n, t)
  BY <1>3, Zenon
<1> HIDE DEF t
<1>5. \A i \in 1..n : t[i] = IF i = 1 THEN s[i] ELSE t[i - 1] \o s[i]
  BY <1>4, Zenon DEF More
<1> QED BY <1>2, <1>5

\* FlattenSeq gives a sequence over the same set, with the elements of all its parts.
LEMMA FlattenIs ==
    ASSUME NEW S, NEW s \in Seq(Seq(S))
    PROVE  /\ FlattenSeq(s) \in Seq(S)
           /\ \A w : w \in Range(FlattenSeq(s)) <=> \E i \in 1..Len(s) : w \in Range(s[i])
<1>1. Len(s) \in Nat /\ \A i \in 1..Len(s) : s[i] \in Seq(S)
  OBVIOUS
<1>2. CASE Len(s) = 0
  <2>1. FlattenSeq(s) = s
    BY <1>2, Zenon DEF FlattenSeq
  <2>2. s = <<>> /\ s \in Seq(S) /\ DOMAIN s = {}
    BY <1>2
  <2>3. \A w : w \notin Range(s)
    BY <2>2 DEF Range
  <2> QED BY <1>2, <2>1, <2>2, <2>3
<1>3. CASE Len(s) # 0
  <2>1. PICK t : /\ FlattenSeq(s) = t[Len(s)]
                 /\ \A i \in 1..Len(s) : t[i] = IF i = 1 THEN s[i] ELSE t[i - 1] \o s[i]
    BY <1>1, <1>3, FlattenBy
  <2> DEFINE Good(m) == /\ t[m] \in Seq(S)
                        /\ \A w : w \in Range(t[m]) <=> \E i \in 1..m : w \in Range(s[i])
             T == {m \in Nat : m \in 1..Len(s) /\ ~Good(m)}
  <2>2. SUFFICES ASSUME T # {} PROVE FALSE
    <3>1. Len(s) \in Nat /\ Len(s) \in 1..Len(s)
      BY <1>1, <1>3
    <3>2. ASSUME T = {} PROVE Good(Len(s))
      <4> HIDE DEF Good
      <4> QED BY <3>1, <3>2
    <3> QED BY <2>1, <3>2, Zenon
  <2>3. PICK m \in T : \A j \in T : m <= j
    BY <2>2, MinNat
  <2>4. m \in Nat /\ m \in 1..Len(s) /\ ~Good(m)
    BY <2>3
  <2>5. CASE m = 1
    <3>1. t[m] = s[m] /\ s[m] \in Seq(S)
      BY <1>1, <2>1, <2>4, <2>5
    <3>2. Good(m)
      BY <2>5, <3>1
    <3> QED BY <2>4, <3>2
  <2>6. CASE m # 1
    <3>1. m - 1 \in Nat /\ m - 1 \in 1..Len(s)
      BY <1>1, <2>4, <2>6
    <3>2. m - 1 \notin T
      <4> HIDE DEF T
      <4> QED BY <2>3, <2>4, <3>1
    <3>3. Good(m - 1)
      <4> HIDE DEF Good
      <4> QED BY <3>1, <3>2
    <3>4. t[m] = t[m - 1] \o s[m] /\ s[m] \in Seq(S)
      BY <1>1, <2>1, <2>4, <2>6
    <3>5. t[m] \in Seq(S) /\ \A w : w \in Range(t[m]) <=> w \in Range(t[m - 1]) \/ w \in Range(s[m])
      <4> DEFINE a == t[m - 1]
                 b == s[m]
      <4>1. a \in Seq(S) /\ b \in Seq(S) /\ t[m] = a \o b
        BY <3>3, <3>4
      <4> HIDE DEF a, b
      <4>2. \A w : a \o b \in Seq(S) /\ (w \in Range(a \o b) <=> w \in Range(a) \/ w \in Range(b))
        BY <4>1, ConcatRange
      <4> QED BY <4>1, <4>2, Zenon DEF a, b
    <3>6. \A i : i \in 1..m <=> i \in 1..(m - 1) \/ i = m
      BY <2>4, <2>6
    <3>7. \A w : w \in Range(t[m]) <=> \E i \in 1..m : w \in Range(s[i])
      BY <3>3, <3>5, <3>6, Zenon
    <3> QED BY <2>4, <3>5, <3>7
  <2> QED BY <2>5, <2>6
<1> QED BY <1>2, <1>3

------------------------------------------------------------------------------
(***************************************************************************)
(* Lists of variables.                                                     *)
(***************************************************************************)

Fields == {"path", "scale", "dimlist", "units", "type", "coordinates", "addpath", "dimnames", "newname", "role", "cfdimname",
           "dims"}

IsRecord(v) == v = [f \in Fields |-> v[f]]

IsList(s) == s \in Seq(Range(s))

EosWords == {"HDFEOS", "HDFEOS_INFORMATION"}

\* A variable whose name is a path still: no component of the name has one of these
\* words unless the path has.
EarlyVar(v, type) ==
    /\ IsRecord(v) /\ v.path \in Seq(Name) /\ v.newname \in Seq(Name)
    /\ type # "Aqu_L3" => v.path # <<>> /\ v.newname # <<>>
    /\ KeepsName(v) => \A w \in EosWords : \A i \in 1..Len(v.newname) : w \notin Range(v.newname[i])

\* One whose name is a DAP name.
FlatVar(v) ==
    /\ IsRecord(v) /\ v.newname \in Name
    /\ KeepsName(v) => \A w \in EosWords : w \notin Range(v.newname)

\* One whose name may have been changed.
LateVar(v) == IsRecord(v) /\ (KeepsName(v) => \A w \in EosWords : w \notin Range(v.newname))

EarlyList(s, type) == IsList(s) /\ \A i \in 1..Len(s) : EarlyVar(s[i], type)
FlatList(s)        == IsList(s) /\ \A i \in 1..Len(s) : FlatVar(s[i])
LateList(s)        == IsList(s) /\ \A i \in 1..Len(s) : LateVar(s[i])

\* The positions of a list.
LEMMA ListIs ==
    ASSUME NEW s, IsList(s)
    PROVE  Len(s) \in Nat /\ DOMAIN s = 1..Len(s) /\ s = [i \in 1..Len(s) |-> s[i]]
           /\ Range(s) = {s[i] : i \in 1..Len(s)}
BY DEF IsList, Range

\* A function on 1..n is a list.
LEMMA FunctionIsList ==
    ASSUME NEW n \in Nat, NEW s, s = [i \in 1..n |-> s[i]]
    PROVE  IsList(s) /\ Len(s) = n
<1>1. Range(s) = {s[i] : i \in 1..n}
  BY DEF Range
<1>2. s \in [1..n -> Range(s)]
  BY <1>1
<1>3. s \in Seq(Range(s)) /\ Len(s) = n
  <2> DEFINE R == Range(s)
  <2>1. s \in [1..n -> R]
    BY <1>2
  <2> HIDE DEF R
  <2>2. s \in Seq(R) /\ Len(s) = n
    BY <2>1
  <2> QED BY <2>2 DEF R
<1> QED BY <1>3 DEF IsList

\* A sequence over a set is a list of members of it.
LEMMA SeqIsList ==
    ASSUME NEW S, NEW s \in Seq(S)
    PROVE  IsList(s) /\ \A i \in 1..Len(s) : s[i] \in S
<1>1. Len(s) \in Nat /\ s = [i \in 1..Len(s) |-> s[i]] /\ \A i \in 1..Len(s) : s[i] \in S
  OBVIOUS
<1> QED BY <1>1, FunctionIsList, Zenon

\* The empty list is one.
LEMMA EmptyIsList ==
    IsList(<<>>) /\ Len(<<>>) = 0
<1>1. <<>> \in Seq({})
  OBVIOUS
<1> QED BY <1>1, SeqIsList

\* What is made of a list by changing its elements.
LEMMA MappedIsList ==
    ASSUME NEW s, IsList(s), NEW t, t = [i \in DOMAIN s |-> t[i]]
    PROVE  IsList(t) /\ Len(t) = Len(s)
<1>1. Len(s) \in Nat /\ t = [i \in 1..Len(s) |-> t[i]]
  BY ListIs
<1> QED BY <1>1, FunctionIsList, Zenon

\* The elements of new are elements of old, each at most as often.
PartOf(new, old) ==
    /\ IsList(new)
    /\ \E p : /\ p \in [1..Len(new) -> 1..Len(old)] /\ IsInjective(p)
              /\ \A k \in 1..Len(new) : new[k] = old[p[k]]

\* What is left of a list.
LEMMA ElementsArePart ==
    ASSUME NEW s, IsList(s), NEW places
    PROVE  PartOf(ElementsAt(s, places), s)
<1> DEFINE e == ElementsAt(s, places)
<1>1. e \in Seq(Range(s)) /\ ListsAt(e, s, places)
  BY ElementsAtIs, Zenon DEF IsList
<1>2. IsList(e)
  BY <1>1, SeqIsList, Zenon
<1>3. PICK p : /\ Ascending(p, places, Len(s)) /\ Len(e) = Len(p)
               /\ \A k \in 1..Len(p) : e[k] = s[p[k]]
  BY <1>1, Zenon DEF ListsAt
<1> HIDE DEF e
<1>4. Len(s) \in Nat /\ p \in Seq(1..Len(s)) /\ \A k, l \in 1..Len(p) : k < l => p[k] < p[l]
  BY <1>3, ListIs, Zenon DEF Ascending
<1>5. Len(p) \in Nat /\ p \in [1..Len(e) -> 1..Len(s)]
  BY <1>3, <1>4
<1>6. IsInjective(p)
  <2>1. DOMAIN p = 1..Len(p) /\ \A k \in 1..Len(p) : p[k] \in Int
    BY <1>4
  <2>2. ASSUME NEW k \in 1..Len(p), NEW l \in 1..Len(p), p[k] = p[l] PROVE k = l
    BY <1>4, <1>5, <2>1, <2>2
  <2> QED BY <2>1, <2>2 DEF IsInjective
<1>7. PartOf(e, s)
  BY <1>2, <1>3, <1>5, <1>6, Zenon DEF PartOf
<1> QED BY <1>7 DEF e

\* Part of a list of variables of a kind is one.
LEMMA PartOfEarly ==
    ASSUME NEW old, NEW type, EarlyList(old, type), NEW new, PartOf(new, old)
    PROVE  EarlyList(new, type)
<1>1. PICK p : /\ p \in [1..Len(new) -> 1..Len(old)] /\ IsInjective(p)
               /\ \A k \in 1..Len(new) : new[k] = old[p[k]]
  BY Zenon DEF PartOf
<1>2. \A k \in 1..Len(new) : EarlyVar(new[k], type)
  BY <1>1, Zenon DEF EarlyList
<1> QED BY <1>2, Zenon DEF EarlyList, PartOf

\* One list behind another.
LEMMA ConcatIs ==
    ASSUME NEW a, IsList(a), NEW b, IsList(b)
    PROVE  /\ IsList(a \o b) /\ Len(a \o b) = Len(a) + Len(b) /\ DOMAIN (a \o b) = 1..(Len(a) + Len(b))
           /\ Len(a) \in Nat /\ Len(b) \in Nat
           /\ \A i \in 1..Len(a) : (a \o b)[i] = a[i]
           /\ \A i \in 1..Len(b) : (a \o b)[Len(a) + i] = b[i]
           /\ \A i \in 1..(Len(a) + Len(b)) : \/ i \in 1..Len(a) /\ (a \o b)[i] = a[i]
                                              \/ i - Len(a) \in 1..Len(b) /\ (a \o b)[i] = b[i - Len(a)]
<1> DEFINE S == Range(a) \cup Range(b)
<1>1. a \in Seq(S) /\ b \in Seq(S)
  <2>1. a \in Seq(Range(a)) /\ b \in Seq(Range(b)) /\ Range(a) \subseteq S /\ Range(b) \subseteq S
    BY DEF IsList
  <2> HIDE DEF S
  <2> QED BY <2>1, SeqInSeq
<1> HIDE DEF S
<1>2. a \o b \in Seq(S)
  BY <1>1
<1>3. IsList(a \o b)
  BY <1>2, SeqIsList, Zenon
<1>4. /\ Len(a \o b) = Len(a) + Len(b) /\ DOMAIN (a \o b) = 1..(Len(a) + Len(b))
      /\ Len(a) \in Nat /\ Len(b) \in Nat
      /\ \A i \in 1..Len(a) : (a \o b)[i] = a[i]
      /\ \A i \in 1..Len(b) : (a \o b)[Len(a) + i] = b[i]
  BY <1>1
<1>5. ASSUME NEW i \in 1..(Len(a) + Len(b))
      PROVE  \/ i \in 1..Len(a) /\ (a \o b)[i] = a[i]
             \/ i - Len(a) \in 1..Len(b) /\ (a \o b)[i] = b[i - Len(a)]
  BY <1>1
<1> QED BY <1>3, <1>4, <1>5

\* Two lists of variables whose names are paths, one behind the other, are one.
LEMMA ConcatEarly ==
    ASSUME NEW type, NEW a, EarlyList(a, type), NEW b, EarlyList(b, type)
    PROVE  EarlyList(a \o b, type)
<1>1. /\ IsList(a \o b) /\ Len(a \o b) = Len(a) + Len(b)
      /\ \A i \in 1..(Len(a) + Len(b)) : \/ i \in 1..Len(a) /\ (a \o b)[i] = a[i]
                                         \/ i - Len(a) \in 1..Len(b) /\ (a \o b)[i] = b[i - Len(a)]
  BY ConcatIs, Zenon DEF EarlyList
<1>2. \A i \in 1..Len(a \o b) : EarlyVar((a \o b)[i], type)
  BY <1>1, Zenon DEF EarlyList
<1> QED BY <1>1, <1>2, Zenon DEF EarlyList

\* A change of a variable that leaves its path and its name.
SameName(v, w) == IsRecord(w) /\ w.path = v.path /\ w.newname = v.newname

\* A change of a list that leaves the paths and the names of its variables.
NamesKept(old, new) ==
    /\ new = [i \in DOMAIN old |-> new[i]]
    /\ \A i \in DOMAIN old : IsRecord(old[i]) => SameName(old[i], new[i])

\* Whether a name is changed is seen from the path.
LEMMA SamePathKeeps ==
    ASSUME NEW v, NEW w, w.path = v.path
    PROVE  KeepsName(w) <=> KeepsName(v)
BY DEF KeepsName, IsNonCoord

\* A change that leaves paths and names leaves variables whose names are paths.
LEMMA KeptEarly ==
    ASSUME NEW type, NEW old, EarlyList(old, type), NEW new, NamesKept(old, new)
    PROVE  EarlyList(new, type)
<1>1. IsList(new) /\ Len(new) = Len(old) /\ DOMAIN old = 1..Len(old)
  BY MappedIsList, ListIs, Zenon DEF NamesKept, EarlyList
<1>2. ASSUME NEW i \in 1..Len(new) PROVE EarlyVar(new[i], type)
  <2>1. EarlyVar(old[i], type) /\ SameName(old[i], new[i])
    BY <1>1, Zenon DEF NamesKept, EarlyList, EarlyVar
  <2>2. KeepsName(new[i]) <=> KeepsName(old[i])
    BY <2>1, SamePathKeeps, Zenon DEF SameName
  <2>3. IsRecord(new[i]) /\ new[i].newname = old[i].newname /\ new[i].path = old[i].path
    BY <2>1, Zenon DEF SameName
  <2> QED BY <2>1, <2>2, <2>3, Zenon DEF EarlyVar
<1> QED BY <1>1, <1>2, Zenon DEF EarlyList

\* Two such changes are one.
LEMMA KeptTwice ==
    ASSUME NEW s, NEW t, NEW u, NamesKept(s, t), NamesKept(t, u)
    PROVE  NamesKept(s, u)
<1>1. DOMAIN t = DOMAIN s /\ u = [i \in DOMAIN s |-> u[i]]
  BY Zenon DEF NamesKept
<1>2. ASSUME NEW i \in DOMAIN s, IsRecord(s[i]) PROVE SameName(s[i], u[i])
  <2>1. SameName(s[i], t[i])
    BY <1>2, Zenon DEF NamesKept
  <2>2. SameName(t[i], u[i])
    BY <1>1, <2>1, Zenon DEF NamesKept, SameName
  <2> QED BY <2>1, <2>2 DEF SameName
<1> QED BY <1>1, <1>2, Zenon DEF NamesKept

\* No change is one.
LEMMA AllKept ==
    ASSUME NEW s, IsList(s)
    PROVE  NamesKept(s, s)
<1>1. s = [i \in DOMAIN s |-> s[i]]
  BY ListIs
<1> QED BY <1>1, Zenon DEF NamesKept, SameName

\* Changes of fields that are not the name or the path.
LEMMA WithDimsKept ==
    ASSUME NEW v, IsRecord(v), NEW ds
    PROVE  SameName(v, [v EXCEPT !.dims = ds])
BY DEF SameName, IsRecord, Fields

\* A new attribute coordinates leaves the name, whether or not Add_Path_Coord_Attr is
\* still to change it.
LEMMA WithCoordinatesKept ==
    ASSUME NEW v, IsRecord(v), NEW cs
    PROVE  SameName(v, [v EXCEPT !.coordinates = cs]) /\ SameName(v, [v EXCEPT !.coordinates = cs, !.addpath = FALSE])
BY DEF SameName, IsRecord, Fields

------------------------------------------------------------------------------
(***************************************************************************)
(* Naming dimensions changes no variable's name.                           *)
(***************************************************************************)

\* Other dimensions leave the names of the variables.
LEMMA GivenDims ==
    ASSUME NEW vs, NEW ds
    PROVE  NamesKept(vs, [i \in DOMAIN vs |-> [vs[i] EXCEPT !.dims = ds[i].dims]])
<1> DEFINE new == [i \in DOMAIN vs |-> [vs[i] EXCEPT !.dims = ds[i].dims]]
<1>1. new = [i \in DOMAIN vs |-> new[i]]
  OBVIOUS
<1>2. \A i \in DOMAIN vs : IsRecord(vs[i]) => SameName(vs[i], new[i])
  <2>1. ASSUME NEW i \in DOMAIN vs, IsRecord(vs[i]) PROVE SameName(vs[i], [vs[i] EXCEPT !.dims = ds[i].dims])
    BY <2>1, WithDimsKept
  <2> QED BY <2>1, Zenon
<1> QED BY <1>1, <1>2, Zenon DEF NamesKept

\* What NameDims gives.
LEMMA NamedIs ==
    ASSUME NEW vs, NEW ds, NEW bk
    PROVE  NamesKept(vs, [book |-> bk, vars |-> [i \in DOMAIN vs |-> [vs[i] EXCEPT !.dims = ds[i].dims]]].vars)
BY GivenDims

\* So they do when the product is refused.
LEMMA FailedIs ==
    ASSUME NEW vs, NEW ds, NEW bk, NEW f
    PROVE  LET named == [book |-> bk, vars |-> [i \in DOMAIN vs |-> [vs[i] EXCEPT !.dims = ds[i].dims]]] IN
           NamesKept(vs, [named EXCEPT !.book.failed = f].vars)
BY GivenDims

\* Add_Dim_Name_Mea_SeaWiFS changes no name of a variable.
LEMMA MeaSeaWiFSKept ==
    ASSUME NEW bk, NEW vs
    PROVE  NamesKept(vs, Add_Dim_Name_Mea_SeaWiFS(bk, vs).vars)
BY FailedIs, Zenon DEF Add_Dim_Name_Mea_SeaWiFS, NameDims

\* Nor does Add_Dim_Name_Dimscale_General_Product.
LEMMA DimscaleKept ==
    ASSUME NEW bk, NEW vs
    PROVE  NamesKept(vs, Add_Dim_Name_Dimscale_General_Product(bk, vs).vars)
BY FailedIs, Zenon DEF Add_Dim_Name_Dimscale_General_Product, NameDims

\* Nor do names that are given by sizes.
LEMMA BySizeKept ==
    ASSUME NEW bk, NEW vs, NEW names
    PROVE  NamesKept(vs, NamesBySize(bk, vs, names).vars)
BY NamedIs, Zenon DEF NamesBySize, NameDims

\* Nor does Add_Dim_Name_LatLon1D_Or_CoordAttr.
LEMMA LatLon1DKept ==
    ASSUME NEW bk, NEW vs
    PROVE  NamesKept(vs, Add_Dim_Name_LatLon1D_Or_CoordAttr(bk, vs).vars)
BY NamedIs, Zenon DEF Add_Dim_Name_LatLon1D_Or_CoordAttr, NameDims

\* Nor does Add_Dim_Name_GPM.
LEMMA GPMKept ==
    ASSUME NEW bk, NEW vs
    PROVE  NamesKept(vs, Add_Dim_Name_GPM(bk, vs).vars)
BY NamedIs, Zenon DEF Add_Dim_Name_GPM, NameDims

\* Nor does Add_Dim_Name_OSMAPL2S.
LEMMA OSMAPL2SKept ==
    ASSUME NEW bk, NEW vs, IsList(vs)
    PROVE  NamesKept(vs, Add_Dim_Name_OSMAPL2S(bk, vs).vars)
BY BySizeKept, AllKept DEF Add_Dim_Name_OSMAPL2S

\* Nor does Add_Dim_Name_Mea_Ozonel3z.
LEMMA OzoneKept ==
    ASSUME NEW bk, NEW vs, IsList(vs), NEW gs
    PROVE  NamesKept(vs, Add_Dim_Name_Mea_Ozonel3z(bk, vs, gs).vars)
BY BySizeKept, MeaSeaWiFSKept, AllKept DEF Add_Dim_Name_Mea_Ozonel3z

\* A variable that gets the dimensions of the latitude keeps its name.
LEMMA SharedKept ==
    ASSUME NEW v, IsRecord(v), NEW at, NEW a, NEW b
    PROVE  SameName(v, IF at = <<>> THEN v ELSE [v EXCEPT !.dims[at[1]].name = a, !.dims[at[2]].name = b])
BY DEF SameName, IsRecord, Fields

\* So do all of them.
LEMMA ShareKept ==
    ASSUME NEW vs, NEW lat
    PROVE  NamesKept(vs, ShareLatDims(vs, lat))
<1> DEFINE new == ShareLatDims(vs, lat)
<1>1. new = [i \in DOMAIN vs |-> new[i]]
  BY DEF ShareLatDims
<1>2. ASSUME NEW i \in DOMAIN vs, IsRecord(vs[i]) PROVE SameName(vs[i], new[i])
  <2> DEFINE at == LatDimsOf(vs[i], Size(lat, 1), Size(lat, 2))
             w == IF at = <<>> THEN vs[i]
                  ELSE [vs[i] EXCEPT !.dims[at[1]].name = lat.dims[1].name, !.dims[at[2]].name = lat.dims[2].name]
  <2>1. new[i] = w
    BY Zenon DEF ShareLatDims
  <2>2. SameName(vs[i], w)
    <3> HIDE DEF at
    <3> QED BY <1>2, SharedKept
  <2> QED BY <2>1, <2>2, Zenon
<1> QED BY <1>1, <1>2, Zenon DEF NamesKept

\* Numbering the dimensions changes no name of a variable.
LEMMA NumberKept ==
    ASSUME NEW vs, NEW inuse
    PROVE  NamesKept(vs, NumberDims(vs, inuse))
BY DEF NumberDims, NamesKept, SameName, IsRecord, Fields

\* Nor does Add_Dim_Name_LatLon2D_General_Product.
LEMMA LatLon2DKept ==
    ASSUME NEW bk, NEW vs, IsList(vs), NEW latname
    PROVE  NamesKept(vs, Add_Dim_Name_LatLon2D_General_Product(bk, vs, latname).vars)
<1> DEFINE fake == Add_Dim_Name_LatLon1D_Or_CoordAttr(bk, vs)
           lats == {i \in DOMAIN vs : NameOf(vs[i].path) = latname}
           shared == ShareLatDims(fake.vars, fake.vars[Max(lats)])
           inuse == InOrder(UNION {{d.name : d \in Range(v.dims)} : v \in Range(shared)})
           numbered == NumberDims(shared, inuse)
           made == Add_Dim_Name_LatLon2D_General_Product(bk, vs, latname)
<1>1. made.vars = vs \/ made.vars = numbered
  <2> DEFINE b == EnterDims([fake.book EXCEPT !.dimnamelist = {}, !.size = <<>>, !.unlimited = <<>>], numbered)
  <2>1. \/ made = [book |-> [bk EXCEPT !.failed = TRUE], vars |-> vs]
        \/ made = [book |-> b, vars |-> numbered]
    BY Zenon DEF Add_Dim_Name_LatLon2D_General_Product
  <2> HIDE DEF b, numbered, made
  <2> QED BY <2>1
<1>2. NamesKept(vs, fake.vars)
  BY LatLon1DKept
<1> HIDE DEF fake, inuse
<1>3. NamesKept(fake.vars, shared) /\ NamesKept(shared, numbered)
  BY ShareKept, NumberKept
<1> HIDE DEF shared, numbered, made
<1>4. NamesKept(vs, numbered)
  BY <1>2, <1>3, KeptTwice, Zenon
<1> QED BY <1>1, <1>4, AllKept DEF made

\* Nor does Add_Dim_Name_Aqu_L3.
LEMMA AquKept ==
    ASSUME NEW bk, NEW vs, IsList(vs)
    PROVE  NamesKept(vs, Add_Dim_Name_Aqu_L3(bk, vs).vars)
BY DEF Add_Dim_Name_Aqu_L3, NamesKept, SameName, IsRecord, Fields

\* Nor does Add_Dim_Name_General_Product, by whatever pattern.
LEMMA GeneralDimsKept ==
    ASSUME IsList(vars), NEW p
    PROVE  NamesKept(vars, Add_Dim_Name_General_Product(p).vars)
<1>1. NamesKept(vars, [book |-> book, vars |-> vars].vars)
  BY AllKept
<1> QED BY <1>1, DimscaleKept, LatLon2DKept, LatLon1DKept DEF Add_Dim_Name_General_Product

\* Add_Dim_Name, whatever the product and the pattern.
LEMMA DimsNamedKept ==
    ASSUME IsList(vars), NEW type, NEW p
    PROVE  NamesKept(vars, DimsNamed(type, p).vars)
BY MeaSeaWiFSKept, AquKept, OSMAPL2SKept, LatLon1DKept, OzoneKept, GPMKept, GeneralDimsKept
   DEF DimsNamed, Add_Dim_Name_ACOS_L2S_OCO2_L1B

------------------------------------------------------------------------------
(***************************************************************************)
(* Coordinate variables and what is left of the variables.                 *)
(***************************************************************************)

\* The words of a path are those of its components.
LEMMA PathWords ==
    ASSUME NEW p \in Seq(Name), NEW i \in 1..Len(p), NEW w \in Range(p[i])
    PROVE  w \in Range(get_CF_string(p))
<1>1. p \in Seq(Seq(Words))
  BY DEF Name
<1> QED BY <1>1, FlattenIs, Zenon DEF get_CF_string

\* A variable with its path for a name.
LEMMA PathIsEarly ==
    ASSUME NEW v, IsRecord(v), v.path = v.newname, v.newname \in Seq(Name), NEW type,
           type # "Aqu_L3" => v.newname # <<>>
    PROVE  EarlyVar(v, type)
<1>1. \A i \in 1..Len(v.newname) : \A w \in Range(v.newname[i]) : w \in Range(get_CF_string(v.path))
  BY PathWords
<1>2. KeepsName(v) => \A w \in EosWords : w \notin Range(get_CF_string(v.path))
  BY DEF KeepsName, EosWords, Has
<1> QED BY <1>1, <1>2, Zenon DEF EarlyVar

\* A coordinate variable that is made up has the path of its dimension for its name.
LEMMA MissingIsRecord ==
    ASSUME NEW bk, NEW n, NEW role
    PROVE  /\ IsRecord(Create_Missing_CV(bk, n)) /\ Create_Missing_CV(bk, n).path = n
           /\ Create_Missing_CV(bk, n).newname = n
           /\ IsRecord(MadeCV(bk, n, role)) /\ MadeCV(bk, n, role).path = n /\ MadeCV(bk, n, role).newname = n
BY DEF Create_Missing_CV, MadeCV, IsRecord, Fields

\* So it is a variable whose name is a path.
LEMMA MissingIsEarly ==
    ASSUME NEW bk, NEW n \in Seq(Name), NEW role, NEW type, type # "Aqu_L3" => n # <<>>
    PROVE  EarlyVar(Create_Missing_CV(bk, n), type) /\ EarlyVar(MadeCV(bk, n, role), type)
BY MissingIsRecord, PathIsEarly

\* The names in order are paths among the names.
LEMMA InOrderIs ==
    ASSUME NEW names
    PROVE  /\ IsList(InOrder(names))
           /\ \A i \in 1..Len(InOrder(names)) : InOrder(names)[i] \in Paths /\ InOrder(names)[i] \in names
<1> DEFINE places == {i \in DOMAIN NameOrder : NameOrder[i] \in names}
           e == ElementsAt(NameOrder, places)
<1>1. InOrder(names) = e
  BY Zenon DEF InOrder, Those
<1> HIDE DEF places
<1>2. e \in Seq(Paths) /\ ListsAt(e, NameOrder, places)
  BY NameOrderAssumption, ElementsAtIs, Zenon
<1>3. IsList(e) /\ \A i \in 1..Len(e) : e[i] \in Paths
  BY <1>2, SeqIsList, Zenon
<1>4. PICK p : /\ Ascending(p, places, Len(NameOrder)) /\ Len(e) = Len(p)
               /\ \A k \in 1..Len(p) : e[k] = NameOrder[p[k]]
  BY <1>2, Zenon DEF ListsAt
<1>5. \A k \in 1..Len(e) : e[k] \in names
  BY <1>4, Zenon DEF Ascending, places
<1> QED BY <1>1, <1>3, <1>5, Zenon

\* A path of the file is a list of names.
LEMMA PathsAreNames ==
    ASSUME NEW p \in Paths
    PROVE  p \in Seq(Name) /\ p # <<>>
<1>1. \A n \in Seq(STRING) : n \in Name
  BY SeqInSeq DEF Name, Words
<1> DEFINE S == Seq(STRING)
<1>2. p \in Seq(S) /\ p # <<>> /\ S \subseteq Name
  BY <1>1 DEF Paths
<1> HIDE DEF S
<1>3. p \in Seq(Name)
  BY <1>2, SeqInSeq, Zenon
<1> QED BY <1>2, <1>3

\* Coordinate variables that are made up for dimensions have paths for names.
LEMMA MissingCVsEarly ==
    ASSUME NEW bk, NEW names, NEW type
    PROVE  EarlyList(MissingCVs(bk, names), type)
<1> DEFINE order == InOrder(names)
           m == [i \in DOMAIN order |-> Create_Missing_CV(bk, order[i])]
<1>1. IsList(order) /\ \A i \in 1..Len(order) : order[i] \in Paths
  BY InOrderIs
<1> HIDE DEF order
<1>2. IsList(m) /\ Len(m) = Len(order) /\ DOMAIN order = 1..Len(order)
  BY <1>1, MappedIsList, ListIs
<1>3. \A i \in 1..Len(m) : EarlyVar(m[i], type)
  <2> TAKE i \in 1..Len(m)
  <2>1. m[i] = Create_Missing_CV(bk, order[i]) /\ order[i] \in Seq(Name) /\ order[i] # <<>>
    BY <1>1, <1>2, PathsAreNames
  <2> QED BY <2>1, MissingIsEarly
<1>4. MissingCVs(bk, names) = m
  BY Zenon DEF MissingCVs, order
<1> QED BY <1>2, <1>3, <1>4, Zenon DEF EarlyList

\* A variable that becomes a coordinate variable keeps its name.
LEMMA CVKept ==
    ASSUME NEW v, IsRecord(v), NEW role, NEW n
    PROVE  SameName(v, CVOf(v, role, n))
BY DEF SameName, CVOf, IsRecord, Fields

\* A change of one variable that leaves its path and its name.
LEMMA SameIsEarly ==
    ASSUME NEW type, NEW v, EarlyVar(v, type), NEW w, SameName(v, w)
    PROVE  EarlyVar(w, type)
<1>1. KeepsName(w) <=> KeepsName(v)
  BY SamePathKeeps, Zenon DEF SameName
<1>2. IsRecord(w) /\ w.newname = v.newname /\ w.path = v.path
  BY Zenon DEF SameName
<1> QED BY <1>1, <1>2, Zenon DEF EarlyVar

\* Elements of a list, made coordinate variables.
LEMMA CVsEarly ==
    ASSUME NEW type, NEW ll, EarlyList(ll, type), NEW new, new = [i \in DOMAIN ll |-> new[i]],
           \A i \in DOMAIN ll : \E role, n : new[i] = CVOf(ll[i], role, n)
    PROVE  EarlyList(new, type)
<1>1. \A i \in DOMAIN ll : IsRecord(ll[i]) => SameName(ll[i], new[i])
  BY CVKept
<1>2. NamesKept(ll, new)
  BY <1>1, Zenon DEF NamesKept
<1> QED BY <1>2, KeptEarly, Zenon

\* What is left of a list of variables of a kind.
LEMMA ElementsEarly ==
    ASSUME NEW type, NEW s, EarlyList(s, type), NEW places
    PROVE  EarlyList(ElementsAt(s, places), type)
BY ElementsArePart, PartOfEarly, Zenon DEF EarlyList

MadeEarly(made, type) == EarlyList(made.vars, type) /\ EarlyList(made.cvars, type)

\* Handle_CVar_LatLon_General_Product leaves paths for names.
LEMMA LatLonEarly ==
    ASSUME NEW type, NEW bk, NEW vs, EarlyList(vs, type), NEW pat
    PROVE  MadeEarly(Handle_CVar_LatLon_General_Product(bk, vs, pat), type)
<1> DEFINE first(us, name) == {i \in DOMAIN us : /\ NameOf(us[i].path) = name
                                                 /\ \A j \in 1..(i - 1) : NameOf(us[j].path) # name}
           lat == first(vs, pat.lat)
           rest == ElementsAt(vs, DOMAIN vs \ lat)
           lon == first(rest, pat.lon)
           axis == IF pat.kind = "LATLON2D" THEN 2 ELSE 1
           lats == ElementsAt(vs, lat)
           lons == ElementsAt(rest, lon)
           lats1 == [i \in DOMAIN lats |-> CVOf(lats[i], "exist", lats[i].dims[1].name)]
           lons1 == [i \in DOMAIN lons |-> CVOf(lons[i], "exist", lons[i].dims[axis].name)]
           cvs == lats1 \o lons1
           miss == MissingCVs(bk, bk.dimnamelist \ {c.cfdimname : c \in Range(cvs)})
           left == ElementsAt(rest, DOMAIN rest \ lon)
           made == [vars |-> left, groups |-> {}, failed |-> FALSE, coards |-> pat.kind = "LATLON1D",
                    cvars |-> cvs \o miss]
<1>1. Handle_CVar_LatLon_General_Product(bk, vs, pat) = made
  BY Zenon DEF Handle_CVar_LatLon_General_Product
<1>2. EarlyList(rest, type) /\ EarlyList(lats, type)
  <2> HIDE DEF lat
  <2> QED BY ElementsEarly, Zenon
<1>3. EarlyList(lons, type) /\ EarlyList(left, type)
  <2> HIDE DEF lon, rest
  <2> QED BY <1>2, ElementsEarly, Zenon
<1>4. EarlyList(lats1, type)
  <2> HIDE DEF lats
  <2> QED BY <1>2, CVsEarly
<1>5. EarlyList(lons1, type)
  <2> HIDE DEF lons
  <2> QED BY <1>3, CVsEarly
<1>6. EarlyList(miss, type)
  <2> HIDE DEF cvs
  <2> QED BY MissingCVsEarly
<1> HIDE DEF miss, lats1, lons1, left
<1>7. EarlyList(cvs \o miss, type)
  BY <1>4, <1>5, <1>6, ConcatEarly, Zenon
<1> HIDE DEF cvs
<1>8. MadeEarly(made, type)
  BY <1>3, <1>7 DEF MadeEarly
<1> QED BY <1>1, <1>8, Zenon

\* The members of a list of variables of a kind.
LEMMA MemberEarly ==
    ASSUME NEW type, NEW vs, EarlyList(vs, type), NEW v \in Range(vs)
    PROVE  EarlyVar(v, type) /\ IsRecord(v)
<1>1. \E i \in 1..Len(vs) : v = vs[i]
  BY ListIs DEF EarlyList
<1> QED BY <1>1, Zenon DEF EarlyList, EarlyVar

\* Coordinate variables that are each made of some variable.
LEMMA FromVarsEarly ==
    ASSUME NEW type, NEW vs, EarlyList(vs, type), NEW order, IsList(order),
           NEW new, new = [i \in DOMAIN order |-> new[i]],
           \A i \in DOMAIN order : \E v \in Range(vs) : SameName(v, new[i])
    PROVE  EarlyList(new, type)
<1>1. IsList(new) /\ Len(new) = Len(order) /\ DOMAIN order = 1..Len(order)
  BY MappedIsList, ListIs, Zenon
<1>2. \A v \in Range(vs) : EarlyVar(v, type)
  BY MemberEarly, Zenon
<1>3. \A i \in 1..Len(new) : EarlyVar(new[i], type)
  BY <1>1, <1>2, SameIsEarly, Zenon
<1> QED BY <1>1, <1>3, Zenon DEF EarlyList

\* A variable chosen by its path and made a coordinate variable.
LEMMA ChosenKept ==
    ASSUME NEW type, NEW vs, EarlyList(vs, type), NEW p, p \in {v.path : v \in Range(vs)}, NEW role, NEW n
    PROVE  \E v \in Range(vs) : SameName(v, CVOf(CHOOSE w \in Range(vs) : w.path = p, role, n))
<1> DEFINE c == CHOOSE w \in Range(vs) : w.path = p
<1>1. c \in Range(vs)
  <2>1. \E w \in Range(vs) : w.path = p
    OBVIOUS
  <2> QED BY <2>1, Zenon
<1> HIDE DEF c
<1>2. IsRecord(c)
  BY <1>1, MemberEarly, Zenon
<1>3. SameName(c, CVOf(c, role, n))
  BY <1>2, CVKept
<1>4. \E v \in Range(vs) : SameName(v, CVOf(c, role, n))
  BY <1>1, <1>3
<1> QED BY <1>4 DEF c

\* A candidate for a 2-D coordinate variable is one of the variables.
LEMMA CandidateEarly ==
    ASSUME NEW type, NEW lats, EarlyList(lats, type), NEW lons, EarlyList(lons, type)
    PROVE  /\ EarlyList(Obtain_2DLLCVar_Candidate(lats, lons).lats, type)
           /\ EarlyList(Obtain_2DLLCVar_Candidate(lats, lons).lons, type)
<1> DEFINE lat == HavingOnePartner(lats, lons)
           lon == HavingOnePartner(lons, lat)
           shared == Obtain_unique_2dCV(lat) \cup Obtain_unique_2dCV(lon)
           ll1 == Those(lat, LAMBDA v : v \notin shared)
           ll2 == Those(lon, LAMBDA v : v \notin shared)
           given_up == HavingMany(lats, lons) \cup HavingMany(lons, lat) \cup shared
           result == [lats |-> ll1, lons |-> ll2, failed |-> Len(ll1) # Len(ll2),
                      groups |-> {GroupOf(v.path) : v \in given_up}]
<1>1. Obtain_2DLLCVar_Candidate(lats, lons) = result
  BY Zenon DEF Obtain_2DLLCVar_Candidate
<1>2. EarlyList(lat, type)
  BY ElementsEarly, Zenon DEF HavingOnePartner, Those
<1> HIDE DEF lat
<1>3. EarlyList(lon, type)
  BY ElementsEarly, Zenon DEF HavingOnePartner, Those
<1> HIDE DEF lon
<1>4. EarlyList(ll1, type)
  BY <1>2, ElementsEarly, Zenon DEF Those
<1>5. EarlyList(ll2, type)
  BY <1>3, ElementsEarly, Zenon DEF Those
<1>6. result.lats = ll1 /\ result.lons = ll2
  OBVIOUS
<1> HIDE DEF result
<1> QED BY <1>1, <1>4, <1>5, <1>6, Zenon

\* Replacing a 1-D coordinate variable by a 2-D one leaves paths for names.
LEMMA ReplaceEarly ==
    ASSUME NEW type, NEW vs, EarlyList(vs, type), NEW cvs, EarlyList(cvs, type), NEW two,
           NEW new, EarlyList(new, type)
    PROVE  MadeEarly(Replace1DCVs(vs, cvs, two, new), type)
<1> DEFINE dims2d == {c.cfdimname : c \in Range(new)}
           kept == Those(vs, LAMBDA v : v \notin Range(two.lats) \cup Range(two.lons))
           replaced == Those(cvs, LAMBDA c : c.cfdimname \in dims2d /\ c.role = "exist")
           back == [i \in DOMAIN replaced |-> CVOf(replaced[i], "var", <<>>)]
           left == Those(cvs, LAMBDA c : c.cfdimname \notin dims2d)
           made == [vars |-> kept \o back, cvars |-> left \o new,
                    coards |-> two.lats = <<>>, failed |-> two.failed, groups |-> two.groups]
<1>1. Replace1DCVs(vs, cvs, two, new) = made
  BY Zenon DEF Replace1DCVs
<1>2. EarlyList(kept, type)
  BY ElementsEarly, Zenon DEF Those
<1>3. EarlyList(replaced, type) /\ EarlyList(left, type)
  <2> HIDE DEF dims2d
  <2> QED BY ElementsEarly, Zenon DEF Those
<1>4. EarlyList(back, type)
  <2> HIDE DEF replaced
  <2> QED BY <1>3, CVsEarly
<1> HIDE DEF kept, left, back
<1>5. EarlyList(kept \o back, type) /\ EarlyList(left \o new, type)
  BY <1>2, <1>3, <1>4, ConcatEarly, Zenon
<1>6. MadeEarly(made, type)
  BY <1>5 DEF MadeEarly
<1> HIDE DEF made
<1> QED BY <1>1, <1>6, Zenon

\* Update_M2DLatLon_Dimscale_CVs leaves paths for names.
LEMMA UpdateEarly ==
    ASSUME NEW type, NEW vs, EarlyList(vs, type), NEW cvs, EarlyList(cvs, type), NEW grouped
    PROVE  MadeEarly(Update_M2DLatLon_Dimscale_CVs(vs, cvs, grouped), type)
<1> DEFINE lats == Obtain_2DLLVars_With_Dims_not_1DLLCVars(vs, cvs, "lat", IsLat)
           lons == Obtain_2DLLVars_With_Dims_not_1DLLCVars(vs, cvs, "lon", LAMBDA v : IsLon(v) /\ ~IsLat(v))
           two == Obtain_2DLLCVar_Candidate(lats, lons)
           new1 == [i \in DOMAIN two.lats |-> CVOf(two.lats[i], "exist", two.lats[i].dims[1].name)]
           new2 == [i \in DOMAIN two.lons |-> CVOf(two.lons[i], "exist", two.lons[i].dims[2].name)]
           made == Replace1DCVs(vs, cvs, two, new1 \o new2)
           same == [vars |-> vs, cvars |-> cvs, coards |-> TRUE, failed |-> FALSE, groups |-> {}]
<1>1. Update_M2DLatLon_Dimscale_CVs(vs, cvs, grouped)
        = IF Check_1DGeolocation_Dimscale(vs, cvs, grouped) THEN same ELSE made
  BY Zenon DEF Update_M2DLatLon_Dimscale_CVs
<1>2. EarlyList(lats, type)
  BY ElementsEarly, Zenon DEF Obtain_2DLLVars_With_Dims_not_1DLLCVars, Those
<1>3. EarlyList(lons, type)
  BY ElementsEarly, Zenon DEF Obtain_2DLLVars_With_Dims_not_1DLLCVars, Those
<1> HIDE DEF lats, lons
<1>4. EarlyList(two.lats, type) /\ EarlyList(two.lons, type)
  BY <1>2, <1>3, CandidateEarly, Zenon
<1> HIDE DEF two
<1>5. EarlyList(new1, type)
  BY <1>4, CVsEarly
<1>6. EarlyList(new2, type)
  BY <1>4, CVsEarly
<1> HIDE DEF new1, new2
<1>7. MadeEarly(made, type)
  BY <1>5, <1>6, ConcatEarly, ReplaceEarly, Zenon
<1>8. MadeEarly(same, type)
  BY DEF MadeEarly
<1> HIDE DEF made, same
<1> QED BY <1>1, <1>7, <1>8, Zenon

\* Coordinate variables are put behind those that were made.
MadeFields == {"vars", "cvars", "coards", "failed", "groups"}
IsMade(made) == made = [f \in MadeFields |-> made[f]]

MadeWith(made, cs, failed) == [made EXCEPT !.cvars = cs, !.failed = failed]

\* The lists with more coordinate variables.
LEMMA MadeWithIs ==
    ASSUME NEW made, IsMade(made), NEW cs, NEW failed
    PROVE  /\ IsMade(MadeWith(made, cs, failed)) /\ MadeWith(made, cs, failed).vars = made.vars
           /\ MadeWith(made, cs, failed).cvars = cs
BY DEF IsMade, MadeFields, MadeWith

\* More coordinate variables whose names are paths.
LEMMA MoreCVs ==
    ASSUME NEW type, NEW made, MadeEarly(made, type), NEW more, EarlyList(more, type), NEW failed, IsMade(made)
    PROVE  MadeEarly(MadeWith(made, made.cvars \o more, failed), type) /\ IsMade(MadeWith(made, made.cvars \o more, failed))
<1> DEFINE cs == made.cvars \o more
<1>1. EarlyList(cs, type)
  BY ConcatEarly, Zenon DEF MadeEarly
<1> HIDE DEF cs
<1>2. MadeEarly(MadeWith(made, cs, failed), type) /\ IsMade(MadeWith(made, cs, failed))
  BY <1>1, MadeWithIs DEF MadeEarly
<1> QED BY <1>2, Zenon DEF cs

\* What Update_M2DLatLon_Dimscale_CVs gives has the fields of every such result.
LEMMA UpdateIsRecord ==
    ASSUME NEW vs, NEW cvs, NEW grouped
    PROVE  IsMade(Update_M2DLatLon_Dimscale_CVs(vs, cvs, grouped))
<1> DEFINE lats == Obtain_2DLLVars_With_Dims_not_1DLLCVars(vs, cvs, "lat", IsLat)
           lons == Obtain_2DLLVars_With_Dims_not_1DLLCVars(vs, cvs, "lon", LAMBDA v : IsLon(v) /\ ~IsLat(v))
           two == Obtain_2DLLCVar_Candidate(lats, lons)
           new1 == [i \in DOMAIN two.lats |-> CVOf(two.lats[i], "exist", two.lats[i].dims[1].name)]
           new2 == [i \in DOMAIN two.lons |-> CVOf(two.lons[i], "exist", two.lons[i].dims[2].name)]
           new == new1 \o new2
           dims2d == {c.cfdimname : c \in Range(new)}
           kept == Those(vs, LAMBDA v : v \notin Range(two.lats) \cup Range(two.lons))
           replaced == Those(cvs, LAMBDA c : c.cfdimname \in dims2d /\ c.role = "exist")
           cs == Those(cvs, LAMBDA c : c.cfdimname \notin dims2d) \o new
           us == kept \o [i \in DOMAIN replaced |-> CVOf(replaced[i], "var", <<>>)]
           co == two.lats = <<>>
           made == [vars |-> us, cvars |-> cs, coards |-> co, failed |-> two.failed, groups |-> two.groups]
           same == [vars |-> vs, cvars |-> cvs, coards |-> TRUE, failed |-> FALSE, groups |-> {}]
<1>1. Update_M2DLatLon_Dimscale_CVs(vs, cvs, grouped)
        = IF Check_1DGeolocation_Dimscale(vs, cvs, grouped) THEN same ELSE made
  BY Zenon DEF Update_M2DLatLon_Dimscale_CVs, Replace1DCVs
<1> DEFINE result == Update_M2DLatLon_Dimscale_CVs(vs, cvs, grouped)
<1>2. result = same \/ result = made
  BY <1>1, Zenon
<1> HIDE DEF us, cs, co, two, result
<1>3. IsMade(result)
  BY <1>2 DEF IsMade, MadeFields
<1> QED BY <1>3, Zenon DEF result

\* Handle_CVar_Dimscale_General_Product: whatever the names of the dimensions are.
LEMMA DimscaleEarly ==
    ASSUME NEW type, NEW bk, NEW vs, EarlyList(vs, type), NEW grouped
    PROVE  /\ MadeEarly(Handle_CVar_Dimscale_General_Product(bk, vs, grouped), type)
           /\ IsMade(Handle_CVar_Dimscale_General_Product(bk, vs, grouped))
<1> DEFINE isScale(v) == v.path \in bk.dimnamelist
           scales == {v.path : v \in {w \in Range(vs) : isScale(w)}}
           order == InOrder(scales)
           variable(p) == CHOOSE v \in Range(vs) : v.path = p
           cvs == [i \in DOMAIN order |->
                     CVOf(variable(order[i]),
                          IF variable(order[i]).scale = "dimension" THEN "fill" ELSE "exist", order[i])]
           others == Those(vs, LAMBDA v : ~isScale(v))
           two == Update_M2DLatLon_Dimscale_CVs(others, cvs, grouped)
           more == MissingCVs(bk, bk.dimnamelist \ scales)
           wrong == two.failed \/ \E p \in scales : Rank(variable(p)) # 1
<1>1. Handle_CVar_Dimscale_General_Product(bk, vs, grouped)
        = MadeWith(two, two.cvars \o more, wrong)
  BY Zenon DEF Handle_CVar_Dimscale_General_Product, MadeWith
<1>2. EarlyList(others, type)
  BY ElementsEarly, Zenon DEF Those
<1>3. scales \subseteq {v.path : v \in Range(vs)}
  OBVIOUS
<1> HIDE DEF scales, others
<1>4. IsList(order) /\ \A i \in DOMAIN order : order[i] \in scales
  BY InOrderIs, ListIs, Zenon
<1> HIDE DEF order
<1>5. EarlyList(cvs, type)
  <2>1. cvs = [i \in DOMAIN order |-> cvs[i]]
    OBVIOUS
  <2>2. ASSUME NEW i \in DOMAIN order PROVE \E v \in Range(vs) : SameName(v, cvs[i])
    BY <1>3, <1>4, ChosenKept
  <2> HIDE DEF cvs
  <2> QED BY <1>4, <2>1, <2>2, FromVarsEarly, Zenon
<1> HIDE DEF cvs
<1>6. MadeEarly(two, type)
  BY <1>2, <1>5, UpdateEarly, Zenon
<1>7. IsMade(two)
  BY UpdateIsRecord, Zenon
<1>8. EarlyList(more, type)
  BY MissingCVsEarly, Zenon
<1> HIDE DEF two, more, wrong
<1>9. /\ MadeEarly(MadeWith(two, two.cvars \o more, wrong), type)
      /\ IsMade(MadeWith(two, two.cvars \o more, wrong))
  BY <1>6, <1>7, <1>8, MoreCVs
<1> QED BY <1>1, <1>9, Zenon

\* Measures SeaWiFS and Ozone.
LEMMA MeaEarly ==
    ASSUME NEW type, NEW bk, NEW vs, EarlyList(vs, type), NEW coards
    PROVE  MadeEarly(Handle_CVar_Mea(bk, vs, coards), type)
<1> DEFINE path(n) == VariableFor(n, coards)
           paths == {v.path : v \in Range(vs)}
           names == {n \in bk.dimnamelist : path(n) \in paths}
           order == InOrder(names)
           variable(p) == CHOOSE v \in Range(vs) : v.path = p
           kept == Those(vs, LAMBDA v : \A n \in names : v.path # path(n))
           cvs == [i \in DOMAIN order |-> CVOf(variable(path(order[i])), "exist", order[i])]
           more == MissingCVs(bk, bk.dimnamelist \ names)
           wrong == \E n \in names : path(n) = n /\ Rank(variable(n)) # 1
           made == [vars |-> kept, cvars |-> cvs \o more, failed |-> wrong]
<1>1. Handle_CVar_Mea(bk, vs, coards) = made
  BY Zenon DEF Handle_CVar_Mea, Made
<1>2. EarlyList(kept, type)
  BY ElementsEarly, Zenon DEF Those
<1>3. IsList(order) /\ \A i \in DOMAIN order : order[i] \in names
  <2> HIDE DEF names
  <2> QED BY InOrderIs, ListIs, Zenon
<1>4. \A i \in DOMAIN order : path(order[i]) \in paths
  <2> HIDE DEF order
  <2> QED BY <1>3
<1> HIDE DEF order
<1>5. EarlyList(cvs, type)
  <2>1. cvs = [i \in DOMAIN order |-> cvs[i]]
    OBVIOUS
  <2>2. ASSUME NEW i \in DOMAIN order PROVE \E v \in Range(vs) : SameName(v, cvs[i])
    <3> DEFINE p == path(order[i])
    <3>1. p \in {v.path : v \in Range(vs)} /\ cvs[i] = CVOf(variable(p), "exist", order[i])
      BY <1>4, <2>2
    <3> HIDE DEF p
    <3>2. \E v \in Range(vs) : SameName(v, CVOf(variable(p), "exist", order[i]))
      BY <3>1, ChosenKept
    <3> HIDE DEF cvs, variable
    <3> QED BY <3>1, <3>2
  <2> HIDE DEF cvs
  <2> QED BY <1>3, <2>1, <2>2, FromVarsEarly, Zenon
<1>6. EarlyList(more, type)
  BY MissingCVsEarly, Zenon
<1> HIDE DEF kept, cvs, more, wrong
<1>7. EarlyList(cvs \o more, type)
  BY <1>5, <1>6, ConcatEarly, Zenon
<1>8. MadeEarly(made, type)
  BY <1>2, <1>7 DEF MadeEarly
<1> HIDE DEF made
<1> QED BY <1>1, <1>8, Zenon

\* The last name of a path is one of its names.
LEMMA LastIs ==
    ASSUME NEW p \in Seq(Name), p # <<>>
    PROVE  /\ <<Last(p)>> \in Seq(Name) /\ <<Last(p)>> # <<>> /\ Len(p) \in 1..Len(p) /\ Last(p) = p[Len(p)]
           /\ Len(<<Last(p)>>) = 1 /\ <<Last(p)>>[1] = p[Len(p)]
BY DEF Last

\* A variable that gets the last name of its path for its name.
LEMMA LastNameEarly ==
    ASSUME NEW v, EarlyVar(v, "any"), NEW w, IsRecord(w), w.path = v.path, w.newname = <<NameOf(v.path)>>,
           NEW type
    PROVE  EarlyVar(w, type)
<1> DEFINE p == v.path
<1>1. p \in Seq(Name) /\ p # <<>>
  BY DEF EarlyVar
<1>2. /\ w.newname \in Seq(Name) /\ w.newname # <<>> /\ Len(w.newname) = 1
      /\ Len(p) \in 1..Len(p) /\ w.newname[1] = p[Len(p)]
  BY <1>1, LastIs DEF NameOf
<1>3. \A x \in Range(w.newname[1]) : x \in Range(get_CF_string(p))
  BY <1>1, <1>2, PathWords
<1>4. KeepsName(w) => \A x \in EosWords : x \notin Range(get_CF_string(p))
  BY DEF KeepsName, EosWords, Has
<1>5. \A i \in 1..Len(w.newname) : i = 1
  BY <1>2
<1> QED BY <1>1, <1>2, <1>3, <1>4, <1>5, Zenon DEF EarlyVar

\* A list for any product is one for each, if it has no empty name.
LEMMA AnyType ==
    ASSUME NEW type, type # "Aqu_L3", NEW v, EarlyVar(v, type)
    PROVE  EarlyVar(v, "any")
BY DEF EarlyVar

\* Handle_CVar_OSMAPL2S leaves paths for names.
LEMMA OSMAPL2SEarly ==
    ASSUME NEW type, type # "Aqu_L3", NEW bk, NEW vs, EarlyList(vs, type)
    PROVE  MadeEarly(Handle_CVar_OSMAPL2S(bk, vs), type)
<1> DEFINE at(word) == {i \in DOMAIN vs : Suffixed(vs[i], word)}
           end == IF at("lat") = {} \/ at("lon") = {} THEN Len(vs) ELSE Max({Min(at("lat")), Min(at("lon"))})
           found == {i \in at("lat") \cup at("lon") : i <= end}
           dim(v) == IF Suffixed(v, "lat") THEN YDim ELSE XDim
           lls == ElementsAt(vs, found)
           dims == {dim(v) : v \in Range(lls)}
           left == ElementsAt(vs, DOMAIN vs \ found)
           cvs == [i \in DOMAIN lls |->
                     [CVOf(lls[i], "exist", dim(lls[i])) EXCEPT !.newname = <<NameOf(lls[i].path)>>]]
           more == MissingCVs(bk, bk.dimnamelist \ dims)
           wrong == ~(dims \subseteq bk.dimnamelist)
           made == [vars |-> left, cvars |-> cvs \o more, failed |-> wrong]
<1>1. Handle_CVar_OSMAPL2S(bk, vs) = made
  BY Zenon DEF Handle_CVar_OSMAPL2S, Made
<1>2. EarlyList(left, type) /\ EarlyList(lls, type)
  <2> HIDE DEF found
  <2> QED BY ElementsEarly, Zenon
<1> HIDE DEF lls
<1>3. EarlyList(cvs, type)
  <2>1. IsList(lls) /\ DOMAIN lls = 1..Len(lls)
    BY <1>2, ListIs, Zenon DEF EarlyList
  <2>2. cvs = [i \in DOMAIN lls |-> cvs[i]]
    OBVIOUS
  <2>3. IsList(cvs) /\ Len(cvs) = Len(lls)
    <3> HIDE DEF cvs
    <3> QED BY <2>1, <2>2, MappedIsList, Zenon
  <2>4. ASSUME NEW i \in 1..Len(cvs) PROVE EarlyVar(cvs[i], type)
    <3> DEFINE v == lls[i]
               d == dim(lls[i])
               w == [CVOf(v, "exist", d) EXCEPT !.newname = <<NameOf(v.path)>>]
    <3>1. cvs[i] = w /\ EarlyVar(v, type)
      BY <1>2, <2>1, <2>3, <2>4 DEF EarlyList
    <3>2. EarlyVar(v, "any") /\ IsRecord(v)
      BY <3>1, AnyType, Zenon DEF EarlyVar
    <3> HIDE DEF cvs, v, d
    <3>3. IsRecord(w) /\ w.path = v.path /\ w.newname = <<NameOf(v.path)>>
      BY <3>2 DEF IsRecord, Fields, CVOf
    <3> HIDE DEF w
    <3> QED BY <3>1, <3>2, <3>3, LastNameEarly, Zenon
  <2> HIDE DEF cvs
  <2> QED BY <2>3, <2>4, Zenon DEF EarlyList
<1>4. EarlyList(more, type)
  BY MissingCVsEarly, Zenon
<1> HIDE DEF left, cvs, more, wrong
<1>5. EarlyList(cvs \o more, type)
  BY <1>3, <1>4, ConcatEarly, Zenon
<1>6. MadeEarly(made, type)
  BY <1>2, <1>5 DEF MadeEarly
<1> HIDE DEF made
<1> QED BY <1>1, <1>6, Zenon

\* Handle_CVar_GPM_L1 leaves paths for names.
LEMMA GPML1Early ==
    ASSUME NEW type, NEW bk, NEW vs, EarlyList(vs, type)
    PROVE  MadeEarly(Handle_CVar_GPM_L1(bk, vs), type)
<1> DEFINE lats == CHOOSE f : f = [i \in 0..Len(vs) |->
                     IF i = 0 THEN {}
                     ELSE IF Is2D(vs[i], "Latitude") /\ i - 1 \notin f[i - 1] THEN f[i - 1] \cup {i} ELSE f[i - 1]]
           found == lats[Len(vs)] \cup {i \in DOMAIN vs : Is2D(vs[i], "Longitude")}
           ls == LatLonOfSwaths(vs)
           axis(v) == IF Is2D(v, "Longitude") THEN 2 ELSE 1
           more == MissingCVs(bk, DOMAIN bk.size \ ls.names)
           made == [vars |-> ls.vars, cvars |-> ls.cvars \o more, failed |-> FALSE]
<1>1. Handle_CVar_GPM_L1(bk, vs) = made
  BY Zenon DEF Handle_CVar_GPM_L1, Made
<1>2. EarlyList(ls.vars, type) /\ EarlyList(ls.cvars, type)
  <2>1. LatLonOfSwaths(vs) =
          [vars |-> ElementsAt(vs, DOMAIN vs \ found),
           cvars |-> [i \in DOMAIN ElementsAt(vs, found) |->
                        CVOf(ElementsAt(vs, found)[i], "exist",
                             GroupDim(ElementsAt(vs, found)[i], axis(ElementsAt(vs, found)[i])))],
           names |-> {v.dims[axis(v)].name : v \in Range(ElementsAt(vs, found))}]
    BY Zenon DEF LatLonOfSwaths
  <2> DEFINE lls == ElementsAt(vs, found)
             left == ElementsAt(vs, DOMAIN vs \ found)
             cvs == [i \in DOMAIN lls |-> CVOf(lls[i], "exist", GroupDim(lls[i], axis(lls[i])))]
  <2>2. EarlyList(lls, type) /\ EarlyList(left, type)
    BY ElementsEarly, Zenon
  <2>3. ls.vars = left /\ ls.cvars = cvs
    BY <2>1
  <2> HIDE DEF lls, left, ls
  <2>4. EarlyList(cvs, type)
    BY <2>2, CVsEarly
  <2> QED BY <2>2, <2>3, <2>4, Zenon
<1>3. EarlyList(more, type)
  BY MissingCVsEarly, Zenon
<1> HIDE DEF ls, more
<1>4. EarlyList(ls.cvars \o more, type)
  BY <1>2, <1>3, ConcatEarly, Zenon
<1>5. MadeEarly(made, type)
  BY <1>2, <1>4 DEF MadeEarly
<1> HIDE DEF made
<1> QED BY <1>1, <1>5, Zenon

\* Handle_CVar_GPM_L3 leaves paths for names.
LEMMA GPML3Early ==
    ASSUME NEW type, NEW bk, NEW vs, EarlyList(vs, type)
    PROVE  MadeEarly(Handle_CVar_GPM_L3(bk, vs), type)
<1> DEFINE role(n) == CASE n \in GPMLat -> "latmiss"
                        [] n \in GPMLon -> "lonmiss"
                        [] <<n, bk.size[n]>> \in GPMHeights -> "special"
                        [] OTHER -> "miss"
           order == InOrder(DOMAIN bk.size)
           cvs == [i \in DOMAIN order |-> MadeCV(bk, order[i], role(order[i]))]
           made == [vars |-> vs, cvars |-> cvs, failed |-> FALSE]
<1>1. Handle_CVar_GPM_L3(bk, vs) = made
  BY Zenon DEF Handle_CVar_GPM_L3, Made
<1>2. IsList(order) /\ (\A i \in 1..Len(order) : order[i] \in Paths) /\ DOMAIN order = 1..Len(order)
  BY InOrderIs, ListIs, Zenon
<1> HIDE DEF order, role
<1>3. IsList(cvs) /\ Len(cvs) = Len(order)
  BY <1>2, MappedIsList
<1>4. ASSUME NEW i \in 1..Len(cvs) PROVE EarlyVar(cvs[i], type)
  <2>1. cvs[i] = MadeCV(bk, order[i], role(order[i])) /\ order[i] \in Seq(Name) /\ order[i] # <<>>
    BY <1>2, <1>3, PathsAreNames
  <2> QED BY <2>1, MissingIsEarly
<1> HIDE DEF cvs
<1>5. MadeEarly(made, type)
  BY <1>3, <1>4, Zenon DEF MadeEarly, EarlyList
<1> HIDE DEF made
<1> QED BY <1>1, <1>5, Zenon

\* What the lists of a list hold, one behind the other.
LEMMA FlattenLists ==
    ASSUME NEW s, IsList(s), \A i \in 1..Len(s) : IsList(s[i])
    PROVE  /\ IsList(FlattenSeq(s))
           /\ \A k \in 1..Len(FlattenSeq(s)) : \E i \in 1..Len(s) : \E j \in 1..Len(s[i]) : FlattenSeq(s)[k] = s[i][j]
<1> DEFINE S == UNION {Range(s[i]) : i \in 1..Len(s)}
           t == FlattenSeq(s)
<1>1. Len(s) \in Nat /\ s = [i \in 1..Len(s) |-> s[i]]
  BY ListIs
<1>2. \A i \in 1..Len(s) : s[i] \in Seq(S)
  <2> TAKE i \in 1..Len(s)
  <2>1. s[i] \in Seq(Range(s[i])) /\ Range(s[i]) \subseteq S
    BY Zenon DEF IsList
  <2> HIDE DEF S
  <2> QED BY <2>1, SeqInSeq
<1> HIDE DEF S
<1>3. s \in Seq(Seq(S))
  <2> DEFINE Q == Seq(S)
  <2>1. s \in [1..Len(s) -> Q]
    BY <1>1, <1>2
  <2> HIDE DEF Q
  <2>2. s \in Seq(Q)
    BY <1>1, <2>1
  <2> QED BY <2>2 DEF Q
<1>4. t \in Seq(S) /\ \A w : w \in Range(t) <=> \E i \in 1..Len(s) : w \in Range(s[i])
  BY <1>3, FlattenIs, Zenon
<1> HIDE DEF t
<1>5. IsList(t)
  BY <1>4, SeqIsList, Zenon
<1>6. ASSUME NEW k \in 1..Len(t) PROVE \E i \in 1..Len(s) : \E j \in 1..Len(s[i]) : t[k] = s[i][j]
  <2>1. t[k] \in Range(t)
    BY <1>5, ListIs
  <2>2. PICK i \in 1..Len(s) : t[k] \in Range(s[i])
    BY <1>4, <2>1, Zenon
  <2>3. \E j \in 1..Len(s[i]) : t[k] = s[i][j]
    BY <2>2, ListIs
  <2> QED BY <2>3
<1> QED BY <1>5, <1>6 DEF t

\* The name of every dimension is a path.
NamedDims(v) ==
    IsList(v.dims) /\ \A j \in 1..Len(v.dims) : "name" \in DOMAIN v.dims[j] /\ v.dims[j].name \in Seq(Name)

\* Handle_CVar_Aqu_L3 makes coordinate variables with the names of dimensions.
LEMMA AquEarly ==
    ASSUME NEW vs, EarlyList(vs, "Aqu_L3"), \A i \in 1..Len(vs) : NamedDims(vs[i])
    PROVE  MadeEarly(Handle_CVar_Aqu_L3(vs), "Aqu_L3")
<1> DEFINE parts == [i \in DOMAIN vs |-> IF NameOf(vs[i].path) = l3m_data THEN vs[i].dims ELSE <<>>]
           dims == FlattenSeq(parts)
           role(name) == CASE name = << <<"lat">> >> -> "latmiss" [] name = << <<"lon">> >> -> "lonmiss"
                           [] OTHER -> "none"
           bk(d) == [NoNames EXCEPT !.size = [n \in {d.name} |-> d.size], !.unlimited = [n \in {d.name} |-> FALSE]]
           cvs == [i \in DOMAIN dims |-> MadeCV(bk(dims[i]), dims[i].name, role(dims[i].name))]
           made == [vars |-> vs, cvars |-> cvs, failed |-> FALSE]
<1>1. Handle_CVar_Aqu_L3(vs) = made
  BY Zenon DEF Handle_CVar_Aqu_L3, Made
<1>2. IsList(parts) /\ Len(parts) = Len(vs) /\ DOMAIN vs = 1..Len(vs)
  BY MappedIsList, ListIs DEF EarlyList
<1>3. ASSUME NEW i \in 1..Len(parts)
      PROVE  IsList(parts[i]) /\ \A j \in 1..Len(parts[i]) : parts[i][j].name \in Seq(Name)
  <2>1. parts[i] = IF NameOf(vs[i].path) = l3m_data THEN vs[i].dims ELSE <<>>
    BY <1>2
  <2>2. NamedDims(vs[i])
    BY <1>2, <1>3
  <2> HIDE DEF parts
  <2>3. CASE parts[i] = vs[i].dims
    BY <2>2, <2>3, Zenon DEF NamedDims
  <2>4. CASE parts[i] = <<>>
    <3>1. IsList(parts[i]) /\ 1..Len(parts[i]) = {}
      BY <2>4, EmptyIsList
    <3> QED BY <3>1
  <2> QED BY <2>1, <2>3, <2>4
<1> HIDE DEF parts
<1>4. IsList(dims) /\ \A k \in 1..Len(dims) : dims[k].name \in Seq(Name)
  <2>1. IsList(dims)
    BY <1>2, <1>3, FlattenLists, Zenon
  <2>2. ASSUME NEW k \in 1..Len(dims) PROVE dims[k].name \in Seq(Name)
    <3>1. \E i \in 1..Len(parts) : \E j \in 1..Len(parts[i]) : dims[k] = parts[i][j]
      BY <1>2, <1>3, <2>2, FlattenLists, Zenon
    <3> HIDE DEF dims
    <3> QED BY <1>3, <3>1, Zenon
  <2> QED BY <2>1, <2>2
<1> HIDE DEF dims, role, bk
<1>5. DOMAIN dims = 1..Len(dims) /\ IsList(cvs) /\ Len(cvs) = Len(dims)
  BY <1>4, MappedIsList, ListIs
<1>6. ASSUME NEW i \in 1..Len(cvs) PROVE EarlyVar(cvs[i], "Aqu_L3")
  <2>1. cvs[i] = MadeCV(bk(dims[i]), dims[i].name, role(dims[i].name)) /\ dims[i].name \in Seq(Name)
    BY <1>4, <1>5
  <2> QED BY <2>1, MissingIsEarly
<1> HIDE DEF cvs
<1>7. MadeEarly(made, "Aqu_L3")
  BY <1>5, <1>6, Zenon DEF MadeEarly, EarlyList
<1> HIDE DEF made
<1> QED BY <1>1, <1>7, Zenon

WithCVars(made, cs) == [made EXCEPT !.cvars = cs]

\* Other coordinate variables in the same result.
LEMMA WithCVarsIs ==
    ASSUME NEW made, IsMade(made), NEW cs
    PROVE  WithCVars(made, cs).vars = made.vars /\ WithCVars(made, cs).cvars = cs
BY DEF WithCVars, IsMade, MadeFields

\* Handle_CVar_OBPG_L3 leaves paths for names.
LEMMA OBPGEarly ==
    ASSUME NEW type, NEW made, MadeEarly(made, type), IsMade(made)
    PROVE  MadeEarly(Handle_CVar_OBPG_L3(made), type)
<1> DEFINE grids == SelectSeq(made.vars, LAMBDA v : Rank(v) = 2 /\ (IsPrefix(GeophysicalData, v.path) \/ v.type = "float"))
           ll == LatLonDims(Head(grids))
           is(c, d) == c.role = "fill" /\ c.dims[1].size = d.size /\ c.dims[1].name = d.name
           role(c) == CASE is(c, ll.lat) -> "latmiss"
                        [] ~is(c, ll.lat) /\ is(c, ll.lon) -> "lonmiss"
                        [] OTHER -> c.role
           cvs == [i \in DOMAIN made.cvars |-> [made.cvars[i] EXCEPT !.role = role(made.cvars[i])]]
           result == IF grids = <<>> THEN made ELSE WithCVars(made, cvs)
<1>1. Handle_CVar_OBPG_L3(made) = result
  BY Zenon DEF Handle_CVar_OBPG_L3, WithCVars
<1>2. NamesKept(made.cvars, cvs)
  <2> HIDE DEF role
  <2> QED BY DEF NamesKept, SameName, IsRecord, Fields
<1> HIDE DEF cvs, grids
<1>3. EarlyList(cvs, type)
  BY <1>2, KeptEarly, Zenon DEF MadeEarly
<1>4. MadeEarly(WithCVars(made, cvs), type)
  BY <1>3, WithCVarsIs DEF MadeEarly
<1>5. MadeEarly(result, type)
  BY <1>4
<1> HIDE DEF result
<1> QED BY <1>1, <1>5, Zenon

\* Variables without empty names are variables of each product.
LEMMA WeakerType ==
    ASSUME NEW vs, EarlyList(vs, "any"), NEW type
    PROVE  EarlyList(vs, type)
BY DEF EarlyList, EarlyVar

\* What Handle_CVar_LatLon_General_Product gives has the fields of every such result.
LEMMA LatLonIsMade ==
    ASSUME NEW bk, NEW vs, NEW pat
    PROVE  IsMade(Handle_CVar_LatLon_General_Product(bk, vs, pat))
<1> DEFINE first(us, name) == {i \in DOMAIN us : /\ NameOf(us[i].path) = name
                                                 /\ \A j \in 1..(i - 1) : NameOf(us[j].path) # name}
           lat == first(vs, pat.lat)
           rest == ElementsAt(vs, DOMAIN vs \ lat)
           lon == first(rest, pat.lon)
           axis == IF pat.kind = "LATLON2D" THEN 2 ELSE 1
           lats == ElementsAt(vs, lat)
           lons == ElementsAt(rest, lon)
           cvs == [i \in DOMAIN lats |-> CVOf(lats[i], "exist", lats[i].dims[1].name)]
                    \o [i \in DOMAIN lons |-> CVOf(lons[i], "exist", lons[i].dims[axis].name)]
           cs == cvs \o MissingCVs(bk, bk.dimnamelist \ {c.cfdimname : c \in Range(cvs)})
           left == ElementsAt(rest, DOMAIN rest \ lon)
           co == pat.kind = "LATLON1D"
           made == [vars |-> left, groups |-> {}, failed |-> FALSE, coards |-> co, cvars |-> cs]
<1>1. Handle_CVar_LatLon_General_Product(bk, vs, pat) = made
  BY Zenon DEF Handle_CVar_LatLon_General_Product
<1> HIDE DEF left, co, cs
<1>2. IsMade(made)
  BY DEF IsMade, MadeFields
<1> QED BY <1>1, <1>2, Zenon

\* So has General, which keeps both lists.
LEMMA GeneralIs ==
    ASSUME NEW made, NEW coards
    PROVE  /\ IsMade(General(made, coards)) /\ General(made, coards).vars = made.vars
           /\ General(made, coards).cvars = made.cvars
BY DEF General, IsMade, MadeFields

\* General leaves paths for names.
LEMMA GeneralEarly ==
    ASSUME NEW type, NEW made, MadeEarly(made, type), NEW coards
    PROVE  MadeEarly(General(made, coards), type) /\ IsMade(General(made, coards))
BY GeneralIs DEF MadeEarly

\* Handle_CVar_General_Product leaves paths for names, by whatever pattern.
LEMMA GeneralProductEarly ==
    ASSUME NEW type, EarlyList(vars, type), EarlyList(cvars, type)
    PROVE  MadeEarly(Handle_CVar_General_Product, type) /\ IsMade(Handle_CVar_General_Product)
<1>1. MadeEarly(Made(vars, cvars, FALSE), type)
  BY DEF MadeEarly, Made
<1>2. MadeEarly(General(Made(vars, cvars, FALSE), FALSE), type) /\ IsMade(General(Made(vars, cvars, FALSE), FALSE))
  BY <1>1, GeneralEarly, Zenon
<1> QED BY <1>2, DimscaleEarly, LatLonEarly, LatLonIsMade DEF Handle_CVar_General_Product

\* Handle_CVar, whatever the product.
LEMMA CVarsMadeEarly ==
    ASSUME NEW type, EarlyList(vars, "any"), EarlyList(cvars, type),
           type = "Aqu_L3" => \A i \in 1..Len(vars) : NamedDims(vars[i])
    PROVE  MadeEarly(CVarsMade(type), type)
<1>1. EarlyList(vars, type)
  BY WeakerType
<1>2. CASE type \in {"Mea_SeaWiFS_L2", "Mea_SeaWiFS_L3", "Mea_Ozone"}
  BY <1>1, <1>2, MeaEarly, GeneralEarly DEF CVarsMade, Handle_CVar_Mea_SeaWiFS, Handle_CVar_Mea_Ozone
<1>3. CASE type = "Aqu_L3"
  BY <1>1, <1>3, AquEarly, GeneralEarly DEF CVarsMade
<1>4. CASE type = "OBPG_L3"
  BY <1>1, <1>4, GeneralProductEarly, OBPGEarly DEF CVarsMade
<1>5. CASE type = "OSMAPL2S"
  BY <1>1, <1>5, OSMAPL2SEarly, GeneralEarly DEF CVarsMade
<1>6. CASE type \in {"GPMS_L3", "GPMM_L3", "GPM_L3_New", "GPM_L1"}
  BY <1>1, <1>6, GPML3Early, GPML1Early, GeneralEarly DEF CVarsMade
<1>7. CASE type \notin {"Mea_SeaWiFS_L2", "Mea_SeaWiFS_L3", "Mea_Ozone", "Aqu_L3", "OBPG_L3", "OSMAPL2S",
                        "GPMS_L3", "GPMM_L3", "GPM_L3_New", "GPM_L1"}
  BY <1>1, <1>7, GeneralProductEarly DEF CVarsMade
<1> QED BY <1>2, <1>3, <1>4, <1>5, <1>6, <1>7

------------------------------------------------------------------------------
(***************************************************************************)
(* Special variables and shorter names.                                    *)
(***************************************************************************)

\* A variable that gets a name made of components of its name.
LEMMA ComponentsEarly ==
    ASSUME NEW type, NEW v, EarlyVar(v, type), NEW w, IsRecord(w), w.path = v.path,
           w.newname \in Seq(Name), w.newname # <<>>,
           \A i \in 1..Len(w.newname) : \E j \in 1..Len(v.newname) :
             Range(w.newname[i]) \subseteq Range(v.newname[j]) \cup {"Time", "Date"}
    PROVE  EarlyVar(w, type)
<1>1. KeepsName(w) <=> KeepsName(v)
  BY SamePathKeeps, Zenon
<1>2. "Time" \notin EosWords /\ "Date" \notin EosWords
  BY DEF EosWords
<1>3. ASSUME KeepsName(w), NEW x \in EosWords, NEW i \in 1..Len(w.newname) PROVE x \notin Range(w.newname[i])
  <2>1. PICK j \in 1..Len(v.newname) : Range(w.newname[i]) \subseteq Range(v.newname[j]) \cup {"Time", "Date"}
    OBVIOUS
  <2>2. x \notin Range(v.newname[j])
    BY <1>1, <1>3, Zenon DEF EarlyVar
  <2> QED BY <1>2, <2>1, <2>2
<1> QED BY <1>3 DEF EarlyVar

\* A change of the elements of a list that are each of a kind.
LEMMA MappedEarly ==
    ASSUME NEW type, NEW s, EarlyList(s, type), NEW t, t = [i \in DOMAIN s |-> t[i]],
           \A i \in DOMAIN s : EarlyVar(t[i], type)
    PROVE  EarlyList(t, type)
<1>1. IsList(t) /\ Len(t) = Len(s) /\ DOMAIN s = 1..Len(s)
  BY MappedIsList, ListIs, Zenon DEF EarlyList
<1> QED BY <1>1, Zenon DEF EarlyList

LastOf(v) == [v EXCEPT !.newname = <<Last(v.newname)>>]

\* A variable that is named by its last name has a path for its name.
LEMMA LastOfEarly ==
    ASSUME NEW type, type # "Aqu_L3", NEW v, EarlyVar(v, type)
    PROVE  EarlyVar(LastOf(v), type)
<1> DEFINE p == v.newname
           w == LastOf(v)
<1>1. p \in Seq(Name) /\ p # <<>> /\ IsRecord(v)
  BY DEF EarlyVar
<1>2. IsRecord(w) /\ w.path = v.path /\ w.newname = <<Last(p)>>
  BY <1>1 DEF LastOf, IsRecord, Fields
<1> HIDE DEF w
<1>3. /\ w.newname \in Seq(Name) /\ w.newname # <<>> /\ Len(w.newname) = 1
      /\ Len(p) \in 1..Len(p) /\ w.newname[1] = p[Len(p)]
  BY <1>1, <1>2, LastIs
<1>4. \A i \in 1..Len(w.newname) : \E j \in 1..Len(p) : Range(w.newname[i]) \subseteq Range(p[j]) \cup {"Time", "Date"}
  BY <1>3
<1>7. EarlyVar(w, type)
  BY <1>2, <1>3, <1>4, ComponentsEarly, Zenon
<1> QED BY <1>7 DEF w

\* So have all of them.
LEMMA ByLastNameEarly ==
    ASSUME NEW type, type # "Aqu_L3", NEW vs, EarlyList(vs, type)
    PROVE  EarlyList(ByLastName(vs), type)
<1> DEFINE t == [i \in DOMAIN vs |-> LastOf(vs[i])]
<1>1. ByLastName(vs) = t
  BY DEF ByLastName, LastOf
<1>2. t = [i \in DOMAIN vs |-> t[i]]
  OBVIOUS
<1>3. ASSUME NEW i \in DOMAIN vs PROVE EarlyVar(t[i], type)
  <2>1. EarlyVar(vs[i], type) /\ t[i] = LastOf(vs[i])
    BY ListIs DEF EarlyList
  <2> QED BY <2>1, LastOfEarly
<1> HIDE DEF t
<1> QED BY <1>1, <1>2, <1>3, MappedEarly, Zenon

AfterGrid(path) == IF Len(path) < 3 THEN <<Last(path)>> ELSE SubSeq(path, 3, Len(path))
Ungridded(v) == [v EXCEPT !.newname = AfterGrid(v.newname)]

\* A variable that is named by what follows the name of the grid has a path for its name.
LEMMA UngriddedEarly ==
    ASSUME NEW type, type # "Aqu_L3", NEW v, EarlyVar(v, type)
    PROVE  EarlyVar(Ungridded(v), type)
<1> DEFINE p == v.newname
           q == AfterGrid(p)
           w == Ungridded(v)
<1>1. p \in Seq(Name) /\ p # <<>> /\ IsRecord(v)
  BY DEF EarlyVar
<1>2. IsRecord(w) /\ w.path = v.path /\ w.newname = q
  <2> HIDE DEF q
  <2>1. w = [v EXCEPT !.newname = q]
    BY DEF Ungridded, q
  <2> QED BY <1>1, <2>1 DEF IsRecord, Fields
<1> HIDE DEF w
<1>3. q \in Seq(Name) /\ q # <<>> /\ \A i \in 1..Len(q) : \E j \in 1..Len(p) : q[i] = p[j]
  <2> HIDE DEF p
  <2>1. CASE Len(p) < 3
    <3>1. q = <<Last(p)>>
      BY <2>1 DEF AfterGrid
    <3>2. q \in Seq(Name) /\ q # <<>> /\ Len(q) = 1 /\ Len(p) \in 1..Len(p) /\ q[1] = p[Len(p)]
      BY <1>1, <3>1, LastIs
    <3> QED BY <3>2
  <2>2. CASE ~(Len(p) < 3)
    <3>1. q = SubSeq(p, 3, Len(p)) /\ Len(p) \in Nat /\ Len(p) >= 3
      BY <1>1, <2>2 DEF AfterGrid
    <3>2. q \in Seq(Name) /\ Len(q) = Len(p) - 2 /\ \A i \in 1..Len(q) : q[i] = p[i + 2] /\ i + 2 \in 1..Len(p)
      BY <1>1, <3>1
    <3> HIDE DEF q
    <3>3. q # <<>>
      <4>1. Len(q) \in Nat /\ Len(q) # 0
        BY <3>1, <3>2
      <4> QED BY <4>1
    <3>4. \A i \in 1..Len(q) : \E j \in 1..Len(p) : q[i] = p[j]
      BY <3>2
    <3> QED BY <3>2, <3>3, <3>4
  <2> QED BY <2>1, <2>2
<1> HIDE DEF q
<1>4. \A i \in 1..Len(w.newname) : \E j \in 1..Len(p) : Range(w.newname[i]) \subseteq Range(p[j]) \cup {"Time", "Date"}
  <2> TAKE i \in 1..Len(w.newname)
  <2>1. \E j \in 1..Len(p) : w.newname[i] = p[j]
    BY <1>2, <1>3
  <2> QED BY <2>1
<1>5. w.newname \in Seq(Name) /\ w.newname # <<>>
  BY <1>2, <1>3
<1>7. EarlyVar(w, type)
  BY <1>2, <1>4, <1>5, ComponentsEarly, Zenon
<1> QED BY <1>7 DEF w

\* So have all of them.
LEMMA UngriddedListEarly ==
    ASSUME NEW type, type # "Aqu_L3", NEW vs, EarlyList(vs, type), NEW gs
    PROVE  EarlyList(Adjust_GPM_L3_Obj_Name(vs, gs), type)
<1> DEFINE t == [i \in DOMAIN vs |-> Ungridded(vs[i])]
<1>1. Adjust_GPM_L3_Obj_Name(vs, gs) = IF Len(gs) <= 1 THEN ByLastName(vs) ELSE t
  BY DEF Adjust_GPM_L3_Obj_Name, Ungridded, AfterGrid
<1>2. t = [i \in DOMAIN vs |-> t[i]]
  OBVIOUS
<1>3. ASSUME NEW i \in DOMAIN vs PROVE EarlyVar(t[i], type)
  <2>1. EarlyVar(vs[i], type) /\ t[i] = Ungridded(vs[i])
    BY ListIs DEF EarlyList
  <2> QED BY <2>1, UngriddedEarly
<1> HIDE DEF t
<1>4. EarlyList(t, type)
  BY <1>2, <1>3, MappedEarly, Zenon
<1> QED BY <1>1, <1>4, ByLastNameEarly

\* Adjust_Obj_Name.
LEMMA AdjustEarly ==
    ASSUME NEW type, NEW vs, EarlyList(vs, type), NEW cvs, EarlyList(cvs, type), NEW gs
    PROVE  MadeEarly(Adjust_Obj_Name(type, vs, cvs, gs), type)
<1>1. CASE type = "Mea_Ozone"
  BY <1>1, ByLastNameEarly DEF MadeEarly, Adjust_Obj_Name, Adjust_Mea_Ozone_Obj_Name
<1>2. CASE type \in {"GPMS_L3", "GPMM_L3"}
  BY <1>2, UngriddedListEarly DEF MadeEarly, Adjust_Obj_Name
<1>3. CASE type \notin {"Mea_Ozone", "GPMS_L3", "GPMM_L3"}
  BY <1>3 DEF MadeEarly, Adjust_Obj_Name
<1> QED BY <1>1, <1>2, <1>3

\* A half has the name of the variable with a word behind.
Half(v, word) == [v EXCEPT !.role = "special", !.type = "num",
                           !.newname = Front(v.newname) \o <<Append(Last(v.newname), word)>>]

\* A half of a 64-bit integer has a path for its name.
LEMMA HalfEarly ==
    ASSUME NEW type, type # "Aqu_L3", NEW v, EarlyVar(v, type), NEW word \in {"Time", "Date"}
    PROVE  EarlyVar(Half(v, word), type)
<1> DEFINE p == v.newname
           q == Front(p) \o <<Append(Last(p), word)>>
           w == Half(v, word)
<1>1. p \in Seq(Name) /\ p # <<>> /\ IsRecord(v)
  BY DEF EarlyVar
<1>2. IsRecord(w) /\ w.path = v.path /\ w.newname = q
  <2> HIDE DEF q
  <2>1. w = [v EXCEPT !.role = "special", !.type = "num", !.newname = q]
    BY DEF Half, q
  <2> QED BY <1>1, <2>1 DEF IsRecord, Fields
<1> HIDE DEF w
<1>3. q \in Seq(Name) /\ Len(q) = Len(p) /\ Len(p) \in Nat \ {0}
      /\ (\A i \in 1..(Len(p) - 1) : q[i] = p[i]) /\ q[Len(p)] = Append(p[Len(p)], word)
  <2> HIDE DEF p
  <2> DEFINE f == SubSeq(p, 1, Len(p) - 1)
             a == Append(p[Len(p)], word)
  <2>1. Len(p) \in Nat \ {0} /\ p[Len(p)] \in Name
    BY <1>1
  <2>2. f \in Seq(Name) /\ Len(f) = Len(p) - 1 /\ \A i \in 1..(Len(p) - 1) : f[i] = p[i]
    BY <1>1, <2>1, FrontIs
  <2>3. a \in Name
    <3> DEFINE n == p[Len(p)]
    <3>1. n \in Seq(Words) /\ word \in Words
      BY <2>1 DEF Name, Words
    <3> HIDE DEF n
    <3>2. Append(n, word) \in Seq(Words)
      BY <3>1
    <3> QED BY <3>2 DEF n, Name
  <2>4. q = f \o <<a>>
    BY DEF Front, Last, q
  <2> HIDE DEF f, a, q
  <2>5. f \o <<a>> \in Seq(Name) /\ (f \o <<a>>)[Len(f) + 1] = a /\ Len(f \o <<a>>) = Len(f) + 1
        /\ \A i \in 1..Len(f) : (f \o <<a>>)[i] = f[i]
    BY <2>2, <2>3
  <2>6. Len(f) + 1 = Len(p)
    BY <2>1, <2>2
  <2>7. q \in Seq(Name) /\ Len(q) = Len(p) /\ q[Len(p)] = a /\ \A i \in 1..(Len(p) - 1) : q[i] = p[i]
    BY <2>2, <2>4, <2>5, <2>6
  <2> QED BY <2>1, <2>7 DEF a
<1> HIDE DEF q
<1>4. \A i \in 1..Len(q) : Range(q[i]) \subseteq Range(p[i]) \cup {"Time", "Date"} /\ i \in 1..Len(p)
  <2> TAKE i \in 1..Len(q)
  <2>1. CASE i # Len(p)
    BY <1>3, <2>1
  <2>2. CASE i = Len(p)
    <3> DEFINE n == p[i]
    <3>1. n \in Seq(Words) /\ word \in Words /\ q[i] = Append(n, word)
      BY <1>1, <1>3, <2>2 DEF Name, Words
    <3> HIDE DEF n
    <3>2. Range(Append(n, word)) \subseteq Range(n) \cup {word}
      BY <3>1 DEF Range
    <3> QED BY <1>3, <2>2, <3>1, <3>2 DEF n
  <2> QED BY <2>1, <2>2
<1>5. \A i \in 1..Len(w.newname) : \E j \in 1..Len(p) : Range(w.newname[i]) \subseteq Range(p[j]) \cup {"Time", "Date"}
  BY <1>2, <1>4
<1>6. w.newname \in Seq(Name) /\ w.newname # <<>>
  BY <1>2, <1>3
<1>7. EarlyVar(w, type)
  BY <1>2, <1>5, <1>6, ComponentsEarly, Zenon
<1> QED BY <1>7 DEF w

\* So have the halves of all 64-bit integers.
LEMMA HalvesEarly ==
    ASSUME NEW type, type # "Aqu_L3", NEW longs, EarlyList(longs, type)
    PROVE  EarlyList(FlattenSeq([i \in DOMAIN longs |-> Halves(longs[i])]), type)
<1> DEFINE parts == [i \in DOMAIN longs |-> Halves(longs[i])]
           t == FlattenSeq(parts)
<1>1. IsList(parts) /\ Len(parts) = Len(longs) /\ DOMAIN longs = 1..Len(longs)
  BY MappedIsList, ListIs DEF EarlyList
<1>2. ASSUME NEW i \in 1..Len(parts)
      PROVE  IsList(parts[i]) /\ \A j \in 1..Len(parts[i]) : EarlyVar(parts[i][j], type)
  <2> DEFINE a == Half(longs[i], "Time")
             b == Half(longs[i], "Date")
  <2>1. parts[i] = <<a, b>>
    BY <1>1 DEF Halves, Half
  <2>2. EarlyVar(longs[i], type)
    BY <1>1 DEF EarlyList
  <2>3. EarlyVar(a, type) /\ EarlyVar(b, type)
    BY <2>2, HalfEarly
  <2> HIDE DEF a, b
  <2>4. <<a, b>> \in Seq({a, b}) /\ Len(<<a, b>>) = 2 /\ <<a, b>>[1] = a /\ <<a, b>>[2] = b
    OBVIOUS
  <2>5. IsList(<<a, b>>)
    BY <2>4, SeqIsList, Zenon
  <2>6. \A j \in 1..2 : EarlyVar(<<a, b>>[j], type)
    BY <2>3, <2>4
  <2> QED BY <2>1, <2>4, <2>5, <2>6
<1> HIDE DEF parts
<1>3. IsList(t)
  BY <1>1, <1>2, FlattenLists, Zenon
<1>4. ASSUME NEW k \in 1..Len(t) PROVE EarlyVar(t[k], type)
  <2>1. \E i \in 1..Len(parts) : \E j \in 1..Len(parts[i]) : t[k] = parts[i][j]
    BY <1>1, <1>2, <1>4, FlattenLists, Zenon
  <2> HIDE DEF t
  <2> QED BY <1>2, <2>1, Zenon
<1> HIDE DEF t
<1>5. EarlyList(t, type)
  BY <1>3, <1>4, Zenon DEF EarlyList
<1> QED BY <1>5 DEF t, parts

\* There is nothing wrong in an empty list.
LEMMA EmptyEarly ==
    ASSUME NEW type
    PROVE  EarlyList(<<>>, type)
<1>1. IsList(<<>>) /\ Len(<<>>) = 0 /\ 1..0 = {}
  BY EmptyIsList
<1> QED BY <1>1 DEF EarlyList

\* Handle_SpVar.
LEMMA SpVarEarly ==
    ASSUME NEW type, NEW vs, EarlyList(vs, type)
    PROVE  EarlyList(Handle_SpVar(type, vs).vars, type) /\ EarlyList(Handle_SpVar(type, vs).spvars, type)
<1> DEFINE runtime == {i \in DOMAIN vs : NameOf(vs[i].path) = <<"AlgorithmRuntimeInfo">>}
           longs == Those(vs, LAMBDA v : v.type = "int64")
           shorts == Those(vs, LAMBDA v : v.type # "int64")
           halves == FlattenSeq([i \in DOMAIN longs |-> Halves(longs[i])])
           first == ElementsAt(vs, {i \in DOMAIN vs : i \in runtime => \E j \in runtime : j < i})
           others == Those(vs, LAMBDA v : NameOf(v.path) \notin GPMInputs)
           made == Handle_SpVar(type, vs)
<1>1. made = CASE type = "ACOS_L2S_OR_OCO2_L1B" -> [vars |-> shorts, spvars |-> halves]
               [] type = "GPM_L1" -> [vars |-> first, spvars |-> <<>>]
               [] type \in {"GPMM_L3", "GPMS_L3", "GPM_L3_New"} -> [vars |-> others, spvars |-> <<>>]
               [] OTHER -> [vars |-> vs, spvars |-> <<>>]
  BY Zenon DEF Handle_SpVar
<1>2. EarlyList(longs, type) /\ EarlyList(shorts, type) /\ EarlyList(others, type)
  BY ElementsEarly, Zenon DEF Those
<1>3. EarlyList(first, type)
  <2> HIDE DEF runtime
  <2> QED BY ElementsEarly, Zenon
<1> HIDE DEF longs
<1>4. type # "Aqu_L3" => EarlyList(halves, type)
  BY <1>2, HalvesEarly, Zenon
<1> HIDE DEF made, shorts, others, first, halves
<1>5. EarlyList(made.vars, type) /\ EarlyList(made.spvars, type)
  BY <1>1, <1>2, <1>3, <1>4, EmptyEarly
<1> QED BY <1>5 DEF made

------------------------------------------------------------------------------
(***************************************************************************)
(* The invariant.                                                          *)
(***************************************************************************)

\* The variables of a list that keep their names have different ones.
Alone(s) == \A i, j \in 1..Len(s) : KeepsName(s[i]) /\ KeepsName(s[j]) /\ s[i].newname = s[j].newname => i = j

\* No variable of the one list has the name of one of the other, if both keep theirs.
Apart(s, t) ==
    \A i \in 1..Len(s), j \in 1..Len(t) : KeepsName(s[i]) /\ KeepsName(t[j]) => s[i].newname # t[j].newname

\* None has a name of a group.
Away(s, gs) == \A i \in 1..Len(s) : KeepsName(s[i]) => s[i].newname \notin Range(gs)

\* After names have been made unique.
AllApart(us, cs, ss) == Alone(us) /\ Alone(cs) /\ Alone(ss) /\ Apart(cs, ss) /\ Apart(cs, us) /\ Apart(ss, us)
GroupsApart(us, cs, ss, gs) ==
    gs \in Seq(Name) /\ IsInjective(gs) /\ Away(us, gs) /\ Away(cs, gs) /\ Away(ss, gs)

Late ==
    /\ LateList(vars) /\ LateList(cvars) /\ LateList(spvars)
    /\ AllApart(vars, cvars, spvars)
    /\ view # "DDS" => GroupsApart(vars, cvars, spvars, groups)

\* What holds when the stage of this number is next.
Reached(k) ==
    /\ k \in 1..4 => /\ EarlyList(vars, "any") /\ cvars = <<>> /\ spvars = <<>>
                     /\ product_type = "Aqu_L3" => \A i \in 1..Len(vars) : NamedDims(vars[i])
    /\ k \in 5..9 => /\ EarlyList(vars, product_type) /\ EarlyList(cvars, product_type)
                     /\ EarlyList(spvars, product_type)
    /\ k \in 1..9 => groups \in Seq(Paths)
    /\ k = 10 => /\ FlatList(vars) /\ FlatList(cvars) /\ FlatList(spvars)
                 /\ view # "DDS" => groups \in Seq(Name)
    /\ k > 10 /\ Clashes => Late

Rest(k) == SubSeq(Stages(view), k, Len(Stages(view)))

Answered(v) == answers[v] # None /\ answers[v] # Failed

IInv ==
    /\ file \in Files /\ view \in Views
    /\ answers = [v \in Views |-> answers[v]]
    /\ \A v \in Views : Answered(v) /\ Clashes => NamesApart(v)
    /\ todo # <<>> => \E k \in 1..Len(Stages(view)) : todo = Rest(k) /\ Reached(k)

------------------------------------------------------------------------------
(***************************************************************************)
(* DAP names.                                                              *)
(***************************************************************************)

\* The DAP name of a name that is a path still has the words of its components.
LEMMA FlatName ==
    ASSUME NEW n \in Seq(Name)
    PROVE  /\ get_CF_string(n) \in Name
           /\ \A w : w \in Range(get_CF_string(n)) => \E i \in 1..Len(n) : w \in Range(n[i])
<1>1. n \in Seq(Seq(Words))
  BY DEF Name
<1>2. /\ FlattenSeq(n) \in Seq(Words)
      /\ \A w : w \in Range(FlattenSeq(n)) => \E i \in 1..Len(n) : w \in Range(n[i])
  BY <1>1, FlattenIs, Zenon
<1> QED BY <1>2, Zenon DEF get_CF_string, Name

\* Flatten_Obj_Name makes a DAP name of the path of a variable.
LEMMA FlatOf ==
    ASSUME NEW type, NEW v, EarlyVar(v, type)
    PROVE  FlatVar(Flat(v))
<1> DEFINE w == Flat(v)
           n == get_CF_string(v.newname)
<1>2. IsRecord(v) /\ v.newname \in Seq(Name)
  BY DEF EarlyVar
<1>3. IsRecord(w) /\ w.path = v.path /\ w.newname = n
  BY <1>2 DEF Flat, IsRecord, Fields
<1> HIDE DEF n, w
<1>4. n \in Name /\ \A x : x \in Range(n) => \E i \in 1..Len(v.newname) : x \in Range(v.newname[i])
  BY <1>2, FlatName, Zenon DEF n
<1>5. KeepsName(w) <=> KeepsName(v)
  BY <1>3, SamePathKeeps, Zenon
<1>6. KeepsName(w) => \A x \in EosWords : x \notin Range(w.newname)
  BY <1>3, <1>4, <1>5, Zenon DEF EarlyVar
<1> QED BY <1>3, <1>4, <1>6, Zenon DEF FlatVar, w

\* Flatten_Obj_Name.
LEMMA FlatListOf ==
    ASSUME NEW type, NEW vs, EarlyList(vs, type)
    PROVE  FlatList([i \in DOMAIN vs |-> Flat(vs[i])])
<1> DEFINE t == [i \in DOMAIN vs |-> Flat(vs[i])]
<1>1. IsList(t) /\ Len(t) = Len(vs) /\ DOMAIN vs = 1..Len(vs)
  BY MappedIsList, ListIs DEF EarlyList
<1>2. ASSUME NEW i \in 1..Len(t) PROVE FlatVar(t[i])
  <2>1. EarlyVar(vs[i], type) /\ t[i] = Flat(vs[i])
    BY <1>1 DEF EarlyList
  <2> QED BY <2>1, FlatOf, Zenon
<1> HIDE DEF t
<1>3. FlatList(t)
  BY <1>1, <1>2, Zenon DEF FlatList
<1> QED BY <1>3 DEF t

\* And of those of the groups.
LEMMA FlatGroups ==
    ASSUME NEW gs \in Seq(Paths)
    PROVE  [i \in DOMAIN gs |-> get_CF_string(gs[i])] \in Seq(Name)
<1> DEFINE t == [i \in DOMAIN gs |-> get_CF_string(gs[i])]
<1>1. Len(gs) \in Nat /\ DOMAIN gs = 1..Len(gs) /\ \A i \in 1..Len(gs) : gs[i] \in Paths
  OBVIOUS
<1>2. \A i \in 1..Len(gs) : get_CF_string(gs[i]) \in Name
  BY <1>1, PathsAreNames, FlatName, Zenon
<1> HIDE DEF Name
<1> QED BY <1>1, <1>2

------------------------------------------------------------------------------
(***************************************************************************)
(* Unique names.                                                           *)
(***************************************************************************)

\* No number is one of the words that are removed from names.
OtherNumbers == \A i \in Nat : ToString(i) \notin EosWords

\* A name that was changed, or not.
LEMMA NumberedKeeps ==
    ASSUME OtherNumbers, NEW n \in Name, NEW m, m = n \/ Numbered(n, m), NEW x \in EosWords, x \notin Range(n)
    PROVE  x \notin Range(m)
<1>1. CASE m = n
  BY <1>1
<1>2. CASE Numbered(n, m)
  <2>1. PICK i \in Nat : m = n \o <<ToString(i)>>
    BY <1>2 DEF Numbered
  <2> DEFINE t == ToString(i)
             S == Words \cup {t}
  <2>2. n \in Seq(Words) /\ t # x
    BY DEF Name, OtherNumbers
  <2>3. Words \subseteq S /\ t \in S
    OBVIOUS
  <2> HIDE DEF S, t
  <2>4. n \in Seq(S) /\ <<t>> \in Seq(S)
    BY <2>2, <2>3, SeqInSeq
  <2>5. x \in Range(n \o <<t>>) <=> x \in Range(n) \/ x \in Range(<<t>>)
    BY <2>4, ConcatRange
  <2>6. x \notin Range(<<t>>)
    BY <2>2 DEF Range
  <2> QED BY <2>1, <2>5, <2>6 DEF t
<1> QED BY <1>1, <1>2

\* The names of a list of variables, in their places.
LEMMA NamesOfList ==
    ASSUME NEW s, FlatList(s)
    PROVE  /\ NewNames(s) \in Seq(Name) /\ Len(NewNames(s)) = Len(s) /\ DOMAIN s = 1..Len(s) /\ Len(s) \in Nat
           /\ \A i \in 1..Len(s) : NewNames(s)[i] = s[i].newname
<1>1. DOMAIN s = 1..Len(s) /\ Len(s) \in Nat /\ \A i \in 1..Len(s) : s[i].newname \in Name
  BY ListIs, Zenon DEF FlatList, FlatVar
<1>2. NewNames(s) = [i \in 1..Len(s) |-> s[i].newname]
  BY <1>1 DEF NewNames
<1> HIDE DEF Name
<1>3. NewNames(s) \in Seq(Name) /\ Len(NewNames(s)) = Len(s)
  BY <1>1, <1>2
<1> QED BY <1>1, <1>2, <1>3

\* A list with names that were told apart from each other and from those taken: they
\* are all different and none is taken before, and all are taken for the next list.
LEMMA RenamedIs ==
    ASSUME Digits, OtherNumbers, NEW s, FlatList(s), NEW taken, IsFiniteSet(taken)
    PROVE  LET r == Handle_General_NameClashing(taken, NewNames(s))
               t == Renamed(s, r.names)
           IN  /\ LateList(t) /\ Alone(t) /\ Len(t) = Len(s)
               /\ \A i \in 1..Len(t) : t[i].newname \notin taken /\ t[i].newname \in r.taken
               /\ IsFiniteSet(r.taken) /\ taken \subseteq r.taken
<1> DEFINE names == NewNames(s)
           r == Handle_General_NameClashing(taken, names)
           t == Renamed(s, r.names)
<1>1. /\ names \in Seq(Name) /\ Len(names) = Len(s) /\ DOMAIN s = 1..Len(s) /\ Len(s) \in Nat
      /\ \A i \in 1..Len(s) : names[i] = s[i].newname
  BY NamesOfList
<1> HIDE DEF names
<1>2. ToldApart(taken, names, r)
  BY <1>1, ClashingTheorem, Zenon
<1> HIDE DEF r
<1>3. /\ r.names \in Seq(Name) /\ Len(r.names) = Len(s) /\ IsInjective(r.names)
      /\ \A i \in 1..Len(s) : r.names[i] \notin taken /\ (r.names[i] = names[i] \/ Numbered(names[i], r.names[i]))
      /\ IsFiniteSet(r.taken) /\ taken \subseteq r.taken /\ Range(r.names) \subseteq r.taken
  BY <1>1, <1>2 DEF ToldApart
<1>4. DOMAIN r.names = 1..Len(s)
  <2> HIDE DEF Name
  <2> QED BY <1>3
<1>5. t = [i \in DOMAIN s |-> t[i]] /\ \A i \in DOMAIN s : t[i] = [s[i] EXCEPT !.newname = r.names[i]]
  BY DEF Renamed
<1> HIDE DEF t
<1>6. IsList(t) /\ Len(t) = Len(s)
  BY <1>5, MappedIsList, Zenon DEF FlatList
<1>7. ASSUME NEW i \in 1..Len(s)
      PROVE  /\ IsRecord(t[i]) /\ t[i].path = s[i].path /\ t[i].newname = r.names[i]
             /\ KeepsName(t[i]) => \A x \in EosWords : x \notin Range(t[i].newname)
  <2>1. FlatVar(s[i])
    BY DEF FlatList
  <2>2. t[i] = [s[i] EXCEPT !.newname = r.names[i]]
    BY <1>1, <1>5
  <2>3. IsRecord(t[i]) /\ t[i].path = s[i].path /\ t[i].newname = r.names[i]
    BY <2>1, <2>2 DEF FlatVar, IsRecord, Fields
  <2>4. KeepsName(t[i]) <=> KeepsName(s[i])
    BY <2>3, SamePathKeeps, Zenon
  <2>5. s[i].newname \in Name /\ (KeepsName(s[i]) => \A x \in EosWords : x \notin Range(s[i].newname))
    BY <2>1 DEF FlatVar
  <2>6. r.names[i] = s[i].newname \/ Numbered(s[i].newname, r.names[i])
    BY <1>1, <1>3
  <2>7. KeepsName(t[i]) => \A x \in EosWords : x \notin Range(t[i].newname)
    BY <2>3, <2>4, <2>5, <2>6, NumberedKeeps, Zenon
  <2> QED BY <2>3, <2>7
<1>8. LateList(t)
  BY <1>6, <1>7, Zenon DEF LateList, LateVar
<1>9. Alone(t)
  BY <1>3, <1>4, <1>6, <1>7 DEF Alone, IsInjective
<1>10. \A i \in 1..Len(t) : t[i].newname \notin taken /\ t[i].newname \in r.taken
  BY <1>3, <1>4, <1>6, <1>7 DEF Range
<1> QED BY <1>3, <1>6, <1>8, <1>9, <1>10 DEF t, r, names

------------------------------------------------------------------------------
(***************************************************************************)
(* What is changed after names were made unique.                           *)
(***************************************************************************)

\* Every variable of the new list that keeps its name is one of the old list that
\* does, with its name; and each is another one.
Embeds(old, new) ==
    \E f \in [1..Len(new) -> 1..Len(old)] :
      /\ IsInjective(f)
      /\ \A k \in 1..Len(new) : KeepsName(new[k]) => KeepsName(old[f[k]]) /\ new[k].newname = old[f[k]].newname

\* Different names stay different.
LEMMA EmbedsAlone ==
    ASSUME NEW s, NEW t, Embeds(s, t), Alone(s)
    PROVE  Alone(t)
<1>1. PICK f \in [1..Len(t) -> 1..Len(s)] :
        /\ IsInjective(f)
        /\ \A k \in 1..Len(t) : KeepsName(t[k]) => KeepsName(s[f[k]]) /\ t[k].newname = s[f[k]].newname
  BY Zenon DEF Embeds
<1>2. ASSUME NEW i \in 1..Len(t), NEW j \in 1..Len(t), KeepsName(t[i]), KeepsName(t[j]), t[i].newname = t[j].newname
      PROVE  i = j
  <2>1. /\ f[i] \in 1..Len(s) /\ f[j] \in 1..Len(s) /\ KeepsName(s[f[i]]) /\ KeepsName(s[f[j]])
        /\ s[f[i]].newname = s[f[j]].newname
    BY <1>1, <1>2
  <2>2. f[i] = f[j]
    BY <2>1, Zenon DEF Alone
  <2> QED BY <1>1, <2>2 DEF IsInjective
<1> QED BY <1>2, Zenon DEF Alone

\* Names of two lists too.
LEMMA EmbedsApart ==
    ASSUME NEW s, NEW t, Embeds(s, t), NEW u, NEW v, Embeds(u, v), Apart(s, u)
    PROVE  Apart(t, v)
<1>1. PICK f \in [1..Len(t) -> 1..Len(s)] :
        \A k \in 1..Len(t) : KeepsName(t[k]) => KeepsName(s[f[k]]) /\ t[k].newname = s[f[k]].newname
  BY Zenon DEF Embeds
<1>2. PICK g \in [1..Len(v) -> 1..Len(u)] :
        \A k \in 1..Len(v) : KeepsName(v[k]) => KeepsName(u[g[k]]) /\ v[k].newname = u[g[k]].newname
  BY Zenon DEF Embeds
<1>3. ASSUME NEW i \in 1..Len(t), NEW j \in 1..Len(v), KeepsName(t[i]), KeepsName(v[j])
      PROVE  t[i].newname # v[j].newname
  <2>1. /\ f[i] \in 1..Len(s) /\ KeepsName(s[f[i]]) /\ t[i].newname = s[f[i]].newname
        /\ g[j] \in 1..Len(u) /\ KeepsName(u[g[j]]) /\ v[j].newname = u[g[j]].newname
    BY <1>1, <1>2, <1>3
  <2>2. s[f[i]].newname # u[g[j]].newname
    BY <2>1, Zenon DEF Apart
  <2> QED BY <2>1, <2>2, Zenon
<1> QED BY <1>3, Zenon DEF Apart

\* And from those of groups.
LEMMA EmbedsAway ==
    ASSUME NEW s, NEW t, Embeds(s, t), NEW gs, Away(s, gs)
    PROVE  Away(t, gs)
<1>1. PICK f \in [1..Len(t) -> 1..Len(s)] :
        \A k \in 1..Len(t) : KeepsName(t[k]) => KeepsName(s[f[k]]) /\ t[k].newname = s[f[k]].newname
  BY Zenon DEF Embeds
<1>2. ASSUME NEW i \in 1..Len(t), KeepsName(t[i]) PROVE t[i].newname \notin Range(gs)
  <2>1. f[i] \in 1..Len(s) /\ KeepsName(s[f[i]]) /\ t[i].newname = s[f[i]].newname
    BY <1>1, <1>2
  <2> QED BY <2>1, Zenon DEF Away
<1> QED BY <1>2, Zenon DEF Away

\* A change of the elements of a list that leaves the names that are kept.
LEMMA MappedEmbeds ==
    ASSUME NEW s, LateList(s), NEW t, t = [i \in DOMAIN s |-> t[i]],
           \A i \in DOMAIN s : /\ IsRecord(t[i]) /\ t[i].path = s[i].path
                               /\ KeepsName(s[i]) => t[i].newname = s[i].newname
    PROVE  LateList(t) /\ Embeds(s, t)
<1>1. IsList(t) /\ Len(t) = Len(s) /\ DOMAIN s = 1..Len(s)
  BY MappedIsList, ListIs, Zenon DEF LateList
<1>2. \A i \in 1..Len(s) : KeepsName(t[i]) <=> KeepsName(s[i])
  BY <1>1, SamePathKeeps, Zenon
<1>3. LateList(t)
  <2>1. \A i \in 1..Len(t) : LateVar(t[i])
    BY <1>1, <1>2, Zenon DEF LateList, LateVar
  <2> QED BY <1>1, <2>1, Zenon DEF LateList
<1>4. Embeds(s, t)
  <2> DEFINE f == [k \in 1..Len(t) |-> k]
  <2>1. f \in [1..Len(t) -> 1..Len(s)] /\ IsInjective(f) /\ \A k \in 1..Len(t) : f[k] = k
    BY <1>1 DEF IsInjective
  <2> HIDE DEF f
  <2>2. \A k \in 1..Len(t) : KeepsName(t[k]) => KeepsName(s[f[k]]) /\ t[k].newname = s[f[k]].newname
    BY <1>1, <1>2, <2>1, Zenon
  <2> QED BY <2>1, <2>2, Zenon DEF Embeds
<1> QED BY <1>3, <1>4

\* A change that leaves paths and names leaves the names that are kept.
LEMMA KeptEmbeds ==
    ASSUME NEW s, LateList(s), NEW t, NamesKept(s, t)
    PROVE  LateList(t) /\ Embeds(s, t)
<1>1. \A i \in DOMAIN s : IsRecord(s[i])
  BY ListIs, Zenon DEF LateList, LateVar
<1>2. \A i \in DOMAIN s : IsRecord(t[i]) /\ t[i].path = s[i].path /\ t[i].newname = s[i].newname
  BY <1>1, Zenon DEF NamesKept, SameName
<1>3. t = [i \in DOMAIN s |-> t[i]]
  BY Zenon DEF NamesKept
<1> QED BY <1>2, <1>3, MappedEmbeds, Zenon

\* So does no change.
LEMMA SameEmbeds ==
    ASSUME NEW s, LateList(s)
    PROVE  Embeds(s, s)
BY AllKept, KeptEmbeds, Zenon DEF LateList

\* So does leaving out variables.
LEMMA PartEmbeds ==
    ASSUME NEW s, LateList(s), NEW places
    PROVE  LateList(ElementsAt(s, places)) /\ Embeds(s, ElementsAt(s, places))
<1> DEFINE t == ElementsAt(s, places)
<1>1. PartOf(t, s)
  BY ElementsArePart, Zenon DEF LateList
<1> HIDE DEF t
<1>2. PICK p : /\ p \in [1..Len(t) -> 1..Len(s)] /\ IsInjective(p)
               /\ \A k \in 1..Len(t) : t[k] = s[p[k]]
  BY <1>1, Zenon DEF PartOf
<1>3. \A k \in 1..Len(t) : KeepsName(t[k]) => KeepsName(s[p[k]]) /\ t[k].newname = s[p[k]].newname
  BY <1>2, Zenon
<1>4. \A k \in 1..Len(t) : LateVar(t[k])
  BY <1>2, Zenon DEF LateList
<1>5. LateList(t) /\ Embeds(s, t)
  BY <1>1, <1>2, <1>3, <1>4, Zenon DEF LateList, Embeds, PartOf
<1> QED BY <1>5 DEF t

\* Changes that leave the names that are kept leave what is true of all lists.
LEMMA ApartStays ==
    ASSUME NEW us, NEW us2, Embeds(us, us2), NEW cs, NEW cs2, Embeds(cs, cs2), NEW ss, NEW ss2, Embeds(ss, ss2),
           AllApart(us, cs, ss)
    PROVE  /\ AllApart(us2, cs2, ss2)
           /\ \A gs : GroupsApart(us, cs, ss, gs) => GroupsApart(us2, cs2, ss2, gs)
<1>1. Alone(us2) /\ Alone(cs2) /\ Alone(ss2)
  BY EmbedsAlone, Zenon DEF AllApart
<1>2. Apart(cs2, ss2) /\ Apart(cs2, us2) /\ Apart(ss2, us2)
  BY EmbedsApart, Zenon DEF AllApart
<1>3. \A gs : GroupsApart(us, cs, ss, gs) => GroupsApart(us2, cs2, ss2, gs)
  BY EmbedsAway, Zenon DEF GroupsApart
<1> QED BY <1>1, <1>2, <1>3, Zenon DEF AllApart

\* Handle_Hybrid_EOS5 does not change the name of a variable that keeps it.
LEMMA EOS5Keeps ==
    ASSUME NEW v, LateVar(v)
    PROVE  /\ IsRecord(WithoutEOS5(v)) /\ WithoutEOS5(v).path = v.path
           /\ KeepsName(v) => WithoutEOS5(v).newname = v.newname
<1>1. IsRecord(v)
  BY DEF LateVar
<1> DEFINE n == Remove_EOS5_Strings(v.newname)
           w == WithoutEOS5(v)
<1>3. IsRecord(w) /\ w.path = v.path /\ w.newname = n
  BY <1>1 DEF WithoutEOS5, IsRecord, Fields
<1> HIDE DEF n, w
<1>4. ASSUME KeepsName(v) PROVE n = v.newname
  <2> DEFINE name == v.newname
  <2>1. ~Has(name, "HDFEOS") /\ ~Has(name, "HDFEOS_INFORMATION")
    BY <1>4 DEF LateVar, EosWords, Has
  <2>2. Drop(name, "HDFEOS_INFORMATION") = name
    BY <2>1 DEF Drop
  <2>3. n = Drop(name, "HDFEOS_INFORMATION")
    BY <2>1, Zenon DEF n, Remove_EOS5_Strings
  <2> QED BY <2>2, <2>3
<1> QED BY <1>3, <1>4 DEF w

\* Nor those of a list.
LEMMA EOS5List ==
    ASSUME NEW s, LateList(s)
    PROVE  LateList([i \in DOMAIN s |-> WithoutEOS5(s[i])]) /\ Embeds(s, [i \in DOMAIN s |-> WithoutEOS5(s[i])])
<1> DEFINE t == [i \in DOMAIN s |-> WithoutEOS5(s[i])]
<1>1. \A i \in DOMAIN s : LateVar(s[i])
  BY ListIs, Zenon DEF LateList
<1>2. \A i \in DOMAIN s : t[i] = WithoutEOS5(s[i])
  OBVIOUS
<1>3. t = [i \in DOMAIN s |-> t[i]]
  OBVIOUS
<1> HIDE DEF t
<1>4. \A i \in DOMAIN s : /\ IsRecord(t[i]) /\ t[i].path = s[i].path
                          /\ KeepsName(s[i]) => t[i].newname = s[i].newname
  BY <1>1, <1>2, EOS5Keeps
<1>5. LateList(t) /\ Embeds(s, t)
  BY <1>3, <1>4, MappedEmbeds, Zenon
<1> QED BY <1>5 DEF t

\* The attribute coordinates that Handle_Hybrid_EOS5 changes leaves the name.
LEMMA EOS5CoordinatesKept ==
    ASSUME NEW v, IsRecord(v)
    PROVE  SameName(v, WithEOS5Coordinates(v))
<1> DEFINE cs == EOS5Coordinates(v.coordinates)
<1>1. SameName(v, v) /\ SameName(v, [v EXCEPT !.coordinates = cs, !.addpath = FALSE])
  BY WithCoordinatesKept DEF SameName
<1>2. WithEOS5Coordinates(v) = v \/ WithEOS5Coordinates(v) = [v EXCEPT !.coordinates = cs, !.addpath = FALSE]
  BY Zenon DEF WithEOS5Coordinates
<1> HIDE DEF cs
<1> QED BY <1>1, <1>2, Zenon

\* So the variables keep their names too, which get both.
LEMMA EOS5VarList ==
    ASSUME NEW s, LateList(s)
    PROVE  /\ LateList([i \in DOMAIN s |-> WithEOS5Coordinates(WithoutEOS5(s[i]))])
           /\ Embeds(s, [i \in DOMAIN s |-> WithEOS5Coordinates(WithoutEOS5(s[i]))])
<1> DEFINE t == [i \in DOMAIN s |-> WithEOS5Coordinates(WithoutEOS5(s[i]))]
<1>1. \A i \in DOMAIN s : LateVar(s[i])
  BY ListIs, Zenon DEF LateList
<1>2. \A i \in DOMAIN s : t[i] = WithEOS5Coordinates(WithoutEOS5(s[i]))
  OBVIOUS
<1>3. t = [i \in DOMAIN s |-> t[i]]
  OBVIOUS
<1> HIDE DEF t
<1>4. ASSUME NEW i \in DOMAIN s
      PROVE  /\ IsRecord(t[i]) /\ t[i].path = s[i].path
             /\ KeepsName(s[i]) => t[i].newname = s[i].newname
  <2> DEFINE w == WithoutEOS5(s[i])
  <2>1. IsRecord(w) /\ w.path = s[i].path /\ (KeepsName(s[i]) => w.newname = s[i].newname)
    BY <1>1, EOS5Keeps
  <2>2. t[i] = WithEOS5Coordinates(w)
    BY <1>2
  <2> HIDE DEF w
  <2>3. SameName(w, t[i])
    BY <2>1, <2>2, EOS5CoordinatesKept
  <2> QED BY <2>1, <2>3 DEF SameName
<1>5. LateList(t) /\ Embeds(s, t)
  BY <1>3, <1>4, MappedEmbeds, Zenon
<1> QED BY <1>5 DEF t

\* Rename_NC4_NonCoordVars does not either.
LEMMA RestoredList ==
    ASSUME NEW s, LateList(s)
    PROVE  LateList([i \in DOMAIN s |-> Restored(s[i])]) /\ Embeds(s, [i \in DOMAIN s |-> Restored(s[i])])
<1> DEFINE t == [i \in DOMAIN s |-> Restored(s[i])]
<1>1. \A i \in DOMAIN s : IsRecord(s[i])
  BY ListIs, Zenon DEF LateList, LateVar
<1>2. t = [i \in DOMAIN s |-> t[i]]
  OBVIOUS
<1>3. ASSUME NEW i \in DOMAIN s
      PROVE  /\ IsRecord(t[i]) /\ t[i].path = s[i].path
             /\ KeepsName(s[i]) => t[i].newname = s[i].newname
  <2> DEFINE v == s[i]
             n == CutNC4(v.newname)
  <2>1. t[i] = IF IsNonCoord(v) THEN [v EXCEPT !.newname = n] ELSE v
    BY DEF Restored
  <2>2. IsRecord(v) /\ (KeepsName(v) => ~IsNonCoord(v))
    BY <1>1 DEF KeepsName
  <2> HIDE DEF n, t
  <2>3. CASE IsNonCoord(v)
    <3>1. t[i] = [v EXCEPT !.newname = n]
      BY <2>1, <2>3
    <3>2. IsRecord(t[i]) /\ t[i].path = v.path
      BY <2>2, <3>1 DEF IsRecord, Fields
    <3> QED BY <2>2, <2>3, <3>2
  <2>4. CASE ~IsNonCoord(v)
    BY <2>1, <2>2, <2>4
  <2> QED BY <2>3, <2>4
<1> HIDE DEF t
<1>4. LateList(t) /\ Embeds(s, t)
  BY <1>2, <1>3, MappedEmbeds, Zenon
<1> QED BY <1>4 DEF t

\* Names of dimensions.
LEMMA WithDimsListKept ==
    ASSUME NEW s, NEW f
    PROVE  NamesKept(s, [i \in DOMAIN s |-> WithDims(s[i], f)])
<1>1. \A i \in DOMAIN s : IsRecord(s[i]) => SameName(s[i], WithDims(s[i], f))
  BY WithDimsKept, Zenon DEF WithDims
<1>2. [i \in DOMAIN s |-> WithDims(s[i], f)] = [i \in DOMAIN s |-> [i2 \in DOMAIN s |-> WithDims(s[i2], f)][i]]
  OBVIOUS
<1> QED BY <1>1 DEF NamesKept

\* A dimension that is named after its coordinate variable leaves the name of the variable.
LEMMA NamedByItselfKept ==
    ASSUME NEW s
    PROVE  NamesKept(s, [i \in DOMAIN s |-> NamedByItself(s[i])])
BY DEF NamesKept, SameName, IsRecord, Fields, NamedByItself

\* The attribute coordinates.
LEMMA FlattenVarPathKept ==
    ASSUME NEW v, IsRecord(v)
    PROVE  SameName(v, Flatten_VarPath_In_Coordinates_Attr(v)) /\ SameName(v, Add_VarPath_In_Coordinates_Attr(v))
<1>1. SameName(v, v)
  BY DEF SameName
<1> QED BY <1>1, WithCoordinatesKept, Zenon DEF Flatten_VarPath_In_Coordinates_Attr, Add_VarPath_In_Coordinates_Attr

\* Handle_LatLon_With_CoordinateAttr_Coor_Attr leaves the name.
LEMMA PairsCoorAttrKept ==
    ASSUME NEW v, IsRecord(v), NEW pairs
    PROVE  SameName(v, Handle_LatLon_With_CoordinateAttr_Coor_Attr(v, pairs))
<1>1. SameName(v, v)
  BY DEF SameName
<1> QED BY <1>1, FlattenVarPathKept DEF Handle_LatLon_With_CoordinateAttr_Coor_Attr

\* So do 2-D coordinate variables.
LEMMA With2DKept ==
    ASSUME NEW v, IsRecord(v)
    PROVE  SameName(v, With2D(v))
<1> DEFINE cs == CoordinatesOf(v)
<1>1. SameName(v, v) /\ SameName(v, [v EXCEPT !.coordinates = cs, !.addpath = FALSE])
  BY WithCoordinatesKept DEF SameName
<1>2. \/ With2D(v) = v \/ With2D(v) = Flatten_VarPath_In_Coordinates_Attr(v)
      \/ With2D(v) = [v EXCEPT !.coordinates = cs, !.addpath = FALSE]
  <2> HIDE DEF cs
  <2>1. With2D(v) = CASE ForceFlatten /\ v.coordinates # <<>> -> Flatten_VarPath_In_Coordinates_Attr(v)
      [] /\ ~(ForceFlatten /\ v.coordinates # <<>>)
         /\ Rank(v) >= 2 /\ ~((\E w \in Range(vars) : Rank(w) >= 2 /\ w.coordinates # <<>>) /\ ForceFlatten)
         /\ product_type # "OSMAPL2S"
         /\ ~GivenUp(v) /\ ~Check_Var_2D_CVars(v) -> [v EXCEPT !.coordinates = cs, !.addpath = FALSE]
      [] OTHER -> v
    BY Zenon DEF With2D, cs
  <2> QED BY <2>1, Zenon
<1> HIDE DEF cs
<1> QED BY <1>1, <1>2, FlattenVarPathKept, Zenon

\* So does what is done for each product and pattern.
LEMMA CoorAttrKept ==
    ASSUME NEW v, IsRecord(v)
    PROVE  SameName(v, CoorAttr(v))
<1>1. SameName(v, v) /\ SameName(v, KeptFlat(v))
  BY FlattenVarPathKept DEF SameName, KeptFlat
<1>2. SameName(KeptFlat(v), With2D(KeptFlat(v)))
  BY <1>1, With2DKept, Zenon DEF SameName
<1>3. SameName(v, With2D(KeptFlat(v)))
  BY <1>1, <1>2 DEF SameName
<1> QED BY <1>1, <1>3, PairsCoorAttrKept DEF CoorAttr

\* The coordinate variables of a swath leave the name.
LEMMA WithSwathKept ==
    ASSUME NEW v, IsRecord(v), NEW found
    PROVE  SameName(v, WithSwath(v, found))
BY WithCoordinatesKept, Zenon DEF WithSwath

\* So does GPM_l1_Coordinates.
LEMMA SwathsKept ==
    ASSUME NEW v, IsRecord(v), NEW swaths
    PROVE  SameName(v, GPM_l1_Coordinates(v, swaths))
<1>1. SameName(v, v)
  BY DEF SameName
<1> DEFINE dims == UNION {{d.name : d \in Range(c.dims)} : c \in Range(swaths)}
           mine == CoordinatesBy(v, SelectSeq(swaths, LAMBDA c : GroupOf(c.cfdimname) = GroupOf(v.path)))
           near == CoordinatesBy(v, SelectSeq(swaths, LAMBDA c : FoundIn(GroupOf(c.cfdimname), GroupOf(v.path))))
           few == Cardinality({i \in DOMAIN v.dims : v.dims[i].name \in dims})
<1>2. GPM_l1_Coordinates(v, swaths) =
        CASE few < 2 -> v
          [] few >= 2 /\ Len(mine) = 2 -> WithSwath(v, mine)
          [] few >= 2 /\ Len(mine) # 2 /\ Len(near) = 2 -> WithSwath(v, mine \o near)
          [] OTHER -> v
  BY Zenon DEF GPM_l1_Coordinates
<1> HIDE DEF mine, near, few
<1>3. SameName(v, WithSwath(v, mine)) /\ SameName(v, WithSwath(v, mine \o near))
  BY WithSwathKept, Zenon
<1> QED BY <1>1, <1>2, <1>3

\* So does Handle_GPM_l1_Coor_Attr, for all variables.
LEMMA GPML1CoorKept ==
    ASSUME NEW vs, NEW cs
    PROVE  NamesKept(vs, Handle_GPM_l1_Coor_Attr(vs, cs).vars)
<1>1. PICK swaths, failed : Handle_GPM_l1_Coor_Attr(vs, cs) =
        [failed |-> failed,
         vars |-> [i \in DOMAIN vs |-> IF Rank(vs[i]) < 2 THEN vs[i] ELSE GPM_l1_Coordinates(vs[i], swaths)]]
  BY Zenon DEF Handle_GPM_l1_Coor_Attr
<1> DEFINE t == [i \in DOMAIN vs |-> IF Rank(vs[i]) < 2 THEN vs[i] ELSE GPM_l1_Coordinates(vs[i], swaths)]
<1>2. Handle_GPM_l1_Coor_Attr(vs, cs).vars = t
  BY <1>1
<1>3. t = [i \in DOMAIN vs |-> t[i]]
  OBVIOUS
<1>4. ASSUME NEW i \in DOMAIN vs, IsRecord(vs[i]) PROVE SameName(vs[i], t[i])
  <2>1. SameName(vs[i], vs[i]) /\ SameName(vs[i], GPM_l1_Coordinates(vs[i], swaths))
    BY <1>4, SwathsKept DEF SameName
  <2> QED BY <2>1
<1> HIDE DEF t
<1> QED BY <1>2, <1>3, <1>4, Zenon DEF NamesKept

\* So does the attribute coordinates of all variables.
LEMMA CoorAttrListKept ==
    NamesKept(vars, [i \in DOMAIN vars |-> CoorAttr(vars[i])])
<1>1. \A i \in DOMAIN vars : IsRecord(vars[i]) => SameName(vars[i], CoorAttr(vars[i]))
  BY CoorAttrKept
<1> QED BY <1>1 DEF NamesKept

\* So does the attribute that no stage has written, which Add_Path_Coord_Attr changes.
LEMMA PathCoordListKept ==
    NamesKept(vars, [i \in DOMAIN vars |-> WithPathCoord(vars[i])])
<1>1. ASSUME NEW i \in DOMAIN vars, IsRecord(vars[i]) PROVE SameName(vars[i], WithPathCoord(vars[i]))
  <2> DEFINE v == vars[i]
             cs == [j \in DOMAIN v.coordinates |-> <<get_CF_string(cha_co(v.coordinates[j], v.path))>>]
  <2>1. SameName(v, v) /\ SameName(v, [v EXCEPT !.coordinates = cs])
    BY <1>1, WithCoordinatesKept DEF SameName
  <2>2. WithPathCoord(v) = v \/ WithPathCoord(v) = [v EXCEPT !.coordinates = cs]
    BY Zenon DEF WithPathCoord
  <2> HIDE DEF cs
  <2> QED BY <2>1, <2>2, Zenon
<1> QED BY <1>1 DEF NamesKept

------------------------------------------------------------------------------
(***************************************************************************)
(* Handle_Obj_NameClashing.                                                *)
(***************************************************************************)

\* Names of a list that are taken already are not those of a list told apart later.
LEMMA LaterApart ==
    ASSUME NEW s, NEW t, NEW taken, \A i \in 1..Len(s) : s[i].newname \in taken,
           \A i \in 1..Len(t) : t[i].newname \notin taken
    PROVE  Apart(s, t)
BY DEF Apart

\* Nor are names of groups that are told apart later those of a list before.
LEMMA LaterAway ==
    ASSUME NEW s, NEW taken, \A i \in 1..Len(s) : s[i].newname \in taken, NEW gs,
           \A g \in Range(gs) : g \notin taken
    PROVE  Away(s, gs)
BY DEF Away

\* The names of one list, those of the lists before it taken.
LEMMA RenamedNext ==
    ASSUME Digits, OtherNumbers, NEW s, FlatList(s), NEW taken, IsFiniteSet(taken),
           NEW r, r = Handle_General_NameClashing(taken, NewNames(s)), NEW t, t = Renamed(s, r.names)
    PROVE  /\ LateList(t) /\ Alone(t)
           /\ \A i \in 1..Len(t) : t[i].newname \notin taken /\ t[i].newname \in r.taken
           /\ IsFiniteSet(r.taken) /\ taken \subseteq r.taken
BY RenamedIs, Zenon

\* Handle_Obj_NameClashing makes the names of variables, coordinate variables, special
\* variables and groups different.
LEMMA ToldApartIs ==
    ASSUME Digits, OtherNumbers, FlatList(vars), FlatList(cvars), FlatList(spvars),
           view # "DDS" => groups \in Seq(Name), Clashes, Handle_Obj_NameClashing
    PROVE  Late'
<1>1. PICK cv, sp, vs, tab :
        /\ cv = Handle_General_NameClashing({}, NewNames(cvars))
        /\ sp = Handle_General_NameClashing(cv.taken, NewNames(spvars))
        /\ vs = Handle_General_NameClashing(sp.taken, NewNames(vars))
        /\ cvars' = Renamed(cvars, cv.names) /\ spvars' = Renamed(spvars, sp.names) /\ vars' = Renamed(vars, vs.names)
        /\ view # "DDS" => groups' = Handle_General_NameClashing(vs.taken \cup {tab}, groups).names
  BY Zenon DEF Handle_Obj_NameClashing
<1>2. view' = view
  BY DEF Handle_Obj_NameClashing, Continue
<1>3. IsFiniteSet({})
  BY FS_EmptySet
<1>4. /\ LateList(cvars') /\ Alone(cvars')
      /\ \A i \in 1..Len(cvars') : cvars'[i].newname \in cv.taken
      /\ IsFiniteSet(cv.taken)
  <2>1. cv = Handle_General_NameClashing({}, NewNames(cvars)) /\ cvars' = Renamed(cvars, cv.names)
    BY <1>1
  <2> QED BY <2>1, <1>3, RenamedNext
<1>5. /\ LateList(spvars') /\ Alone(spvars')
      /\ \A i \in 1..Len(spvars') : spvars'[i].newname \notin cv.taken /\ spvars'[i].newname \in sp.taken
      /\ IsFiniteSet(sp.taken) /\ cv.taken \subseteq sp.taken
  <2>1. sp = Handle_General_NameClashing(cv.taken, NewNames(spvars)) /\ spvars' = Renamed(spvars, sp.names)
    BY <1>1
  <2>2. IsFiniteSet(cv.taken)
    BY <1>4
  <2> DEFINE taken == cv.taken
  <2> HIDE DEF taken
  <2>3. sp = Handle_General_NameClashing(taken, NewNames(spvars)) /\ IsFiniteSet(taken)
    BY <2>1, <2>2 DEF taken
  <2>4. /\ LateList(spvars') /\ Alone(spvars')
        /\ \A i \in 1..Len(spvars') : spvars'[i].newname \notin taken /\ spvars'[i].newname \in sp.taken
        /\ IsFiniteSet(sp.taken) /\ taken \subseteq sp.taken
    BY <2>1, <2>3, RenamedNext
  <2> QED BY <2>4 DEF taken
<1>6. /\ LateList(vars') /\ Alone(vars')
      /\ \A i \in 1..Len(vars') : vars'[i].newname \notin sp.taken /\ vars'[i].newname \in vs.taken
      /\ IsFiniteSet(vs.taken) /\ sp.taken \subseteq vs.taken
  <2>1. vs = Handle_General_NameClashing(sp.taken, NewNames(vars)) /\ vars' = Renamed(vars, vs.names)
    BY <1>1
  <2>2. IsFiniteSet(sp.taken)
    BY <1>5
  <2> DEFINE taken == sp.taken
  <2> HIDE DEF taken
  <2>3. vs = Handle_General_NameClashing(taken, NewNames(vars)) /\ IsFiniteSet(taken)
    BY <2>1, <2>2 DEF taken
  <2>4. /\ LateList(vars') /\ Alone(vars')
        /\ \A i \in 1..Len(vars') : vars'[i].newname \notin taken /\ vars'[i].newname \in vs.taken
        /\ IsFiniteSet(vs.taken) /\ taken \subseteq vs.taken
    BY <2>1, <2>3, RenamedNext
  <2> QED BY <2>4 DEF taken
<1>7. AllApart(vars', cvars', spvars')
  <2>1. Apart(cvars', spvars')
    BY <1>4, <1>5, LaterApart, Zenon
  <2>2. Apart(spvars', vars')
    BY <1>5, <1>6, LaterApart, Zenon
  <2>3. \A i \in 1..Len(cvars') : cvars'[i].newname \in sp.taken
    BY <1>4, <1>5
  <2>4. Apart(cvars', vars')
    BY <1>6, <2>3, LaterApart, Zenon
  <2> QED BY <1>4, <1>5, <1>6, <2>1, <2>2, <2>4, Zenon DEF AllApart
<1>8. view # "DDS" => GroupsApart(vars', cvars', spvars', groups')
  <2> DEFINE taken == vs.taken \cup {tab}
             g == Handle_General_NameClashing(taken, groups)
  <2>1. SUFFICES ASSUME view # "DDS" PROVE GroupsApart(vars', cvars', spvars', groups')
    OBVIOUS
  <2>2. IsFiniteSet(taken)
    BY <1>6, FS_AddElement
  <2>3. groups' = g.names /\ groups \in Seq(Name)
    BY <1>1, <2>1
  <2>4. ToldApart(taken, groups, g)
    <3> HIDE DEF taken
    <3> QED BY <2>2, <2>3, ClashingTheorem, Zenon
  <2> HIDE DEF g
  <2>5. /\ groups' \in Seq(Name) /\ IsInjective(groups') /\ Len(groups') = Len(groups)
        /\ \A i \in 1..Len(groups) : groups'[i] \notin taken
    BY <2>3, <2>4 DEF ToldApart
  <2>6. \A n \in Range(groups') : n \notin vs.taken
    <3>1. DOMAIN groups' = 1..Len(groups)
      <4> HIDE DEF Name
      <4> QED BY <2>5
    <3> QED BY <2>5, <3>1 DEF Range
  <2>7. /\ \A i \in 1..Len(cvars') : cvars'[i].newname \in vs.taken
        /\ \A i \in 1..Len(spvars') : spvars'[i].newname \in vs.taken
        /\ \A i \in 1..Len(vars') : vars'[i].newname \in vs.taken
    BY <1>4, <1>5, <1>6
  <2>8. Away(vars', groups') /\ Away(cvars', groups') /\ Away(spvars', groups')
    BY <2>6, <2>7, LaterAway, Zenon
  <2> QED BY <2>5, <2>8 DEF GroupsApart
<1> QED BY <1>2, <1>4, <1>5, <1>6, <1>7, <1>8 DEF Late

------------------------------------------------------------------------------
(***************************************************************************)
(* The stages.                                                             *)
(***************************************************************************)

\* What is left of a list when its first element is taken.
LEMMA RestOfList ==
    ASSUME NEW S, NEW s \in Seq(S), NEW k \in 1..Len(s)
    PROVE  /\ SubSeq(s, k, Len(s)) # <<>>
           /\ Head(SubSeq(s, k, Len(s))) = s[k]
           /\ Tail(SubSeq(s, k, Len(s))) = SubSeq(s, k + 1, Len(s))
           /\ k = Len(s) => SubSeq(s, k + 1, Len(s)) = <<>>
<1> DEFINE r == SubSeq(s, k, Len(s))
           q == SubSeq(s, k + 1, Len(s))
<1>1. r \in Seq(S) /\ Len(r) = Len(s) - k + 1 /\ \A i \in 1..Len(r) : r[i] = s[k + i - 1]
  OBVIOUS
<1>2. q \in Seq(S) /\ Len(q) = Len(s) - k /\ \A i \in 1..Len(q) : q[i] = s[k + i]
  OBVIOUS
<1> HIDE DEF r, q
<1>3. r # <<>> /\ Head(r) = s[k]
  BY <1>1
<1>4. Tail(r) \in Seq(S) /\ Len(Tail(r)) = Len(q) /\ \A i \in 1..Len(q) : Tail(r)[i] = q[i]
  <2>1. Len(r) # 0 /\ Len(r) = Len(q) + 1 /\ Len(q) \in Nat
    BY <1>1, <1>2
  <2>2. Tail(r) \in Seq(S) /\ Len(Tail(r)) = Len(r) - 1 /\ \A i \in 1..Len(Tail(r)) : Tail(r)[i] = r[i + 1]
    BY <1>1, <2>1
  <2>3. ASSUME NEW i \in 1..Len(q) PROVE Tail(r)[i] = q[i]
    <3>1. Tail(r)[i] = r[i + 1] /\ i + 1 \in 1..Len(r)
      BY <2>1, <2>2
    <3>2. r[i + 1] = s[k + (i + 1) - 1] /\ q[i] = s[k + i]
      BY <1>1, <1>2, <3>1
    <3> QED BY <3>1, <3>2
  <2> QED BY <2>1, <2>2, <2>3
<1>5. Tail(r) = q
  BY <1>2, <1>4
<1>6. k = Len(s) => q = <<>>
  BY <1>2
<1> QED BY <1>3, <1>5, <1>6 DEF r, q

StageNames == {"Update_Product_Type", "Remove_Unneeded_Objects", "Add_Dim_Name", "Handle_CVar", "Handle_SpVar",
               "Handle_Unsupported_Dtype", "Handle_Unsupported_Dspace", "Adjust_Obj_Name", "Flatten_Obj_Name",
               "Handle_Obj_NameClashing", "Adjust_Dim_Name", "Handle_DimNameClashing", "Handle_Coor_Attr",
               "Handle_Hybrid_EOS5", "Remove_Unused_FakeDimVars", "Rename_NC4_NonCoordVars",
               "Add_Path_Coord_Attr", "gen"}

LateNames == {"Adjust_Dim_Name", "Handle_DimNameClashing", "Handle_Coor_Attr", "Handle_Hybrid_EOS5",
              "Remove_Unused_FakeDimVars", "Rename_NC4_NonCoordVars", "Add_Path_Coord_Attr", "gen"}

\* The stages all three requests begin with.
LEMMA CommonStages ==
    Common \in Seq(StageNames) /\ Len(Common) = 10
BY DEF Common, StageNames

\* Three lists one behind the other, place by place.
LEMMA Mapping ==
    ASSUME NEW S, NEW a \in Seq(S), NEW b \in Seq(S), NEW c \in Seq(S), NEW s, s = a \o b \o c
    PROVE  /\ s \in Seq(S) /\ Len(s) = Len(a) + Len(b) + Len(c)
           /\ \A i \in 1..Len(a) : s[i] = a[i]
           /\ \A i \in 1..Len(b) : s[Len(a) + i] = b[i]
           /\ \A i \in 1..Len(c) : s[Len(a) + Len(b) + i] = c[i]
<1> DEFINE t == a \o b
<1>1. t \in Seq(S) /\ Len(t) = Len(a) + Len(b)
  OBVIOUS
<1>2. \A i \in 1..Len(a) : t[i] = a[i]
  OBVIOUS
<1>3. \A i \in 1..Len(b) : t[Len(a) + i] = b[i]
  OBVIOUS
<1>4. s = t \o c
  OBVIOUS
<1> HIDE DEF t
<1>5. s \in Seq(S) /\ Len(s) = Len(t) + Len(c)
  <2>1. t \in Seq(S)
    BY <1>1
  <2>2. t \o c \in Seq(S) /\ Len(t \o c) = Len(t) + Len(c)
    BY <2>1
  <2> QED BY <1>4, <2>2
<1>6. \A i \in 1..Len(t) : s[i] = t[i]
  BY <1>1, <1>4
<1>7. \A i \in 1..Len(c) : s[Len(t) + i] = c[i]
  BY <1>1, <1>4
<1>8. \A i \in 1..Len(b) : s[Len(a) + i] = b[i]
  <2>1. \A i \in 1..Len(b) : Len(a) + i \in 1..Len(t)
    BY <1>1
  <2> QED BY <1>3, <1>6, <2>1
<1> QED BY <1>1, <1>2, <1>5, <1>6, <1>7, <1>8

\* The number of a stage in each of the three lists.
InOrderUpToNames(s) ==
    /\ s \in Seq(StageNames) /\ Len(s) \in 15..18
    /\ s[1] = "Update_Product_Type" /\ s[2] = "Remove_Unneeded_Objects" /\ s[3] = "Add_Dim_Name"
    /\ s[4] = "Handle_CVar" /\ s[5] = "Handle_SpVar" /\ s[6] = "Handle_Unsupported_Dtype"
    /\ s[7] = "Handle_Unsupported_Dspace" /\ s[8] = "Adjust_Obj_Name" /\ s[9] = "Flatten_Obj_Name"
    /\ s[10] = "Handle_Obj_NameClashing"
    /\ \A k \in 11..Len(s) : s[k] \in LateNames

\* Ten, five or six, and one or two.
LEMMA FifteenToEighteen ==
    ASSUME NEW m, m = 5 \/ m = 6, NEW n, n = 1 \/ n = 2, NEW k, k = 10 + m + n
    PROVE  m \in Nat /\ n \in Nat /\ k \in 15..18
OBVIOUS

\* Three or four, and two.
LEMMA FiveOrSix ==
    ASSUME NEW m, m = 3 \/ m = 4, NEW k, k = m + 2
    PROVE  k \in {5, 6}
OBVIOUS

\* A list of stages that begins with the common ones.
LEMMA StagesOf ==
    ASSUME NEW a \in Seq(StageNames), NEW b \in Seq(StageNames), Len(a) \in {5, 6}, Len(b) \in {1, 2},
           \A i \in 1..Len(a) : a[i] \in LateNames, \A i \in 1..Len(b) : b[i] \in LateNames
    PROVE  InOrderUpToNames(Common \o a \o b)
<1> DEFINE s == Common \o a \o b
<1>1. /\ s \in Seq(StageNames) /\ Len(s) = 10 + Len(a) + Len(b)
      /\ \A i \in 1..10 : s[i] = Common[i]
      /\ \A i \in 1..Len(a) : s[10 + i] = a[i]
      /\ \A i \in 1..Len(b) : s[10 + Len(a) + i] = b[i]
  <2> HIDE DEF StageNames, s
  <2>1. s = Common \o a \o b
    BY DEF s
  <2>2. /\ s \in Seq(StageNames) /\ Len(s) = Len(Common) + Len(a) + Len(b)
        /\ \A i \in 1..Len(Common) : s[i] = Common[i]
        /\ \A i \in 1..Len(a) : s[Len(Common) + i] = a[i]
        /\ \A i \in 1..Len(b) : s[Len(Common) + Len(a) + i] = b[i]
    <3>1. Common \in Seq(StageNames)
      BY CommonStages
    <3> QED BY <2>1, <3>1, Mapping
  <2> QED BY <2>2, CommonStages
<1> HIDE DEF s
<1>2. /\ s[1] = "Update_Product_Type" /\ s[2] = "Remove_Unneeded_Objects" /\ s[3] = "Add_Dim_Name"
      /\ s[4] = "Handle_CVar" /\ s[5] = "Handle_SpVar" /\ s[6] = "Handle_Unsupported_Dtype"
      /\ s[7] = "Handle_Unsupported_Dspace" /\ s[8] = "Adjust_Obj_Name" /\ s[9] = "Flatten_Obj_Name"
      /\ s[10] = "Handle_Obj_NameClashing"
  BY <1>1 DEF Common
<1>3. Len(a) \in Nat /\ Len(b) \in Nat /\ Len(s) \in 15..18
  <2>1. Len(a) = 5 \/ Len(a) = 6
    OBVIOUS
  <2>2. Len(b) = 1 \/ Len(b) = 2
    OBVIOUS
  <2>3. Len(s) = 10 + Len(a) + Len(b)
    BY <1>1, Zenon
  <2> QED BY <2>1, <2>2, <2>3, FifteenToEighteen
<1>4. \A k \in 11..Len(s) : s[k] \in LateNames
  <2> TAKE k \in 11..Len(s)
  <2>1. CASE k - 10 \in 1..Len(a)
    <3>1. k = 10 + (k - 10)
      BY <1>3
    <3>2. s[10 + (k - 10)] = a[k - 10]
      BY <1>1, <2>1, Zenon
    <3> QED BY <2>1, <3>1, <3>2
  <2>2. CASE k - 10 - Len(a) \in 1..Len(b)
    <3>1. s[k] = b[k - 10 - Len(a)]
      BY <1>1, <1>3, <2>2
    <3> QED BY <2>2, <3>1
  <2>3. Len(s) = 10 + Len(a) + Len(b)
    BY <1>1, Zenon
  <2> QED BY <1>3, <2>1, <2>2, <2>3
<1>5. s \in Seq(StageNames)
  BY <1>1
<1>6. InOrderUpToNames(s)
  BY <1>2, <1>3, <1>4, <1>5, Zenon DEF InOrderUpToNames
<1> QED BY <1>6 DEF s

\* Two lists one behind the other.
LEMMA OneBehind ==
    ASSUME NEW S, NEW a \in Seq(S), NEW b \in Seq(S)
    PROVE  /\ a \o b \in Seq(S) /\ Len(a \o b) = Len(a) + Len(b) /\ Len(a) \in Nat
           /\ \A i \in 1..Len(a) : (a \o b)[i] = a[i]
           /\ \A i \in 1..Len(b) : (a \o b)[Len(a) + i] = b[i]
OBVIOUS

\* It does not matter which two lists are put together first.
LEMMA Joined ==
    ASSUME NEW S, NEW a \in Seq(S), NEW b \in Seq(S), NEW c \in Seq(S)
    PROVE  a \o b \o c = a \o (b \o c)
OBVIOUS

\* The stages between the common ones and those that end a list.
LEMMA OwnAndEnding ==
    ASSUME NEW own \in Seq(StageNames), Len(own) \in {3, 4}, \A i \in 1..Len(own) : own[i] \in LateNames,
           NEW last \in {<<"gen">>, WithPaths}
    PROVE  InOrderUpToNames(Common \o own \o Ending \o last)
<1> DEFINE a == own \o Ending
<1>1. Ending \in Seq(StageNames) /\ Len(Ending) = 2 /\ \A i \in 1..2 : Ending[i] \in LateNames
  BY DEF Ending, StageNames, LateNames
<1>2. last \in Seq(StageNames) /\ Len(last) \in {1, 2} /\ \A i \in 1..Len(last) : last[i] \in LateNames
  <2>1. CASE last = <<"gen">>
    BY <2>1 DEF StageNames, LateNames
  <2>2. CASE last = <<"Add_Path_Coord_Attr", "gen">>
    BY <2>2 DEF StageNames, LateNames
  <2> QED BY <2>1, <2>2 DEF WithPaths
<1> HIDE DEF StageNames, LateNames
<1>3. /\ a \in Seq(StageNames) /\ Len(a) = Len(own) + 2 /\ Len(own) \in Nat
      /\ \A i \in 1..Len(own) : a[i] = own[i]
      /\ \A i \in 1..2 : a[Len(own) + i] = Ending[i]
  <2>1. Ending \in Seq(StageNames) /\ Len(Ending) = 2
    BY <1>1
  <2>2. /\ a \in Seq(StageNames) /\ Len(a) = Len(own) + Len(Ending) /\ Len(own) \in Nat
        /\ \A i \in 1..Len(own) : a[i] = own[i]
        /\ \A i \in 1..Len(Ending) : a[Len(own) + i] = Ending[i]
    BY <2>1, OneBehind
  <2> HIDE DEF a
  <2> QED BY <2>1, <2>2
<1> HIDE DEF a
<1>4. Len(a) \in {5, 6}
  <2>1. Len(own) = 3 \/ Len(own) = 4
    OBVIOUS
  <2>2. Len(a) = Len(own) + 2
    BY <1>3, Zenon
  <2> QED BY <2>1, <2>2, FiveOrSix
<1>5. \A i \in 1..Len(a) : a[i] \in LateNames
  <2> TAKE i \in 1..Len(a)
  <2>1. CASE i \in 1..Len(own)
    BY <1>3, <2>1
  <2>2. CASE i - Len(own) \in 1..2
    <3>1. i = Len(own) + (i - Len(own))
      BY <1>3
    <3>2. a[Len(own) + (i - Len(own))] = Ending[i - Len(own)]
      BY <1>3, <2>2, Zenon
    <3> QED BY <1>1, <2>2, <3>1, <3>2
  <2>3. i \in 1..Len(own) \/ i - Len(own) \in 1..2
    BY <1>3
  <2> QED BY <2>1, <2>2, <2>3
<1>6. Common \o own \o Ending = Common \o a
  BY <1>1, CommonStages, Joined DEF a
<1>7. InOrderUpToNames(Common \o a \o last)
  BY <1>2, <1>3, <1>4, <1>5, StagesOf
<1> QED BY <1>6, <1>7

\* Each of the three mapping functions has such a list.
LEMMA StagesAre ==
    ASSUME NEW v \in Views
    PROVE  InOrderUpToNames(Stages(v))
<1>1. InOrderUpToNames(map_gmh5_cfdds)
  <2> DEFINE own == <<"Adjust_Dim_Name", "Handle_DimNameClashing", "Handle_Hybrid_EOS5">>
  <2>1. own \in Seq(StageNames) /\ Len(own) = 3 /\ \A i \in 1..Len(own) : own[i] \in LateNames
    BY DEF StageNames, LateNames
  <2>2. map_gmh5_cfdds = Common \o own \o Ending \o <<"gen">>
    BY Zenon DEF map_gmh5_cfdds
  <2> HIDE DEF own
  <2>3. InOrderUpToNames(Common \o own \o Ending \o <<"gen">>)
    BY <2>1, OwnAndEnding
  <2> QED BY <2>2, <2>3
<1>2. InOrderUpToNames(map_gmh5_cfdas)
  <2> DEFINE own == <<"Adjust_Dim_Name", "Handle_Coor_Attr", "Handle_Hybrid_EOS5">>
  <2>1. own \in Seq(StageNames) /\ Len(own) = 3 /\ \A i \in 1..Len(own) : own[i] \in LateNames
    BY DEF StageNames, LateNames
  <2>2. map_gmh5_cfdas = Common \o own \o Ending \o WithPaths
    BY Zenon DEF map_gmh5_cfdas
  <2> HIDE DEF own
  <2>3. InOrderUpToNames(Common \o own \o Ending \o WithPaths)
    BY <2>1, OwnAndEnding
  <2> QED BY <2>2, <2>3
<1>3. InOrderUpToNames(map_gmh5_cfdmr)
  <2> DEFINE own == <<"Adjust_Dim_Name", "Handle_DimNameClashing", "Handle_Coor_Attr", "Handle_Hybrid_EOS5">>
  <2>1. own \in Seq(StageNames) /\ Len(own) = 4 /\ \A i \in 1..Len(own) : own[i] \in LateNames
    BY DEF StageNames, LateNames
  <2>2. map_gmh5_cfdmr = Common \o own \o Ending \o WithPaths
    BY Zenon DEF map_gmh5_cfdmr
  <2> HIDE DEF own
  <2>3. InOrderUpToNames(Common \o own \o Ending \o WithPaths)
    BY <2>1, OwnAndEnding
  <2> QED BY <2>2, <2>3
<1> QED BY <1>1, <1>2, <1>3 DEF Stages, Views

StageNumber(stage) ==
    CASE stage = "Update_Product_Type" -> 1 [] stage = "Remove_Unneeded_Objects" -> 2
      [] stage = "Add_Dim_Name" -> 3 [] stage = "Handle_CVar" -> 4 [] stage = "Handle_SpVar" -> 5
      [] stage = "Handle_Unsupported_Dtype" -> 6 [] stage = "Handle_Unsupported_Dspace" -> 7
      [] stage = "Adjust_Obj_Name" -> 8 [] stage = "Flatten_Obj_Name" -> 9
      [] stage = "Handle_Obj_NameClashing" -> 10 [] OTHER -> 11

\* Which number a stage has.
LEMMA NumberIs ==
    ASSUME NEW v \in Views, NEW k \in 1..Len(Stages(v))
    PROVE  (k <= 10 => StageNumber(Stages(v)[k]) = k) /\ (k > 10 => StageNumber(Stages(v)[k]) = 11)
<1> DEFINE s == Stages(v)
<1>1. InOrderUpToNames(s)
  BY StagesAre
<1> HIDE DEF s
<1>2. k \in 1..Len(s) /\ Len(s) \in 15..18
  BY <1>1 DEF InOrderUpToNames, s
<1>3. k > 10 => StageNumber(s[k]) = 11
  BY <1>1, <1>2 DEF InOrderUpToNames, LateNames, StageNumber
<1>4. CASE k <= 10
  <2>1. k \in {1, 2, 3, 4, 5, 6, 7, 8, 9, 10}
    BY <1>2, <1>4
  <2>2. /\ StageNumber(s[1]) = 1 /\ StageNumber(s[2]) = 2 /\ StageNumber(s[3]) = 3 /\ StageNumber(s[4]) = 4
        /\ StageNumber(s[5]) = 5
    BY <1>1 DEF InOrderUpToNames, StageNumber
  <2>3. /\ StageNumber(s[6]) = 6 /\ StageNumber(s[7]) = 7 /\ StageNumber(s[8]) = 8 /\ StageNumber(s[9]) = 9
        /\ StageNumber(s[10]) = 10
    BY <1>1 DEF InOrderUpToNames, StageNumber
  <2>4. StageNumber(s[k]) = k
    BY <2>1, <2>2, <2>3
  <2> QED BY <2>4, <1>4 DEF s
<1> QED BY <1>3, <1>4, <1>2 DEF s

------------------------------------------------------------------------------
(***************************************************************************)
(* From one stage to the next.                                             *)
(***************************************************************************)

\* The stage is the next one, and it has this number.
Due(k, stage) ==
    /\ k \in 1..Len(Stages(view)) /\ todo = Rest(k) /\ Reached(k)
    /\ k <= 10 => StageNumber(stage) = k
    /\ k > 10 => StageNumber(stage) = 11

\* A stage that runs is the next one.
LEMMA AtStage ==
    ASSUME IInv, NEW stage, At(stage)
    PROVE  \E k : Due(k, stage)
<1>1. PICK k \in 1..Len(Stages(view)) : todo = Rest(k) /\ Reached(k)
  BY DEF IInv, At
<1> DEFINE s == Stages(view)
<1>2. s \in Seq(StageNames) /\ view \in Views
  BY StagesAre DEF InOrderUpToNames, IInv
<1>3. /\ k <= 10 => StageNumber(s[k]) = k
      /\ k > 10 => StageNumber(s[k]) = 11
  BY <1>2, NumberIs
<1> HIDE DEF s
<1>4. Head(SubSeq(s, k, Len(s))) = s[k]
  <2>1. k \in 1..Len(s)
    BY DEF s
  <2> QED BY <1>2, <2>1, RestOfList
<1>5. s[k] = stage
  <2>1. todo = SubSeq(s, k, Len(s)) /\ Head(todo) = stage
    BY <1>1 DEF Rest, s, At
  <2> QED BY <1>4, <2>1
<1>6. Due(k, stage)
  BY <1>1, <1>3, <1>5 DEF Due, s
<1> QED BY <1>6

\* Answers of earlier requests.
LEMMA AnswersStay ==
    ASSUME IInv, UNCHANGED <<cfg, file, view, answers>>
    PROVE  /\ file' \in Files /\ view' \in Views
           /\ answers' = [v \in Views |-> answers'[v]]
           /\ \A v \in Views : Answered(v)' /\ Clashes' => NamesApart(v)'
BY DEF IInv, Answered, Clashes, CheckNameClashing, NamesApart, Answer

\* A stage that ends keeps the invariant, if it leaves what the next one finds.
LEMMA Continued ==
    ASSUME IInv, NEW k \in 1..Len(Stages(view)), todo = Rest(k), Continue,
           k + 1 \in 1..Len(Stages(view)) => Reached(k + 1)'
    PROVE  IInv'
<1> DEFINE s == Stages(view)
<1>1. s \in Seq(StageNames)
  BY StagesAre DEF InOrderUpToNames, IInv
<1>2. UNCHANGED <<cfg, file, view, answers>> /\ todo' = Tail(todo)
  BY DEF Continue
<1>3. todo' = SubSeq(s, k + 1, Len(s)) /\ (k = Len(s) => todo' = <<>>)
  <2> HIDE DEF s
  <2>1. k \in 1..Len(s) /\ todo = SubSeq(s, k, Len(s))
    BY DEF s, Rest
  <2> QED BY <1>1, <1>2, <2>1, RestOfList
<1>4. todo' = Rest(k + 1)'
  BY <1>2, <1>3 DEF Rest
<1>5. todo' # <<>> => k + 1 \in 1..Len(s)
  <2> HIDE DEF s
  <2>1. k \in 1..Len(s) /\ Len(s) \in Nat
    BY <1>1 DEF s
  <2> QED BY <1>3, <2>1
<1>6. todo' # <<>> => \E i \in 1..Len(Stages(view)') : todo' = Rest(i)' /\ Reached(i)'
  BY <1>2, <1>4, <1>5
<1> QED BY <1>2, <1>6, AnswersStay DEF IInv

\* A stage that throws leaves the answers that were given.
LEMMA Thrown ==
    ASSUME IInv, Throw
    PROVE  IInv'
<1>1. answers' = [answers EXCEPT ![view] = Failed] /\ UNCHANGED <<cfg, file, view>> /\ todo' = <<>>
  BY DEF Throw
<1>2. answers' = [v \in Views |-> answers'[v]]
  BY <1>1 DEF IInv
<1>3. ASSUME NEW v \in Views, Answered(v)', Clashes' PROVE NamesApart(v)'
  <2>1. v # view
    BY <1>1, <1>3 DEF Answered, IInv
  <2>2. answers'[v] = answers[v]
    BY <1>1, <2>1 DEF IInv
  <2>3. Answered(v) /\ Clashes
    BY <1>1, <1>3, <2>2 DEF Answered, Clashes, CheckNameClashing
  <2>4. NamesApart(v)
    BY <2>3 DEF IInv
  <2> QED BY <2>2, <2>4 DEF NamesApart, Answer
<1> QED BY <1>1, <1>2, <1>3 DEF IInv

\* A stage that ends, or stops the request.
LEMMA Staged ==
    ASSUME IInv, NEW k, NEW stage, Due(k, stage), Continue \/ Throw,
           Continue /\ k + 1 \in 1..Len(Stages(view)) => Reached(k + 1)'
    PROVE  IInv'
<1>1. CASE Throw
  BY <1>1, Thrown
<1>2. CASE Continue
  BY <1>2, Continued DEF Due
<1> QED BY <1>1, <1>2

\* A stage goes on or throws.
LEMMA ContinuedOr ==
    ASSUME NEW failed, ContinueUnless(failed)
    PROVE  Continue \/ Throw
BY DEF ContinueUnless

------------------------------------------------------------------------------
(***************************************************************************)
(* Stages that look at paths.                                              *)
(***************************************************************************)

\* A list that is the same everywhere.
LEMMA WholeList ==
    ASSUME NEW S, NEW s \in Seq(S)
    PROVE  SubSeq(s, 1, Len(s)) = s
<1> DEFINE r == SubSeq(s, 1, Len(s))
<1>1. r \in Seq(S) /\ Len(r) = Len(s) /\ \A i \in 1..Len(s) : r[i] = s[i]
  OBVIOUS
<1> QED BY <1>1

\* A variable of the file has its path for its name and no names for its dimensions.
LEMMA RetrievedIs ==
    ASSUME NEW v, v.path \in Paths, v.dims \in Seq([size : Nat, unlimited : BOOLEAN])
    PROVE  EarlyVar(Retrieved(v), "any") /\ NamedDims(Retrieved(v))
<1> DEFINE w == Retrieved(v)
           D == [i \in DOMAIN v.dims |-> [size |-> v.dims[i].size, unlimited |-> v.dims[i].unlimited,
                                          name |-> <<>>, newname |-> <<>>]]
<1>1. IsRecord(w) /\ w.path = v.path /\ w.newname = v.path /\ w.dims = D
  BY DEF Retrieved, IsRecord, Fields
<1>2. IsList(v.dims)
  BY SeqIsList
<1>3. IsList(D) /\ Len(D) = Len(v.dims) /\ DOMAIN v.dims = 1..Len(v.dims)
  <2> DEFINE t == D
  <2>1. t = [i \in DOMAIN v.dims |-> t[i]]
    OBVIOUS
  <2> HIDE DEF t
  <2>2. IsList(t) /\ Len(t) = Len(v.dims)
    BY <1>2, <2>1, MappedIsList, Zenon
  <2> QED BY <1>2, <2>2, ListIs DEF t
<1>4. \A j \in 1..Len(D) : D[j].name = <<>> /\ "name" \in DOMAIN D[j]
  BY <1>3
<1>5. <<>> \in Seq(Name)
  OBVIOUS
<1> HIDE DEF w, D
<1>6. NamedDims(w)
  BY <1>1, <1>3, <1>4, <1>5 DEF NamedDims
<1>7. EarlyVar(w, "any")
  BY <1>1, PathsAreNames, PathIsEarly
<1> QED BY <1>6, <1>7 DEF w

\* What has to hold before the first four stages.
LEMMA EarlyOne ==
    ASSUME NEW k \in 1..4, EarlyList(vars', "any"), cvars' = <<>>, spvars' = <<>>, groups' \in Seq(Paths),
           product_type' = "Aqu_L3" => \A i \in 1..Len(vars') : NamedDims(vars'[i])
    PROVE  Reached(k)'
<1>1. k \in Nat /\ k < 5
  OBVIOUS
<1> QED BY <1>1 DEF Reached

\* Before the next five.
LEMMA EarlyFive ==
    ASSUME NEW k \in 5..9, EarlyList(vars', product_type'), EarlyList(cvars', product_type'),
           EarlyList(spvars', product_type'), groups' \in Seq(Paths)
    PROVE  Reached(k)'
<1>1. k \in Nat /\ k > 4 /\ k < 10
  OBVIOUS
<1> QED BY <1>1 DEF Reached

\* A request starts with the variables of the file.
LEMMA RetrieveStep ==
    ASSUME IInv, NEW v \in Views, Retrieve_H5_Info(v)
    PROVE  IInv'
<1>1. /\ view' = v /\ todo' = Stages(v) /\ vars' = [i \in DOMAIN file.vars |-> Retrieved(file.vars[i])]
      /\ cvars' = <<>> /\ spvars' = <<>> /\ groups' = file.groups /\ UNCHANGED <<cfg, file, answers>>
  BY DEF Retrieve_H5_Info
<1>2. /\ file.vars \in Seq(Range(file.vars)) /\ file.groups \in Seq(Paths)
      /\ \A a \in Range(file.vars) : a.path \in Paths /\ a.dims \in Seq([size : Nat, unlimited : BOOLEAN])
  BY FilesAssumption DEF IInv
<1>3. IsList(file.vars)
  BY <1>2 DEF IsList
<1>4. \A i \in DOMAIN file.vars : EarlyVar(Retrieved(file.vars[i]), "any") /\ NamedDims(Retrieved(file.vars[i]))
  <2> TAKE i \in DOMAIN file.vars
  <2>1. file.vars[i] \in Range(file.vars)
    BY DEF Range
  <2> QED BY <1>2, <2>1, RetrievedIs
<1>5. IsList(vars') /\ Len(vars') = Len(file.vars) /\ DOMAIN file.vars = 1..Len(file.vars)
  <2> DEFINE t == vars'
  <2>1. t = [i \in DOMAIN file.vars |-> t[i]]
    BY <1>1
  <2> HIDE DEF t
  <2>2. IsList(t) /\ Len(t) = Len(file.vars)
    BY <1>3, <2>1, MappedIsList, Zenon
  <2> QED BY <1>3, <2>2, ListIs DEF t
<1>6. \A i \in 1..Len(vars') : EarlyVar(vars'[i], "any") /\ NamedDims(vars'[i])
  BY <1>1, <1>4, <1>5
<1>7. Reached(1)'
  <2>1. EarlyList(vars', "any") /\ cvars' = <<>> /\ spvars' = <<>> /\ groups' \in Seq(Paths)
    BY <1>1, <1>2, <1>5, <1>6 DEF EarlyList
  <2>2. \A i \in 1..Len(vars') : NamedDims(vars'[i])
    BY <1>6
  <2> QED BY <2>1, <2>2, EarlyOne
<1>8. todo' = Rest(1)' /\ 1 \in 1..Len(Stages(view)')
  <2> DEFINE s == Stages(v)
  <2>1. s \in Seq(StageNames) /\ Len(s) \in 15..18
    BY StagesAre DEF InOrderUpToNames
  <2>2. todo' = s /\ Stages(view)' = s
    BY <1>1
  <2> HIDE DEF s
  <2>3. SubSeq(s, 1, Len(s)) = s
    BY <2>1, WholeList
  <2> QED BY <2>1, <2>2, <2>3 DEF Rest
<1>9. \A a \in Views : Answered(a)' /\ Clashes' => NamesApart(a)'
  BY <1>1 DEF IInv, Answered, Clashes, CheckNameClashing, NamesApart, Answer
<1>10. answers' = [a \in Views |-> answers'[a]]
  BY <1>1 DEF IInv
<1> QED BY <1>1, <1>7, <1>8, <1>9, <1>10 DEF IInv

\* There is no answer yet.
LEMMA InitIInv ==
    ASSUME Init
    PROVE  IInv
BY DEF Init, IInv, Answered, Views

\* What is said of the first four stages, if one of them is next.
LEMMA BeforeFive ==
    ASSUME NEW k, k \in 1..4, Reached(k)
    PROVE  /\ EarlyList(vars, "any") /\ cvars = <<>> /\ spvars = <<>> /\ groups \in Seq(Paths)
           /\ product_type = "Aqu_L3" => \A i \in 1..Len(vars) : NamedDims(vars[i])
<1>1. k \in 1..9
  OBVIOUS
<1> QED BY <1>1 DEF Reached

\* The same for the next five.
LEMMA BeforeTen ==
    ASSUME NEW k, k \in 5..9, Reached(k)
    PROVE  /\ EarlyList(vars, product_type) /\ EarlyList(cvars, product_type) /\ EarlyList(spvars, product_type)
           /\ groups \in Seq(Paths)
<1>1. k \in 1..9
  OBVIOUS
<1> QED BY <1>1 DEF Reached

\* Part of the variables still has names for their dimensions.
LEMMA PartNamed ==
    ASSUME NEW s, EarlyList(s, "any"), \A i \in 1..Len(s) : NamedDims(s[i]), NEW places
    PROVE  \A i \in 1..Len(ElementsAt(s, places)) : NamedDims(ElementsAt(s, places)[i])
<1> DEFINE t == ElementsAt(s, places)
<1>1. PartOf(t, s)
  BY ElementsArePart, Zenon DEF EarlyList
<1> HIDE DEF t
<1>2. PICK p : p \in [1..Len(t) -> 1..Len(s)] /\ \A k \in 1..Len(t) : t[k] = s[p[k]]
  BY <1>1, Zenon DEF PartOf
<1>3. \A k \in 1..Len(t) : NamedDims(t[k])
  BY <1>2, Zenon
<1> QED BY <1>3 DEF t

\* Update_Product_Type keeps the invariant.
LEMMA Update_Product_TypeStep ==
    ASSUME IInv, Update_Product_Type
    PROVE  IInv'
<1>1. PICK k : Due(k, "Update_Product_Type")
  BY AtStage DEF Update_Product_Type
<1>2. k = 1 /\ k \in 1..Len(Stages(view)) /\ Reached(k)
  BY <1>1 DEF Due, StageNumber
<1>3. /\ EarlyList(vars, "any") /\ cvars = <<>> /\ spvars = <<>> /\ groups \in Seq(Paths)
      /\ product_type = "Aqu_L3" => \A i \in 1..Len(vars) : NamedDims(vars[i])
  BY <1>2, BeforeFive
<1>4. PICK gpm, found :
        /\ product_type' = CASE gpm -> "General_Product" [] found.kind = "GPM" -> "GPM_L3_New" [] OTHER -> product_type
        /\ gpm => product_type \in {"GPMS_L3", "GPMM_L3"}
        /\ vars' = IF gpm /\ product_type = "GPMS_L3" THEN ByLastName(vars) ELSE vars
        /\ Continue /\ UNCHANGED <<cvars, spvars, groups>>
  <2> DEFINE gpm == product_type \in {"GPMS_L3", "GPMM_L3"} /\ Check_Dimscale_General_Product_Pattern(vars)
  <2>1. PICK found : product_type' = CASE gpm -> "General_Product" [] found.kind = "GPM" -> "GPM_L3_New"
                                       [] OTHER -> product_type
    BY Zenon DEF Update_Product_Type
  <2>2. /\ gpm => product_type \in {"GPMS_L3", "GPMM_L3"}
        /\ vars' = IF gpm /\ product_type = "GPMS_L3" THEN ByLastName(vars) ELSE vars
        /\ Continue /\ UNCHANGED <<cvars, spvars, groups>>
    BY DEF Update_Product_Type
  <2> QED BY <2>1, <2>2, Zenon
<1>5. EarlyList(vars', "any")
  BY <1>3, <1>4, ByLastNameEarly
<1>6. product_type' = "Aqu_L3" => product_type = "Aqu_L3" /\ vars' = vars
  BY <1>4
<1>7. Reached(2)'
  BY <1>3, <1>4, <1>5, <1>6, EarlyOne
<1> QED BY <1>1, <1>2, <1>4, <1>7, Staged

\* So does Remove_Unneeded_Objects, which leaves part of the variables and groups.
LEMMA Remove_Unneeded_ObjectsStep ==
    ASSUME IInv, Remove_Unneeded_Objects
    PROVE  IInv'
<1>1. PICK k : Due(k, "Remove_Unneeded_Objects")
  BY AtStage DEF Remove_Unneeded_Objects
<1>2. k = 2 /\ k \in 1..Len(Stages(view)) /\ Reached(k)
  BY <1>1 DEF Due, StageNumber
<1>3. /\ EarlyList(vars, "any") /\ cvars = <<>> /\ spvars = <<>> /\ groups \in Seq(Paths)
      /\ product_type = "Aqu_L3" => \A i \in 1..Len(vars) : NamedDims(vars[i])
  BY <1>2, BeforeFive
<1>4. PICK a, b, c : vars' = ElementsAt(ElementsAt(vars, a), b) /\ groups' = ElementsAt(groups, c)
  BY Zenon DEF Remove_Unneeded_Objects, Those
<1>5. Continue /\ UNCHANGED <<product_type, cvars, spvars>>
  BY DEF Remove_Unneeded_Objects
<1> DEFINE kept == ElementsAt(vars, a)
<1>6. EarlyList(kept, "any") /\ (product_type = "Aqu_L3" => \A i \in 1..Len(kept) : NamedDims(kept[i]))
  BY <1>3, ElementsEarly, PartNamed
<1> HIDE DEF kept
<1>7. EarlyList(vars', "any") /\ (product_type = "Aqu_L3" => \A i \in 1..Len(vars') : NamedDims(vars'[i]))
  BY <1>4, <1>6, ElementsEarly, PartNamed DEF kept
<1>8. groups' \in Seq(Paths)
  BY <1>3, <1>4, ElementsAtIs
<1>9. Reached(3)'
  BY <1>3, <1>5, <1>7, <1>8, EarlyOne
<1> QED BY <1>1, <1>2, <1>5, <1>9, Staged

\* The two dimensions of l3m_data get names.
LEMMA AquNamed ==
    ASSUME NEW bk, NEW vs, EarlyList(vs, "any"), \A i \in 1..Len(vs) : NamedDims(vs[i])
    PROVE  \A i \in 1..Len(vs) : NamedDims(Add_Dim_Name_Aqu_L3(bk, vs).vars[i])
<1> DEFINE first == {i \in DOMAIN vs : /\ NameOf(vs[i].path) = l3m_data
                                       /\ \A j \in 1..(i - 1) : NameOf(vs[j].path) # l3m_data}
           lat(d) == [d EXCEPT ![1] = Named(@, << <<"lat">> >>), ![2] = Named(@, << <<"lon">> >>)]
           w(i) == IF i \in first THEN [vs[i] EXCEPT !.dims = lat(@)] ELSE vs[i]
<1>1. DOMAIN vs = 1..Len(vs)
  BY ListIs DEF EarlyList
<1>2. \A i \in 1..Len(vs) : Add_Dim_Name_Aqu_L3(bk, vs).vars[i] = w(i)
  BY <1>1 DEF Add_Dim_Name_Aqu_L3
<1>3. << <<"lat">> >> \in Seq(Name) /\ << <<"lon">> >> \in Seq(Name)
  BY DEF Name, Words
<1>4. ASSUME NEW i \in 1..Len(vs) PROVE NamedDims(w(i))
  <2> DEFINE v == vs[i]
             d == v.dims
  <2>1. IsRecord(v) /\ NamedDims(v)
    BY <1>4 DEF EarlyList, EarlyVar
  <2>2. IsList(d) /\ \A j \in 1..Len(d) : "name" \in DOMAIN d[j] /\ d[j].name \in Seq(Name)
    BY <2>1 DEF NamedDims
  <2>3. lat(d) = [j \in DOMAIN d |-> lat(d)[j]]
    OBVIOUS
  <2>4. IsList(lat(d)) /\ Len(lat(d)) = Len(d) /\ DOMAIN d = 1..Len(d)
    <3> DEFINE e == lat(d)
    <3>1. e = [j \in DOMAIN d |-> e[j]]
      BY <2>3
    <3> HIDE DEF e, d
    <3>2. IsList(e) /\ Len(e) = Len(d)
      BY <2>2, <3>1, MappedIsList, Zenon
    <3>3. DOMAIN d = 1..Len(d)
      BY <2>2, ListIs
    <3> QED BY <3>2, <3>3 DEF e
  <2>5. ASSUME NEW j \in 1..Len(d)
        PROVE  "name" \in DOMAIN lat(d)[j] /\ lat(d)[j].name \in Seq(Name)
    <3>1. \/ lat(d)[j] = d[j] \/ lat(d)[j] = Named(d[j], << <<"lat">> >>)
          \/ lat(d)[j] = Named(d[j], << <<"lon">> >>)
      <4> HIDE DEF d
      <4> QED BY <2>4
    <3>2. ASSUME NEW n \in Seq(Name)
          PROVE  "name" \in DOMAIN Named(d[j], n) /\ Named(d[j], n).name \in Seq(Name)
      <4> HIDE DEF Name
      <4> QED BY <2>2 DEF Named
    <3> QED BY <1>3, <2>2, <3>1, <3>2, Zenon
  <2>6. [v EXCEPT !.dims = lat(@)].dims = lat(d)
    BY <2>1 DEF IsRecord, Fields
  <2> HIDE DEF lat
  <2>7. NamedDims([v EXCEPT !.dims = lat(@)])
    BY <2>4, <2>5, <2>6 DEF NamedDims
  <2> QED BY <2>1, <2>7
<1> QED BY <1>2, <1>4

\* So does Add_Dim_Name, which changes no name of a variable.
LEMMA Add_Dim_NameStep ==
    ASSUME IInv, Add_Dim_Name
    PROVE  IInv'
<1>1. PICK k : Due(k, "Add_Dim_Name")
  BY AtStage DEF Add_Dim_Name
<1>2. k = 3 /\ k \in 1..Len(Stages(view)) /\ Reached(k)
  BY <1>1 DEF Due, StageNumber
<1>3. /\ EarlyList(vars, "any") /\ cvars = <<>> /\ spvars = <<>> /\ groups \in Seq(Paths)
      /\ product_type = "Aqu_L3" => \A i \in 1..Len(vars) : NamedDims(vars[i])
  BY <1>2, BeforeFive
<1>4. PICK p, f : /\ product_type' = IF p.kind = "GPM" THEN "GPM_L3_New" ELSE product_type
                  /\ vars' = DimsNamed(product_type, p).vars
                  /\ ContinueUnless(f) /\ UNCHANGED <<cvars, spvars, groups>>
  BY Zenon DEF Add_Dim_Name
<1>5. NamesKept(vars, vars')
  BY <1>3, <1>4, DimsNamedKept, Zenon DEF EarlyList
<1>6. EarlyList(vars', "any")
  BY <1>3, <1>5, KeptEarly, Zenon
<1>7. ASSUME product_type' = "Aqu_L3" PROVE \A i \in 1..Len(vars') : NamedDims(vars'[i])
  <2>1. product_type = "Aqu_L3"
    BY <1>4, <1>7
  <2>2. vars' = Add_Dim_Name_Aqu_L3(book, vars).vars
    BY <1>4, <2>1 DEF DimsNamed
  <2>3. Len(vars') = Len(vars)
    BY <1>3, <1>5, MappedIsList DEF NamesKept, EarlyList
  <2> QED BY <1>3, <2>1, <2>2, <2>3, AquNamed
<1>8. Reached(4)'
  BY <1>3, <1>4, <1>6, <1>7, EarlyOne
<1> QED BY <1>1, <1>2, <1>4, <1>8, Staged, ContinuedOr

\* So does Handle_CVar, which makes coordinate variables.
LEMMA Handle_CVarStep ==
    ASSUME IInv, Handle_CVar
    PROVE  IInv'
<1>1. PICK k : Due(k, "Handle_CVar")
  BY AtStage DEF Handle_CVar
<1>2. k = 4 /\ k \in 1..Len(Stages(view)) /\ Reached(k)
  BY <1>1 DEF Due, StageNumber
<1>3. /\ EarlyList(vars, "any") /\ cvars = <<>> /\ spvars = <<>> /\ groups \in Seq(Paths)
      /\ product_type = "Aqu_L3" => \A i \in 1..Len(vars) : NamedDims(vars[i])
  BY <1>2, BeforeFive
<1>4. PICK f : /\ vars' = CVarsMade(product_type).vars /\ cvars' = CVarsMade(product_type).cvars
               /\ ContinueUnless(f) /\ UNCHANGED <<product_type, spvars, groups>>
  BY Zenon DEF Handle_CVar
<1>5. EarlyList(<<>>, product_type)
  BY EmptyEarly
<1>6. MadeEarly(CVarsMade(product_type), product_type)
  BY <1>3, <1>5, CVarsMadeEarly
<1>7. Reached(5)'
  BY <1>3, <1>4, <1>5, <1>6, EarlyFive DEF MadeEarly
<1> QED BY <1>1, <1>2, <1>4, <1>7, Staged, ContinuedOr

\* What a stage of these finds.
LEMMA AtEarly ==
    ASSUME IInv, NEW stage, At(stage), StageNumber(stage) \in 5..9
    PROVE  \E k : /\ Due(k, stage) /\ k = StageNumber(stage) /\ k \in 1..Len(Stages(view))
                  /\ EarlyList(vars, product_type) /\ EarlyList(cvars, product_type)
                  /\ EarlyList(spvars, product_type) /\ groups \in Seq(Paths)
<1>1. PICK k : Due(k, stage)
  BY AtStage
<1>2. k = StageNumber(stage)
  <2>1. k \in Nat
    BY <1>1 DEF Due
  <2> QED BY <1>1, <2>1 DEF Due
<1>3. /\ EarlyList(vars, product_type) /\ EarlyList(cvars, product_type) /\ EarlyList(spvars, product_type)
      /\ groups \in Seq(Paths)
  BY <1>1, <1>2, BeforeTen DEF Due
<1> QED BY <1>1, <1>2, <1>3 DEF Due

\* So does Handle_SpVar, which makes special variables.
LEMMA SpVarStep ==
    ASSUME IInv, SpVar
    PROVE  IInv'
<1>1. StageNumber("Handle_SpVar") = 5 /\ At("Handle_SpVar")
  BY DEF StageNumber, SpVar
<1>2. PICK k : /\ Due(k, "Handle_SpVar") /\ k = 5 /\ k \in 1..Len(Stages(view))
               /\ EarlyList(vars, product_type) /\ EarlyList(cvars, product_type)
               /\ EarlyList(spvars, product_type) /\ groups \in Seq(Paths)
  BY <1>1, AtEarly
<1>3. /\ vars' = Handle_SpVar(product_type, vars).vars /\ spvars' = Handle_SpVar(product_type, vars).spvars
      /\ Continue /\ UNCHANGED <<product_type, cvars, groups>>
  BY Zenon DEF SpVar
<1>4. EarlyList(vars', product_type') /\ EarlyList(spvars', product_type')
  BY <1>2, <1>3, SpVarEarly
<1>5. Reached(6)'
  BY <1>2, <1>3, <1>4, EarlyFive
<1> QED BY <1>2, <1>3, <1>5, Staged

\* So does Handle_Unsupported_Dtype.
LEMMA Handle_Unsupported_DtypeStep ==
    ASSUME IInv, Handle_Unsupported_Dtype
    PROVE  IInv'
<1>1. StageNumber("Handle_Unsupported_Dtype") = 6 /\ At("Handle_Unsupported_Dtype")
  BY DEF StageNumber, Handle_Unsupported_Dtype
<1>2. PICK k : /\ Due(k, "Handle_Unsupported_Dtype") /\ k = 6 /\ k \in 1..Len(Stages(view))
               /\ EarlyList(vars, product_type) /\ EarlyList(cvars, product_type)
               /\ EarlyList(spvars, product_type) /\ groups \in Seq(Paths)
  BY <1>1, AtEarly
<1>3. PICK a, b, c : /\ vars' = ElementsAt(vars, a) /\ cvars' = ElementsAt(cvars, b)
                     /\ spvars' = ElementsAt(spvars, c)
  BY Zenon DEF Handle_Unsupported_Dtype, Those
<1>4. Continue /\ UNCHANGED <<product_type, groups>>
  BY DEF Handle_Unsupported_Dtype
<1>5. EarlyList(vars', product_type') /\ EarlyList(cvars', product_type') /\ EarlyList(spvars', product_type')
  BY <1>2, <1>3, <1>4, ElementsEarly
<1>6. Reached(7)'
  BY <1>2, <1>4, <1>5, EarlyFive
<1> QED BY <1>2, <1>4, <1>6, Staged

\* So does Handle_Unsupported_Dspace.
LEMMA Handle_Unsupported_DspaceStep ==
    ASSUME IInv, Handle_Unsupported_Dspace
    PROVE  IInv'
<1>1. StageNumber("Handle_Unsupported_Dspace") = 7 /\ At("Handle_Unsupported_Dspace")
  BY DEF StageNumber, Handle_Unsupported_Dspace
<1>2. PICK k : /\ Due(k, "Handle_Unsupported_Dspace") /\ k = 7 /\ k \in 1..Len(Stages(view))
               /\ EarlyList(vars, product_type) /\ EarlyList(cvars, product_type)
               /\ EarlyList(spvars, product_type) /\ groups \in Seq(Paths)
  BY <1>1, AtEarly
<1>3. PICK a, b, c : /\ vars' = ElementsAt(vars, a) /\ cvars' = ElementsAt(cvars, b)
                     /\ spvars' = ElementsAt(spvars, c)
  BY Zenon DEF Handle_Unsupported_Dspace, Those
<1>4. Continue /\ UNCHANGED <<product_type, groups>>
  BY DEF Handle_Unsupported_Dspace
<1>5. EarlyList(vars', product_type') /\ EarlyList(cvars', product_type') /\ EarlyList(spvars', product_type')
  BY <1>2, <1>3, <1>4, ElementsEarly
<1>6. Reached(8)'
  BY <1>2, <1>4, <1>5, EarlyFive
<1> QED BY <1>2, <1>4, <1>6, Staged

\* So does Adjust_Obj_Name, which leaves a part of a path.
LEMMA ShorterNamesStep ==
    ASSUME IInv, ShorterNames
    PROVE  IInv'
<1>1. StageNumber("Adjust_Obj_Name") = 8 /\ At("Adjust_Obj_Name")
  BY DEF StageNumber, ShorterNames
<1>2. PICK k : /\ Due(k, "Adjust_Obj_Name") /\ k = 8 /\ k \in 1..Len(Stages(view))
               /\ EarlyList(vars, product_type) /\ EarlyList(cvars, product_type)
               /\ EarlyList(spvars, product_type) /\ groups \in Seq(Paths)
  BY <1>1, AtEarly
<1>3. /\ vars' = Adjust_Obj_Name(product_type, vars, cvars, groups).vars
      /\ cvars' = Adjust_Obj_Name(product_type, vars, cvars, groups).cvars
      /\ Continue /\ UNCHANGED <<product_type, spvars, groups>>
  BY Zenon DEF ShorterNames
<1>4. EarlyList(vars', product_type') /\ EarlyList(cvars', product_type')
  BY <1>2, <1>3, AdjustEarly DEF MadeEarly
<1>5. Reached(9)'
  BY <1>2, <1>3, <1>4, EarlyFive
<1> QED BY <1>2, <1>3, <1>5, Staged

------------------------------------------------------------------------------
(***************************************************************************)
(* Stages that look at DAP names.                                          *)
(***************************************************************************)

\* Flatten_Obj_Name makes DAP names of the paths.
LEMMA Flatten_Obj_NameStep ==
    ASSUME IInv, Flatten_Obj_Name
    PROVE  IInv'
<1>1. StageNumber("Flatten_Obj_Name") = 9 /\ At("Flatten_Obj_Name")
  BY DEF StageNumber, Flatten_Obj_Name
<1>2. PICK k : /\ Due(k, "Flatten_Obj_Name") /\ k = 9 /\ k \in 1..Len(Stages(view))
               /\ EarlyList(vars, product_type) /\ EarlyList(cvars, product_type)
               /\ EarlyList(spvars, product_type) /\ groups \in Seq(Paths)
  BY <1>1, AtEarly
<1>3. /\ vars' = [i \in DOMAIN vars |-> Flat(vars[i])] /\ cvars' = [i \in DOMAIN cvars |-> Flat(cvars[i])]
      /\ spvars' = [i \in DOMAIN spvars |-> Flat(spvars[i])]
      /\ groups' = IF view = "DDS" THEN groups ELSE [i \in DOMAIN groups |-> get_CF_string(groups[i])]
      /\ Continue
  BY DEF Flatten_Obj_Name
<1>4. FlatList(vars') /\ FlatList(cvars') /\ FlatList(spvars')
  BY <1>2, <1>3, FlatListOf
<1>5. view' # "DDS" => groups' \in Seq(Name)
  BY <1>2, <1>3, FlatGroups DEF Continue
<1>6. Reached(10)'
  BY <1>4, <1>5 DEF Reached
<1> QED BY <1>2, <1>3, <1>6, Staged

\* After names were made unique.
LEMMA LateReached ==
    ASSUME NEW k \in Nat, k > 10, Clashes' => Late'
    PROVE  Reached(k)'
BY DEF Reached

\* Handle_Obj_NameClashing makes them different.
LEMMA Handle_Obj_NameClashingStep ==
    ASSUME Digits, OtherNumbers, IInv, Handle_Obj_NameClashing
    PROVE  IInv'
<1>1. StageNumber("Handle_Obj_NameClashing") = 10 /\ At("Handle_Obj_NameClashing") /\ Continue
  BY DEF StageNumber, Handle_Obj_NameClashing
<1>2. PICK k : Due(k, "Handle_Obj_NameClashing")
  BY <1>1, AtStage
<1>3. k = 10 /\ k \in 1..Len(Stages(view)) /\ Reached(k)
  <2>1. k \in Nat
    BY <1>2 DEF Due
  <2> QED BY <1>1, <1>2, <2>1 DEF Due
<1>4. /\ FlatList(vars) /\ FlatList(cvars) /\ FlatList(spvars)
      /\ view # "DDS" => groups \in Seq(Name)
  BY <1>3 DEF Reached
<1>5. Clashes' => Clashes
  BY <1>1 DEF Continue, Clashes, CheckNameClashing
<1>6. Clashes' => Late'
  BY <1>4, <1>5, ToldApartIs
<1>7. Reached(11)'
  BY <1>6, LateReached
<1> QED BY <1>1, <1>2, <1>3, <1>7, Staged

\* What a stage of the last ones finds, and what has to hold after it.
LEMMA LateStep ==
    ASSUME IInv, NEW stage, At(stage), StageNumber(stage) = 11, Continue \/ Throw,
           Late /\ UNCHANGED <<cfg, file, view>> => Late'
    PROVE  IInv'
<1>1. PICK k : Due(k, stage)
  BY AtStage
<1>2. k \in 1..Len(Stages(view)) /\ k > 10 /\ Reached(k) /\ k \in Nat
  <2>1. k \in Nat
    BY <1>1 DEF Due
  <2> QED BY <1>1, <2>1 DEF Due
<1>3. UNCHANGED <<cfg, file, view>>
  BY DEF Continue, Throw
<1>4. Clashes' => Late'
  BY <1>2, <1>3 DEF Reached, Clashes, CheckNameClashing
<1>5. Reached(k + 1)'
  BY <1>2, <1>4, LateReached
<1> QED BY <1>1, <1>5, Staged

\* Lists that are changed but for the names that are kept.
LEMMA LateStays ==
    ASSUME Late, LateList(vars'), LateList(cvars'), spvars' = spvars, groups' = groups, view' = view,
           Embeds(vars, vars'), Embeds(cvars, cvars')
    PROVE  Late'
<1>1. /\ LateList(spvars) /\ AllApart(vars, cvars, spvars)
      /\ view # "DDS" => GroupsApart(vars, cvars, spvars, groups)
  BY DEF Late
<1>2. Embeds(spvars, spvars')
  BY <1>1, SameEmbeds
<1>3. /\ AllApart(vars', cvars', spvars')
      /\ \A gs : GroupsApart(vars, cvars, spvars, gs) => GroupsApart(vars', cvars', spvars', gs)
  BY <1>1, <1>2, ApartStays, Zenon
<1>4. view' # "DDS" => GroupsApart(vars', cvars', spvars', groups')
  BY <1>1, <1>3
<1> QED BY <1>1, <1>3, <1>4 DEF Late

\* The names that are kept stay different when lists keep their names.
LEMMA LateKept ==
    ASSUME Late, NamesKept(vars, vars'), NamesKept(cvars, cvars'), spvars' = spvars, groups' = groups, view' = view
    PROVE  Late'
<1>1. LateList(vars) /\ LateList(cvars)
  BY DEF Late
<1>2. LateList(vars') /\ Embeds(vars, vars') /\ LateList(cvars') /\ Embeds(cvars, cvars')
  BY <1>1, KeptEmbeds, Zenon
<1> QED BY <1>2, LateStays

\* Lists that are not changed do.
LEMMA SameKept ==
    ASSUME Late
    PROVE  NamesKept(vars, vars) /\ NamesKept(cvars, cvars)
BY AllKept DEF Late, LateList

\* Adjust_Dim_Name keeps the invariant: it changes names of dimensions only.
LEMMA Adjust_Dim_NameStep ==
    ASSUME IInv, Adjust_Dim_Name
    PROVE  IInv'
<1>1. StageNumber("Adjust_Dim_Name") = 11 /\ At("Adjust_Dim_Name")
  BY DEF StageNumber, Adjust_Dim_Name
<1>2. Continue \/ Throw
  BY ContinuedOr DEF Adjust_Dim_Name
<1>3. ASSUME Late, UNCHANGED view PROVE Late'
  <2>1. spvars' = spvars /\ groups' = groups
    BY DEF Adjust_Dim_Name
  <2>2. \/ vars' = vars /\ cvars' = cvars
        \/ /\ vars' = [i \in DOMAIN vars |-> WithDims(vars[i], CVNames(cvars))]
           /\ cvars' = [i \in DOMAIN cvars |-> NamedByItself(cvars[i])]
    BY Zenon DEF Adjust_Dim_Name
  <2>3. NamesKept(vars, vars') /\ NamesKept(cvars, cvars')
    BY <1>3, <2>2, SameKept, WithDimsListKept, NamedByItselfKept
  <2> QED BY <1>3, <2>1, <2>3, LateKept
<1> QED BY <1>1, <1>2, <1>3, LateStep

\* So does Handle_DimNameClashing.
LEMMA Handle_DimNameClashingStep ==
    ASSUME IInv, Handle_DimNameClashing
    PROVE  IInv'
<1>1. StageNumber("Handle_DimNameClashing") = 11 /\ At("Handle_DimNameClashing")
  BY DEF StageNumber, Handle_DimNameClashing
<1>2. PICK newname : /\ vars' = [i \in DOMAIN vars |-> WithDims(vars[i], newname)]
                     /\ cvars' = [i \in DOMAIN cvars |-> WithDims(cvars[i], newname)]
                     /\ Continue /\ spvars' = spvars /\ groups' = groups
  BY Zenon DEF Handle_DimNameClashing
<1>3. ASSUME Late, UNCHANGED view PROVE Late'
  <2>1. NamesKept(vars, vars') /\ NamesKept(cvars, cvars')
    BY <1>2, WithDimsListKept
  <2> QED BY <1>2, <1>3, <2>1, LateKept
<1> QED BY <1>1, <1>2, <1>3, LateStep

\* So does Handle_Coor_Attr, which changes the attribute coordinates only.
LEMMA Handle_Coor_AttrStep ==
    ASSUME IInv, Handle_Coor_Attr
    PROVE  IInv'
<1>1. StageNumber("Handle_Coor_Attr") = 11 /\ At("Handle_Coor_Attr")
  BY DEF StageNumber, Handle_Coor_Attr
<1>2. \/ \E f : vars' = Handle_GPM_l1_Coor_Attr(vars, cvars).vars /\ ContinueUnless(f)
      \/ vars' = [i \in DOMAIN vars |-> CoorAttr(vars[i])] /\ Continue
  BY Zenon DEF Handle_Coor_Attr
<1>3. spvars' = spvars /\ groups' = groups /\ cvars' = cvars
  BY DEF Handle_Coor_Attr
<1>4. Continue \/ Throw
  BY <1>2, ContinuedOr
<1>5. NamesKept(vars, vars')
  BY <1>2, GPML1CoorKept, CoorAttrListKept
<1>6. ASSUME Late, UNCHANGED view PROVE Late'
  BY <1>3, <1>5, <1>6, SameKept, LateKept
<1> QED BY <1>1, <1>4, <1>6, LateStep

\* So does Handle_Hybrid_EOS5, which changes names that are not kept.
LEMMA Handle_Hybrid_EOS5Step ==
    ASSUME IInv, Handle_Hybrid_EOS5
    PROVE  IInv'
<1>1. StageNumber("Handle_Hybrid_EOS5") = 11 /\ At("Handle_Hybrid_EOS5")
  BY DEF StageNumber, Handle_Hybrid_EOS5
<1>2. /\ vars' = [i \in DOMAIN vars |-> WithEOS5Coordinates(WithoutEOS5(vars[i]))]
      /\ cvars' = [i \in DOMAIN cvars |-> WithoutEOS5(cvars[i])]
      /\ Continue /\ spvars' = spvars /\ groups' = groups
  BY DEF Handle_Hybrid_EOS5
<1>3. ASSUME Late, UNCHANGED view PROVE Late'
  <2>1. LateList(vars) /\ LateList(cvars)
    BY <1>3 DEF Late
  <2>2. LateList(vars') /\ LateList(cvars') /\ Embeds(vars, vars') /\ Embeds(cvars, cvars')
    BY <1>2, <2>1, EOS5List, EOS5VarList
  <2> QED BY <1>2, <1>3, <2>2, LateStays
<1> QED BY <1>1, <1>2, <1>3, LateStep

\* So does Remove_Unused_FakeDimVars, which leaves part of the coordinate variables.
LEMMA Remove_Unused_FakeDimVarsStep ==
    ASSUME IInv, Remove_Unused_FakeDimVars
    PROVE  IInv'
<1>1. StageNumber("Remove_Unused_FakeDimVars") = 11 /\ At("Remove_Unused_FakeDimVars")
  BY DEF StageNumber, Remove_Unused_FakeDimVars
<1>2. \/ cvars' = cvars
      \/ \E a : cvars' = ElementsAt(cvars, a)
  BY Zenon DEF Remove_Unused_FakeDimVars, Those
<1>3. Continue /\ vars' = vars /\ spvars' = spvars /\ groups' = groups
  BY DEF Remove_Unused_FakeDimVars
<1>4. ASSUME Late, UNCHANGED view PROVE Late'
  <2>1. LateList(vars) /\ LateList(cvars)
    BY <1>4 DEF Late
  <2>2. LateList(vars') /\ LateList(cvars') /\ Embeds(vars, vars') /\ Embeds(cvars, cvars')
    BY <1>2, <1>3, <2>1, SameEmbeds, PartEmbeds
  <2> QED BY <1>3, <1>4, <2>2, LateStays
<1> QED BY <1>1, <1>3, <1>4, LateStep

\* So does Rename_NC4_NonCoordVars, which changes names that are not kept.
LEMMA Rename_NC4_NonCoordVarsStep ==
    ASSUME IInv, Rename_NC4_NonCoordVars
    PROVE  IInv'
<1>1. StageNumber("Rename_NC4_NonCoordVars") = 11 /\ At("Rename_NC4_NonCoordVars")
  BY DEF StageNumber, Rename_NC4_NonCoordVars
<1>2. \/ vars' = vars /\ cvars' = cvars
      \/ /\ vars' = [i \in DOMAIN vars |-> Restored(vars[i])]
         /\ cvars' = [i \in DOMAIN cvars |-> Restored(cvars[i])]
  BY DEF Rename_NC4_NonCoordVars
<1>3. Continue /\ spvars' = spvars /\ groups' = groups
  BY DEF Rename_NC4_NonCoordVars
<1>4. ASSUME Late, UNCHANGED view PROVE Late'
  <2>1. LateList(vars) /\ LateList(cvars)
    BY <1>4 DEF Late
  <2>2. LateList(vars') /\ LateList(cvars') /\ Embeds(vars, vars') /\ Embeds(cvars, cvars')
    BY <1>2, <2>1, SameEmbeds, RestoredList
  <2> QED BY <1>3, <1>4, <2>2, LateStays
<1> QED BY <1>1, <1>3, <1>4, LateStep

\* So does Add_Path_Coord_Attr, which changes the attribute coordinates only.
LEMMA Add_Path_Coord_AttrStep ==
    ASSUME IInv, Add_Path_Coord_Attr
    PROVE  IInv'
<1>1. StageNumber("Add_Path_Coord_Attr") = 11 /\ At("Add_Path_Coord_Attr")
  BY DEF StageNumber, Add_Path_Coord_Attr
<1>2. vars' = vars \/ vars' = [i \in DOMAIN vars |-> WithPathCoord(vars[i])]
  BY Zenon DEF Add_Path_Coord_Attr
<1>3. Continue /\ spvars' = spvars /\ groups' = groups /\ cvars' = cvars
  BY DEF Add_Path_Coord_Attr
<1>4. ASSUME Late, UNCHANGED view PROVE Late'
  <2>1. NamesKept(vars, vars') /\ NamesKept(cvars, cvars')
    BY <1>2, <1>3, <1>4, SameKept, PathCoordListKept
  <2> QED BY <1>3, <1>4, <2>1, LateKept
<1> QED BY <1>1, <1>3, <1>4, LateStep

------------------------------------------------------------------------------
(***************************************************************************)
(* The answer.                                                             *)
(***************************************************************************)

\* It does not matter which list comes first.
LEMMA ApartBoth ==
    ASSUME NEW a, NEW b, Apart(a, b)
    PROVE  Apart(b, a)
BY Zenon DEF Apart

\* Two lists in one.
LEMMA InOne ==
    ASSUME NEW a, IsList(a), Alone(a), NEW b, IsList(b), Alone(b), Apart(a, b)
    PROVE  /\ IsList(a \o b) /\ Alone(a \o b)
           /\ \A c : Apart(a, c) /\ Apart(b, c) => Apart(a \o b, c)
           /\ \A gs : Away(a, gs) /\ Away(b, gs) => Away(a \o b, gs)
<1> DEFINE s == a \o b
<1>1. /\ IsList(s) /\ Len(s) = Len(a) + Len(b) /\ Len(a) \in Nat /\ Len(b) \in Nat
      /\ \A i \in 1..(Len(a) + Len(b)) : \/ i \in 1..Len(a) /\ s[i] = a[i]
                                         \/ i - Len(a) \in 1..Len(b) /\ s[i] = b[i - Len(a)]
  BY ConcatIs
<1> HIDE DEF s
<1>2. Alone(s)
  <2>1. SUFFICES ASSUME NEW i \in 1..Len(s), NEW j \in 1..Len(s), KeepsName(s[i]), KeepsName(s[j]),
                        s[i].newname = s[j].newname
                 PROVE  i = j
    BY Zenon DEF Alone
  <2>2. /\ \/ i \in 1..Len(a) /\ s[i] = a[i]
           \/ i - Len(a) \in 1..Len(b) /\ s[i] = b[i - Len(a)]
        /\ \/ j \in 1..Len(a) /\ s[j] = a[j]
           \/ j - Len(a) \in 1..Len(b) /\ s[j] = b[j - Len(a)]
    BY <1>1
  <2>3. CASE i \in 1..Len(a) /\ s[i] = a[i] /\ j \in 1..Len(a) /\ s[j] = a[j]
    BY <2>1, <2>3, Zenon DEF Alone
  <2>4. CASE i - Len(a) \in 1..Len(b) /\ s[i] = b[i - Len(a)] /\ j - Len(a) \in 1..Len(b) /\ s[j] = b[j - Len(a)]
    <3>1. i - Len(a) = j - Len(a)
      BY <2>1, <2>4, Zenon DEF Alone
    <3> QED BY <1>1, <3>1
  <2>5. CASE i \in 1..Len(a) /\ s[i] = a[i] /\ j - Len(a) \in 1..Len(b) /\ s[j] = b[j - Len(a)]
    BY <2>1, <2>5, Zenon DEF Apart
  <2>6. CASE j \in 1..Len(a) /\ s[j] = a[j] /\ i - Len(a) \in 1..Len(b) /\ s[i] = b[i - Len(a)]
    BY <2>1, <2>6, Zenon DEF Apart
  <2> QED BY <2>2, <2>3, <2>4, <2>5, <2>6
<1>3. ASSUME NEW c, Apart(a, c), Apart(b, c) PROVE Apart(s, c)
  <2>1. ASSUME NEW i \in 1..Len(s), NEW j \in 1..Len(c), KeepsName(s[i]), KeepsName(c[j])
        PROVE  s[i].newname # c[j].newname
    <3>1. \/ i \in 1..Len(a) /\ s[i] = a[i]
          \/ i - Len(a) \in 1..Len(b) /\ s[i] = b[i - Len(a)]
      BY <1>1
    <3> QED BY <1>3, <2>1, <3>1, Zenon DEF Apart
  <2> QED BY <2>1, Zenon DEF Apart
<1>4. ASSUME NEW gs, Away(a, gs), Away(b, gs) PROVE Away(s, gs)
  <2>1. ASSUME NEW i \in 1..Len(s), KeepsName(s[i]) PROVE s[i].newname \notin Range(gs)
    <3>1. \/ i \in 1..Len(a) /\ s[i] = a[i]
          \/ i - Len(a) \in 1..Len(b) /\ s[i] = b[i - Len(a)]
      BY <1>1
    <3> QED BY <1>4, <2>1, <3>1, Zenon DEF Away
  <2> QED BY <2>1, Zenon DEF Away
<1> QED BY <1>1, <1>2, <1>3, <1>4 DEF s

\* The three lists in one.
LEMMA ThreeInOne ==
    ASSUME NEW us, IsList(us), NEW cs, IsList(cs), NEW ss, IsList(ss), AllApart(us, cs, ss)
    PROVE  /\ IsList(us \o cs \o ss) /\ Alone(us \o cs \o ss)
           /\ \A gs : GroupsApart(us, cs, ss, gs) => Away(us \o cs \o ss, gs)
<1> DEFINE t == us \o cs
<1>1. /\ Alone(us) /\ Alone(cs) /\ Alone(ss)
      /\ Apart(us, cs) /\ Apart(us, ss) /\ Apart(cs, ss)
  BY ApartBoth DEF AllApart
<1>2. /\ IsList(t) /\ Alone(t) /\ Apart(t, ss)
      /\ \A gs : Away(us, gs) /\ Away(cs, gs) => Away(t, gs)
  BY <1>1, InOne
<1> HIDE DEF t
<1>3. /\ IsList(t \o ss) /\ Alone(t \o ss)
      /\ \A gs : Away(t, gs) /\ Away(ss, gs) => Away(t \o ss, gs)
  BY <1>1, <1>2, InOne
<1>4. \A gs : GroupsApart(us, cs, ss, gs) => Away(t \o ss, gs)
  BY <1>2, <1>3, Zenon DEF GroupsApart
<1> QED BY <1>3, <1>4 DEF t

\* A sequence without the element put before it.
LEMMA TailOfOne ==
    ASSUME NEW S, NEW x, NEW s \in Seq(S)
    PROVE  Tail(<<x>> \o s) = s
<1> DEFINE T == S \cup {x}
           t == <<x>> \o s
<1>1. s \in Seq(T) /\ <<x>> \in Seq(T)
  <2>1. S \subseteq T /\ x \in T
    OBVIOUS
  <2> HIDE DEF T
  <2> QED BY <2>1, SeqInSeq
<1> HIDE DEF T
<1>2. t \in Seq(T) /\ Len(t) = Len(s) + 1 /\ Len(s) \in Nat /\ \A i \in 1..Len(s) : t[i + 1] = s[i]
  BY <1>1
<1> HIDE DEF t
<1>3. Len(t) # 0
  BY <1>2
<1>4. Tail(t) \in Seq(T) /\ Len(Tail(t)) = Len(s) /\ \A i \in 1..Len(s) : Tail(t)[i] = t[i + 1]
  BY <1>2, <1>3
<1>5. Tail(t) = s
  BY <1>1, <1>2, <1>4
<1> QED BY <1>5 DEF t

\* The answer has the three lists and the groups as they are then.
LEMMA GenStep ==
    ASSUME IInv, gen_gmh5_cf
    PROVE  IInv'
<1> DEFINE udims == SelectSeq(FlattenSeq([i \in DOMAIN cvars |-> cvars[i].dims]), LAMBDA d : d.unlimited)
           unlimited == FoldLeft(LAMBDA ns, d : Listed(ns, d.newname), <<>>, udims)
           r == [vars |-> vars \o cvars \o spvars, cvars |-> cvars, coards |-> iscoard,
                 names |-> book.dimnamelist, tables |-> <<FILE_ATTR_TABLE_NAME>> \o groups,
                 unlimited |-> unlimited]
<1>1. /\ At("gen") /\ todo' = <<>> /\ answers' = [answers EXCEPT ![view] = <<"given", r>>]
      /\ UNCHANGED <<cfg, file, view, gmfile, table>>
  BY Zenon DEF gen_gmh5_cf
<1> HIDE DEF unlimited
<1>2. r.vars = vars \o cvars \o spvars /\ r.tables = <<FILE_ATTR_TABLE_NAME>> \o groups
  OBVIOUS
<1> HIDE DEF r
<1>3. StageNumber("gen") = 11
  BY DEF StageNumber
<1>4. Clashes => Late
  <2>1. PICK k : Due(k, "gen")
    BY <1>1, AtStage
  <2>2. k > 10
    <3>1. k \in Nat
      BY <2>1 DEF Due
    <3> QED BY <1>3, <2>1, <3>1 DEF Due
  <2> QED BY <2>1, <2>2 DEF Due, Reached
<1>5. view \in Views /\ answers'[view] = <<"given", r>>
  BY <1>1 DEF IInv
<1>6. ASSUME Clashes PROVE NamesApart(view)'
  <2> DEFINE as == vars \o cvars \o spvars
  <2>1. /\ LateList(vars) /\ LateList(cvars) /\ LateList(spvars) /\ AllApart(vars, cvars, spvars)
        /\ view # "DDS" => GroupsApart(vars, cvars, spvars, groups)
    BY <1>4, <1>6 DEF Late
  <2>2. /\ IsList(as) /\ Alone(as)
        /\ \A gs : GroupsApart(vars, cvars, spvars, gs) => Away(as, gs)
    BY <2>1, ThreeInOne DEF LateList
  <2> HIDE DEF as
  <2>3. DOMAIN as = 1..Len(as)
    BY <2>2, ListIs
  <2>4. Answer(view)'.vars = as /\ Answer(view)'.tables = <<FILE_ATTR_TABLE_NAME>> \o groups
    <3>1. Answer(view)' = <<"given", r>>[2]
      BY <1>1, <1>5 DEF Answer
    <3>2. Answer(view)' = r
      BY <3>1
    <3> QED BY <1>2, <3>2 DEF as
  <2>5. \A i, j \in {n \in DOMAIN as : KeepsName(as[n])} : as[i].newname = as[j].newname => i = j
    BY <2>2, <2>3, Zenon DEF Alone
  <2>6. view # "DDS" => /\ IsInjective(groups)
                        /\ \A i \in {n \in DOMAIN as : KeepsName(as[n])} : as[i].newname \notin Range(groups)
    BY <2>1, <2>2, <2>3, Zenon DEF GroupsApart, Away
  <2>7. view # "DDS" => Tail(<<FILE_ATTR_TABLE_NAME>> \o groups) = groups
    BY <2>1, TailOfOne DEF GroupsApart
  <2>8. view # "DDS" => /\ IsInjective(Tail(Answer(view)'.tables))
                        /\ \A i \in {n \in DOMAIN as : KeepsName(as[n])} :
                             as[i].newname \notin Range(Tail(Answer(view)'.tables))
    BY <2>4, <2>6, <2>7
  <2>9. view' = view
    BY <1>1
  <2> QED BY <2>4, <2>5, <2>8, <2>9, Zenon DEF NamesApart
<1>7. ASSUME NEW v \in Views, Answered(v)', Clashes' PROVE NamesApart(v)'
  <2>1. Clashes
    BY <1>1, <1>7 DEF Clashes, CheckNameClashing
  <2>2. CASE v = view
    <3>1. Answer(v)' = Answer(view)'
      BY <1>1, <2>2
    <3> QED BY <1>1, <1>6, <2>1, <2>2
  <2>3. CASE v # view
    <3>1. answers'[v] = answers[v]
      BY <1>1, <2>3 DEF IInv
    <3>2. NamesApart(v)
      BY <1>7, <2>1, <3>1 DEF IInv, Answered
    <3> QED BY <3>1, <3>2 DEF NamesApart, Answer
  <2> QED BY <2>2, <2>3
<1>8. answers' = [v \in Views |-> answers'[v]]
  BY <1>1 DEF IInv
<1> QED BY <1>1, <1>7, <1>8 DEF IInv

\* A step that changes nothing keeps the invariant.
LEMMA StutterStep ==
    ASSUME IInv, UNCHANGED all
    PROVE  IInv'
<1>1. UNCHANGED <<cfg, file, view, todo, product_type, vars, cvars, spvars, groups, answers>>
  BY DEF all, gmfile
<1> QED BY <1>1 DEF IInv, Answered, Clashes, CheckNameClashing, NamesApart, Answer, Reached, Rest, Late

\* Every step keeps it.
LEMMA NextStep ==
    ASSUME Digits, OtherNumbers, IInv, [Next]_all
    PROVE  IInv'
BY RetrieveStep, Update_Product_TypeStep, Remove_Unneeded_ObjectsStep, Add_Dim_NameStep, Handle_CVarStep,
   SpVarStep, Handle_Unsupported_DtypeStep, Handle_Unsupported_DspaceStep, ShorterNamesStep,
   Flatten_Obj_NameStep, Handle_Obj_NameClashingStep, Adjust_Dim_NameStep, Handle_DimNameClashingStep,
   Handle_Coor_AttrStep, Handle_Hybrid_EOS5Step, Remove_Unused_FakeDimVarsStep, Rename_NC4_NonCoordVarsStep,
   Add_Path_Coord_AttrStep, GenStep, StutterStep DEF Next

\* In every answer to every request the variables that keep their names have
\* different ones, and no table of a group has one of these or another's.
THEOREM UniqueNamesTheorem ==
    ASSUME Digits, OtherNumbers
    PROVE  Spec => []UniqueNames
<1>1. Init => IInv
  BY InitIInv
<1>2. IInv /\ [Next]_all => IInv'
  BY NextStep
<1>3. IInv => UniqueNames
  BY DEF IInv, UniqueNames, Given, Answered
<1> QED BY <1>1, <1>2, <1>3, PTL DEF Spec

==============================================================================
