--------------------------- MODULE GroupWalkProofs ---------------------------
(***************************************************************************)
(* Proofs about GroupWalk, for any files.                                  *)
(***************************************************************************)
EXTENDS GroupWalk, ProofLemmas

(***************************************************************************)
(* The invariants of a walk.                                               *)
(***************************************************************************)

\* The request and the stack of the groups that its walk is in.
RequestType == request # None => request \in Request

\* A hard link leads from a group to an object.
LeadsTo(f, g, o) == \E n \in DOMAIN f[g] : f[g][n].type = "hard" /\ f[g][n].to = o

\* The place that hard links alone lead to.
Here(o) == {[object |-> o, crossed |-> 0]}

Frames(f) == [group : DOMAIN f, path : Seq(Nat), next : Nat \ {0}, abroad : BOOLEAN]

\* From one group of the stack to the next; a group in the file itself.
StackLinks(f, s) ==
    \A i \in 1..Len(s) : i + 1 <= Len(s) =>
      /\ s[i].abroad => s[i + 1].abroad
      /\ ~s[i + 1].abroad => LeadsTo(f, s[i].group, s[i + 1].group)

AtHome(f, frame) == Lookup(f, Root, frame.path) = Here(frame.group) /\ RootOf[frame.group] = Root

StackType ==
    IF Walking
    THEN /\ stack \in Seq(Frames(TheFile))
         /\ stack # <<>>
         /\ stack[1].group = Root /\ ~stack[1].abroad
         /\ StackLinks(TheFile, stack)
         /\ \A i \in 1..Len(stack) : ~stack[i].abroad => AtHome(TheFile, stack[i])
    ELSE stack = <<>>

WalkType == RequestType /\ StackType

\* The groups of the stack, in the file itself, that are in the map.
InMap(i) ==
    ~stack[i].abroad /\ Rc(TheFile, stack[i].group) > 1 =>
      AddressOf[stack[i].group] \in DOMAIN Map(Kind)

Same(i, j) == ~stack[i].abroad /\ ~stack[j].abroad /\ stack[i].group = stack[j].group

RootAt(k) == ~stack[k].abroad /\ stack[k].group = Root

\* What the walk for a DAS, for a DDS and for a DMR keep to.
DasCycle ==
    Walking /\ Kind = "das" =>
      /\ \A i \in 1..Len(stack) : InMap(i)
      /\ \A i, j \in 1..Len(stack) : i < j => ~Same(i, j)

DdsCycle ==
    Walking /\ Kind = "dds" =>
      /\ \A i \in 1..Len(stack) : i < Len(stack) => InMap(i)
      /\ \A i, j \in 1..Len(stack) : i < j /\ Same(i, j) =>
           j = Len(stack) /\ Rc(TheFile, stack[i].group) > 1

DmrCycle ==
    Walking /\ Kind = "dmr" =>
      /\ \A i \in 1..Len(stack) : 1 < i => InMap(i)
      /\ \A i, j \in 1..Len(stack) : i < j /\ Same(i, j) =>
           /\ stack[i].group = Root => i = 1
           /\ \E k \in 1..Len(stack) : i < k /\ k <= j /\ RootAt(k)

CycleInv == WalkType /\ DasCycle /\ DdsCycle /\ DmrCycle

\* An object of the file itself that may be in a map, at address a.
Linked(q, a) == q \in Object /\ RootOf[q] = Root /\ Rc(TheFile, q) > 1 /\ AddressOf[q] = a

\* A name that is a path to the object.
NamesIt(name, o) ==
    name.absolute /\ name.path \in Seq(Nat) /\ Lookup(TheFile, Root, name.path) = Here(o)

Away(i) == stack[i].abroad => Kind = "das" /\ RootOf[stack[i].group] # Root

NamesInv ==
    Undisturbed =>
      /\ \A a \in DOMAIN Map(Kind) : \A q : Linked(q, a) => NamesIt(Map(Kind)[a], q)
      /\ \A h \in hardlinks : RootOf[h.object] = Root => NamesIt(h.name, h.object)
      /\ \A i \in 1..Len(stack) : Away(i)

\* All the hard links of the group lead to objects that are listed.
AllBelow(g) ==
    \A n \in DOMAIN TheFile[g] : TheFile[g][n].type = "hard" => TheFile[g][n].to \in listed

\* The i-th group of the stack: the objects that its hard links led to so far are listed.
Passed(i, n) == TheFile[stack[i].group][Order(stack[i].group)[n]]

PassedListed(i) ==
    \A n \in 1..Len(Order(stack[i].group)) :
      n < stack[i].next /\ Passed(i, n).type = "hard" => Passed(i, n).to \in listed

InWalk(g) == \E i \in 1..Len(stack) : ~stack[i].abroad /\ stack[i].group = g

HomeListed == {g \in listed : RootOf[g] = Root}

ListedInv ==
    Undisturbed /\ request.status # "failed" =>
      /\ Root \in listed
      /\ \A a \in DOMAIN Map(Kind) : \A q : Linked(q, a) => q \in listed
      /\ \A g \in HomeListed \cap DOMAIN TheFile : AllBelow(g) \/ InWalk(g)
      /\ \A i \in 1..Len(stack) : ~stack[i].abroad => PassedListed(i)

------------------------------------------------------------------------------
(***************************************************************************)
(* The operators of the model.                                             *)
(***************************************************************************)

\* A file has finitely many hard links.
LEMMA LinksFinite ==
    ASSUME NEW f \in File
    PROVE  IsFiniteSet(HardLinks(f))
<1>1. /\ IsFiniteSet(DOMAIN f) /\ Names \in Nat
      /\ \A g \in DOMAIN f : DOMAIN f[g] \subseteq 1..Names
  BY FileAssumption, ObjectAssumption
<1> DEFINE Of(g) == {g} \X {n \in DOMAIN f[g] : f[g][n].type = "hard"}
           S     == {Of(g) : g \in DOMAIN f}
<1>2. ASSUME NEW g \in DOMAIN f PROVE IsFiniteSet(Of(g))
  <2>1. IsFiniteSet(1..Names)
    BY <1>1, FS_Interval, 1 \in Int, Names \in Int
  <2>2. {n \in DOMAIN f[g] : f[g][n].type = "hard"} \subseteq 1..Names
    BY <1>1
  <2>3. IsFiniteSet({n \in DOMAIN f[g] : f[g][n].type = "hard"})
    BY <2>1, <2>2, FS_Subset
  <2> QED BY <2>3, FS_Singleton, FS_Product
<1>3. IsFiniteSet(S)
  <2> DEFINE h == [g \in DOMAIN f |-> Of(g)]
  <2>1. h \in Surjection(DOMAIN f, S)
    <3> HIDE DEF Of
    <3> QED BY DEF Surjection
  <2> QED BY <1>1, <2>1, FS_Surjection
<1>4. \A s \in S : IsFiniteSet(s)
  BY <1>2
<1> QED BY <1>3, <1>4, FS_UNION DEF HardLinks

\* An object that counts one link has no other, and is not the root group.
LEMMA OnlyLink ==
    ASSUME NEW f \in File, NEW o, Rc(f, o) <= 1,
           NEW g \in DOMAIN f, LeadsTo(f, g, o)
    PROVE  /\ o # Root
           /\ \A h \in DOMAIN f : LeadsTo(f, h, o) => h = g
<1>1. PICK m \in DOMAIN f[g] : f[g][m].type = "hard" /\ f[g][m].to = o
  BY DEF LeadsTo
<1>2. <<g, m>> \in LinksTo(f, o)
  BY <1>1 DEF LinksTo, HardLinks
<1>3. IsFiniteSet(LinksTo(f, o))
  <2>1. LinksTo(f, o) \subseteq HardLinks(f)
    BY DEF LinksTo
  <2> QED BY <2>1, LinksFinite, FS_Subset
<1>4. Cardinality(LinksTo(f, o)) \in Nat /\ Cardinality({<<g, m>>}) = 1
  BY <1>3, FS_CardinalityType, FS_Singleton
<1>5. Cardinality(LinksTo(f, o)) >= 1
  BY <1>2, <1>3, <1>4, FS_Subset
<1>6. o # RootOf[o] /\ Cardinality(LinksTo(f, o)) = 1
  BY <1>4, <1>5 DEF Rc
<1>7. LinksTo(f, o) = {<<g, m>>}
  BY <1>2, <1>3, <1>4, <1>6, FS_Subset
<1>8. ASSUME NEW h \in DOMAIN f, LeadsTo(f, h, o) PROVE h = g
  <2>1. PICK n \in DOMAIN f[h] : f[h][n].type = "hard" /\ f[h][n].to = o
    BY <1>8 DEF LeadsTo
  <2>2. <<h, n>> \in LinksTo(f, o)
    BY <2>1 DEF LinksTo, HardLinks
  <2> QED BY <1>7, <2>2
<1> QED BY <1>6, <1>8, ObjectAssumption

Taken(m, names, t) ==
    t = [n \in 0..m |-> IF n = 0 THEN <<>>
                        ELSE IF n \in names THEN Append(t[n - 1], n) ELSE t[n - 1]]

\* Pick: the recursion has a solution.
LEMMA TakenExists == \A names : \A m \in Nat : \E t : Taken(m, names, t)
<1> SUFFICES ASSUME NEW names PROVE \A m \in Nat : \E t : Taken(m, names, t)
  OBVIOUS
<1> DEFINE T == {m \in Nat : ~\E t : Taken(m, names, t)}
<1> SUFFICES ASSUME T # {} PROVE FALSE
  OBVIOUS
<1>1. PICK m \in T : \A k \in T : m <= k
  <2>1. T \subseteq Nat
    OBVIOUS
  <2> HIDE DEF T
  <2> QED BY <2>1, MinNat
<1>2. CASE m = 0
  <2>1. Taken(0, names, [n \in 0..0 |-> <<>>])
    BY DEF Taken
  <2> QED BY <1>2, <2>1
<1>3. CASE m # 0
  <2>0. m \in Nat
    OBVIOUS
  <2>1. m - 1 \in Nat /\ ~(m - 1 \in T)
    <3> HIDE DEF T
    <3> QED BY <1>1, <1>3, <2>0
  <2>2. PICK t : Taken(m - 1, names, t)
    BY <2>1
  <2> DEFINE u == [n \in 0..m |-> IF n = m THEN IF m \in names THEN Append(t[m - 1], m) ELSE t[m - 1]
                                  ELSE t[n]]
  <2>3. Taken(m, names, u)
    <3>1. ASSUME NEW n \in 0..m
          PROVE  u[n] = IF n = 0 THEN <<>>
                        ELSE IF n \in names THEN Append(u[n - 1], n) ELSE u[n - 1]
      <4>1. n \in 0..(m - 1) => t[n] = IF n = 0 THEN <<>>
                        ELSE IF n \in names THEN Append(t[n - 1], n) ELSE t[n - 1]
        BY <2>2 DEF Taken
      <4> HIDE DEF T
      <4>2. n # m => n \in 0..(m - 1) /\ (n # 0 => n - 1 \in 0..m /\ n - 1 # m)
        BY <1>3, <2>0
      <4> QED BY <1>3, <2>0, <4>1, <4>2
    <3>2. u = [n \in 0..m |-> u[n]]
      OBVIOUS
    <3> HIDE DEF u
    <3> QED BY <3>1, <3>2, Zenon DEF Taken
  <2> QED BY <2>3
<1> QED BY <1>2, <1>3

\* A sequence of the members of a set, all of them.
AllOf(s, S) == s \in Seq(S) /\ \A n \in S : \E k \in 1..Len(s) : s[k] = n

\* Pick gives the names of a set, and all of them.
LEMMA Picked ==
    ASSUME NEW m \in Nat, NEW names, names \subseteq 1..m
    PROVE  AllOf(Pick(m, names), names)
<1> DEFINE t == CHOOSE t : Taken(m, names, t)
<1>1. Taken(m, names, t)
  BY TakenExists, Zenon
<1>2. Pick(m, names) = t[m]
  BY Zenon DEF Pick, Taken
<1> HIDE DEF t
<1>3. t[0] = <<>>
  BY <1>1 DEF Taken
<1>4. ASSUME NEW n \in 1..m
      PROVE  t[n] = IF n \in names THEN Append(t[n - 1], n) ELSE t[n - 1]
  <2>1. n \in 0..m /\ n # 0
    OBVIOUS
  <2> QED BY <1>1, <2>1 DEF Taken
<1> DEFINE Good(n) == /\ t[n] \in Seq((1..n) \cap names)
                      /\ \A i \in (1..n) \cap names : \E k \in 1..Len(t[n]) : t[n][k] = i
           T == {n \in 0..m : ~Good(n)}
<1>5. T = {}
  <2> SUFFICES ASSUME T # {} PROVE FALSE
    OBVIOUS
  <2>1. PICK n \in T : \A k \in T : n <= k
    <3>1. T \subseteq Nat
      OBVIOUS
    <3> HIDE DEF T
    <3> QED BY <3>1, MinNat
  <2>0. n \in 0..m /\ ~Good(n)
    OBVIOUS
  <2>2. CASE n = 0
    <3>1. (1..0) \cap names = {}
      OBVIOUS
    <3> HIDE DEF T
    <3>2. Good(0)
      BY <1>3, <3>1
    <3> HIDE DEF Good
    <3> QED BY <2>0, <2>2, <3>2
  <2>3. CASE n # 0
    <3>0. n \in 1..m
      BY <2>0, <2>3
    <3>1. Good(n - 1)
      <4>1. ~(n - 1 \in T)
        <5> HIDE DEF T
        <5> QED BY <2>1, <3>0
      <4> QED BY <3>0, <4>1
    <3>2. t[n - 1] \in Seq((1..n) \cap names)
      <4>1. t[n - 1] \in Seq((1..(n - 1)) \cap names)
        BY <3>1
      <4>2. (1..(n - 1)) \cap names \subseteq (1..n) \cap names
        BY <3>0
      <4> HIDE DEF Good
      <4> QED BY <4>1, <4>2
    <3>3. CASE n \in names
      <4>1. t[n] = Append(t[n - 1], n) /\ n \in (1..n) \cap names
        <5> HIDE DEF T
        <5>1. t[n] = Append(t[n - 1], n)
          BY <1>4, <3>0, <3>3, Zenon
        <5>2. n \in 1..n
          BY <3>0
        <5> QED BY <3>3, <5>1, <5>2
      <4>2. /\ t[n] \in Seq((1..n) \cap names)
            /\ Len(t[n - 1]) \in Nat /\ Len(t[n]) = Len(t[n - 1]) + 1
            /\ t[n][Len(t[n - 1]) + 1] = n
            /\ \A i \in 1..Len(t[n - 1]) : t[n][i] = t[n - 1][i]
        BY <3>2, <4>1, AppendIn
      <4>3. ASSUME NEW i \in (1..n) \cap names PROVE \E k \in 1..Len(t[n]) : t[n][k] = i
        <5>1. CASE i = n
          BY <4>2, <5>1
        <5>2. CASE i # n
          <6>1. PICK k \in 1..Len(t[n - 1]) : t[n - 1][k] = i
            <7>1. i \in (1..(n - 1)) \cap names
              BY <3>0, <5>2
            <7> QED BY <3>1, <7>1
          <6>2. k \in 1..Len(t[n]) /\ t[n][k] = i
            <7> HIDE DEF T
            <7> QED BY <4>2, <6>1
          <6> QED BY <6>2
        <5> QED BY <5>1, <5>2
      <4> QED BY <4>2, <4>3
    <3>4. CASE ~(n \in names)
      <4>1. t[n] = t[n - 1]
        BY <1>4, <3>0, <3>4
      <4>2. (1..n) \cap names = (1..(n - 1)) \cap names
        BY <3>0, <3>4
      <4> QED BY <3>1, <4>1, <4>2
    <3> QED BY <3>3, <3>4
  <2> QED BY <2>2, <2>3
<1>6. Good(m)
  <2>1. m \in 0..m
    OBVIOUS
  <2> HIDE DEF Good
  <2> QED BY <1>5, <2>1
<1>7. (1..m) \cap names = names
  OBVIOUS
<1> HIDE DEF T
<1> QED BY <1>2, <1>6, <1>7 DEF AllOf

\* The names of the links that the walk does not pass over.
FollowedIn(g) == {n \in DOMAIN TheFile[g] : TheFile[g][n].type \in Followed}

\* The names in a group in the order of the walk are all of those.
LEMMA OrderOfGroup ==
    ASSUME RequestType, Walking, NEW g \in DOMAIN TheFile
    PROVE  AllOf(Order(g), FollowedIn(g))
<1> DEFINE names == FollowedIn(g)
           groups == {n \in names : IsGroup(TheFile[g][n].to)}
           datasets == names \ groups
<1>1. Names \in Nat /\ names \subseteq 1..Names
  <2>1. TheFile \in File
    BY DEF RequestType, Request, Walking, TheFile
  <2>2. Names \in Nat /\ DOMAIN TheFile[g] \subseteq 1..Names
    BY <2>1, FileAssumption, ObjectAssumption
  <2> QED BY <2>2 DEF FollowedIn
<1>2. ASSUME NEW S, S \subseteq names PROVE AllOf(Pick(Names, S), S)
  <2>1. S \subseteq 1..Names
    BY <1>1, <1>2
  <2> QED BY <1>1, <2>1, Picked, Zenon
<1>3. CASE Kind # "dmr"
  BY <1>2, <1>3 DEF Order, FollowedIn
<1>4. CASE Kind = "dmr"
  <2> DEFINE d == Pick(Names, datasets)
             s == Pick(Names, groups)
  <2>1. Order(g) = d \o s
    BY <1>4 DEF Order, FollowedIn
  <2>2. datasets \subseteq names /\ groups \subseteq names /\ names = datasets \cup groups
    OBVIOUS
  <2>3. AllOf(d, datasets) /\ AllOf(s, groups)
    BY <1>2, <2>2, Zenon
  <2> HIDE DEF d, s, groups, datasets, names
  <2>4. d \in Seq(names) /\ s \in Seq(names)
    BY <2>2, <2>3, SeqInSeq, Zenon DEF AllOf
  <2>5. /\ \A n \in datasets : \E k \in 1..Len(d) : d[k] = n
        /\ \A n \in groups : \E k \in 1..Len(s) : s[k] = n
    BY <2>3 DEF AllOf
  <2>6. Len(d) \in Nat /\ Len(s) \in Nat /\ Len(d \o s) = Len(d) + Len(s) /\ d \o s \in Seq(names)
    BY <2>4
  <2>7. ASSUME NEW n \in names PROVE \E k \in 1..Len(d \o s) : (d \o s)[k] = n
    <3>1. CASE n \in datasets
      <4>1. PICK k \in 1..Len(d) : d[k] = n
        BY <2>5, <3>1
      <4>2. k \in 1..Len(d \o s) /\ (d \o s)[k] = n
        BY <2>4, <2>6, <4>1
      <4> QED BY <4>2
    <3>2. CASE n \in groups
      <4>1. PICK k \in 1..Len(s) : s[k] = n
        BY <2>5, <3>2
      <4>2. Len(d) + k \in 1..Len(d \o s) /\ (d \o s)[Len(d) + k] = n
        BY <2>4, <2>6, <4>1
      <4> QED BY <4>2
    <3> QED BY <2>2, <2>7, <3>1, <3>2
  <2> QED BY <2>1, <2>6, <2>7 DEF AllOf, names
<1> QED BY <1>3, <1>4

LookedUp(f, r, m, path, t) ==
    t = [n \in 0..m |-> IF n = 0 THEN Here(r) ELSE UNION {Follow(f, from, path[n]) : from \in t[n - 1]}]

\* Lookup: the recursion has a solution.
LEMMA LookedUpExists ==
    ASSUME NEW f, NEW r, NEW path \in Seq(Nat)
    PROVE  \E t : LookedUp(f, r, Len(path), path, t)
<1> DEFINE More(s, n) == UNION {Follow(f, from, path[n]) : from \in s}
           Upto(m, t) == t = [n \in 0..m |-> IF n = 0 THEN Here(r) ELSE More(t[n - 1], n)]
           T == {m \in 0..Len(path) : ~\E t : Upto(m, t)}
<1>0. Len(path) \in Nat
  OBVIOUS
<1> HIDE DEF More
<1>1. T = {}
  <2> SUFFICES ASSUME T # {} PROVE FALSE
    OBVIOUS
  <2>1. PICK m \in T : \A k \in T : m <= k
    <3>1. T \subseteq Nat
      BY <1>0
    <3> HIDE DEF T
    <3> QED BY <3>1, MinNat
  <2>2. m \in 0..Len(path) /\ ~\E t : Upto(m, t)
    OBVIOUS
  <2>3. CASE m = 0
    <3>1. Upto(0, [n \in 0..0 |-> Here(r)])
      OBVIOUS
    <3> QED BY <2>2, <2>3, <3>1
  <2>4. CASE m # 0
    <3>1. m - 1 \in 0..Len(path) /\ ~(m - 1 \in T)
      <4> HIDE DEF T
      <4> QED BY <1>0, <2>1, <2>2, <2>4
    <3>2. PICK t : Upto(m - 1, t)
      BY <3>1
    <3> DEFINE u == [n \in 0..m |-> IF n = m THEN More(t[m - 1], m) ELSE t[n]]
    <3> HIDE DEF T
    <3>3. ASSUME NEW n \in 0..m
          PROVE  u[n] = IF n = 0 THEN Here(r) ELSE More(u[n - 1], n)
      <4>1. n \in 0..(m - 1) => t[n] = IF n = 0 THEN Here(r) ELSE More(t[n - 1], n)
        BY <3>2
      <4>2. n # m => n \in 0..(m - 1) /\ (n # 0 => n - 1 \in 0..m /\ n - 1 # m)
        BY <1>0, <2>2, <2>4
      <4> HIDE DEF Upto
      <4> QED BY <1>0, <2>2, <2>4, <4>1, <4>2
    <3>4. u = [n \in 0..m |-> u[n]]
      OBVIOUS
    <3>5. Upto(m, u)
      <4> HIDE DEF u
      <4> QED BY <3>3, <3>4, Zenon
    <3> HIDE DEF Upto, u
    <3> QED BY <2>2, <3>5
  <2> QED BY <2>3, <2>4
<1>2. \E t : Upto(Len(path), t)
  <2>1. Len(path) \in 0..Len(path)
    BY <1>0
  <2> HIDE DEF Upto
  <2> QED BY <1>1, <2>1
<1> QED BY <1>2, Zenon DEF LookedUp, More

Follows(f, r, path, t) ==
    /\ Lookup(f, r, path) = t[Len(path)]
    /\ t[0] = Here(r)
    /\ \A n \in 1..Len(path) : t[n] = UNION {Follow(f, from, path[n]) : from \in t[n - 1]}

\* Lookup as a recursion over the places of the path.
LEMMA LookingUp ==
    ASSUME NEW f, NEW r, NEW path \in Seq(Nat)
    PROVE  \E t : Follows(f, r, path, t)
<1> DEFINE t == CHOOSE t : LookedUp(f, r, Len(path), path, t)
<1>1. LookedUp(f, r, Len(path), path, t)
  BY LookedUpExists, Zenon
<1>2. Lookup(f, r, path) = t[Len(path)]
  BY Zenon DEF Lookup, LookedUp, Here
<1> HIDE DEF t
<1>3. Len(path) \in Nat
  OBVIOUS
<1> DEFINE More(s, n) == UNION {Follow(f, from, path[n]) : from \in s}
<1>4. t = [n \in 0..Len(path) |-> IF n = 0 THEN Here(r) ELSE More(t[n - 1], n)]
  BY <1>1, Zenon DEF LookedUp
<1> HIDE DEF More
<1>5. t[0] = Here(r)
  BY <1>3, <1>4
<1>6. ASSUME NEW n \in 1..Len(path) PROVE t[n] = More(t[n - 1], n)
  <2>1. n \in 0..Len(path) /\ n # 0
    BY <1>3
  <2> QED BY <1>4, <2>1
<1> QED BY <1>2, <1>5, <1>6 DEF Follows, More

\* One link on from each of a set of places.
Onward(f, places, n) == UNION {Follow(f, from, n) : from \in places}

\* The empty path leads to the root group, and one more link on from where the path
\* leads to.
LEMMA LookupStep ==
    ASSUME NEW f, NEW r
    PROVE  /\ Lookup(f, r, <<>>) = Here(r)
           /\ \A path \in Seq(Nat), n \in Nat :
                 Lookup(f, r, Append(path, n)) = Onward(f, Lookup(f, r, path), n)
<1>1. Lookup(f, r, <<>>) = Here(r)
  <2>1. <<>> \in Seq(Nat) /\ Len(<<>>) = 0
    OBVIOUS
  <2>2. PICK t : Follows(f, r, <<>>, t)
    BY <2>1, LookingUp, Zenon
  <2> QED BY <2>1, <2>2 DEF Follows
<1> DEFINE More(s, n) == UNION {Follow(f, from, n) : from \in s}
<1>2. ASSUME NEW path \in Seq(Nat), NEW n \in Nat
      PROVE  Lookup(f, r, Append(path, n)) = More(Lookup(f, r, path), n)
  <2> DEFINE longer == Append(path, n)
             l == Len(path)
  <2>1. /\ longer \in Seq(Nat) /\ l \in Nat /\ Len(longer) = l + 1
        /\ longer[l + 1] = n /\ \A i \in 1..l : longer[i] = path[i]
    BY AppendIn
  <2> HIDE DEF longer
  <2>2. PICK t : Follows(f, r, path, t)
    BY LookingUp, Zenon
  <2>3. PICK u : Follows(f, r, longer, u)
    BY <2>1, LookingUp, Zenon
  <2>4. /\ Lookup(f, r, path) = t[l] /\ t[0] = Here(r)
        /\ \A k \in 1..l : t[k] = More(t[k - 1], path[k])
    BY <2>2 DEF Follows
  <2>5. /\ Lookup(f, r, longer) = u[l + 1] /\ u[0] = Here(r)
        /\ \A k \in 1..(l + 1) : u[k] = More(u[k - 1], longer[k])
    BY <2>1, <2>3 DEF Follows
  <2> HIDE DEF l, More
  <2> DEFINE T == {k \in 0..l : u[k] # t[k]}
  <2>6. T = {}
    <3> SUFFICES ASSUME T # {} PROVE FALSE
      OBVIOUS
    <3>1. PICK k \in T : \A j \in T : k <= j
      <4>1. T \subseteq Nat
        BY <2>1
      <4> HIDE DEF T
      <4> QED BY <4>1, MinNat
    <3>2. k \in 0..l /\ u[k] # t[k]
      OBVIOUS
    <3>3. k # 0
      BY <2>4, <2>5, <3>2
    <3>4. k \in 1..l /\ k \in 1..(l + 1) /\ k - 1 \in 0..l
      BY <2>1, <3>2, <3>3
    <3>5. u[k - 1] = t[k - 1]
      <4>1. ~(k - 1 \in T)
        <5> HIDE DEF T
        <5> QED BY <2>1, <3>1, <3>2
      <4> QED BY <3>4, <4>1
    <3>6. u[k] = t[k]
      BY <2>1, <2>4, <2>5, <3>4, <3>5
    <3> QED BY <3>2, <3>6
  <2>7. u[l] = t[l]
    BY <2>1, <2>6
  <2>8. l + 1 \in 1..(l + 1) /\ (l + 1) - 1 = l
    BY <2>1
  <2>9. u[l + 1] = More(u[l], n)
    BY <2>1, <2>5, <2>8
  <2> QED BY <2>4, <2>5, <2>7, <2>9 DEF longer
<1> QED BY <1>1, <1>2 DEF Onward

\* From a group one link on.
LEMMA FollowIs ==
    ASSUME NEW f, NEW o \in DOMAIN f, NEW n \in DOMAIN f[o]
    PROVE  Onward(f, Here(o), n) =
             {[object |-> f[o][n].to, crossed |-> IF f[o][n].type = "hard" THEN 0 ELSE 1]}
<1> DEFINE to == f[o][n].to
           c  == IF f[o][n].type = "hard" THEN 0 ELSE 1
           p  == [object |-> o, crossed |-> 0]
<1>1. Onward(f, Here(o), n) = Follow(f, p, n)
  BY DEF Onward, Here
<1>2. p.object = o /\ p.crossed = 0 /\ 0 + c = c
  OBVIOUS
<1>3. Follow(f, p, n) = {[object |-> to, crossed |-> 0 + c]}
  <2> HIDE DEF p
  <2> QED BY <1>2 DEF Follow
<1> QED BY <1>1, <1>2, <1>3

\* A path from a root group that is among objects that are closed under the links of
\* the groups among them leads to one of them.
LEMMA LookupIn ==
    ASSUME NEW f, NEW S, NEW r \in S, NEW path \in Seq(Nat),
           \A g \in S \cap DOMAIN f : \A n \in DOMAIN f[g] : f[g][n].to \in S
    PROVE  \A p \in Lookup(f, r, path) : p.object \in S
<1>1. PICK t : Follows(f, r, path, t)
  BY LookingUp, Zenon
<1>0. Len(path) \in Nat
  OBVIOUS
<1> DEFINE T == {k \in 0..Len(path) : ~\A p \in t[k] : p.object \in S}
<1>2. T = {}
  <2> SUFFICES ASSUME T # {} PROVE FALSE
    OBVIOUS
  <2>1. PICK k \in T : \A j \in T : k <= j
    <3>1. T \subseteq Nat
      BY <1>0
    <3> HIDE DEF T
    <3> QED BY <3>1, MinNat
  <2>2. k \in 0..Len(path) /\ ~\A p \in t[k] : p.object \in S
    OBVIOUS
  <2>3. k # 0
    BY <1>1, <2>2 DEF Follows, Here
  <2>4. k \in 1..Len(path) /\ k - 1 \in 0..Len(path)
    BY <1>0, <2>2, <2>3
  <2>5. \A p \in t[k - 1] : p.object \in S
    <3>1. ~(k - 1 \in T)
      <4> HIDE DEF T
      <4> QED BY <1>0, <2>1, <2>2
    <3> QED BY <2>4, <3>1
  <2>6. t[k] = UNION {Follow(f, from, path[k]) : from \in t[k - 1]}
    BY <1>1, <2>4 DEF Follows
  <2>7. PICK p \in t[k] : ~(p.object \in S)
    BY <2>2
  <2>8. PICK from \in t[k - 1] : p \in Follow(f, from, path[k])
    BY <2>6, <2>7
  <2>9. from.object \in S \cap DOMAIN f /\ path[k] \in DOMAIN f[from.object]
        /\ p.object = f[from.object][path[k]].to
    BY <2>5, <2>8 DEF Follow
  <2> QED BY <2>7, <2>9
<1>3. \A p \in t[Len(path)] : p.object \in S
  <2>1. Len(path) \in 0..Len(path)
    BY <1>0
  <2> QED BY <1>2, <2>1
<1> QED BY <1>1, <1>3 DEF Follows

\* Objects that are closed under the hard links of the groups among them and hold the
\* root group hold all that is reachable.
LEMMA ReachableIn ==
    ASSUME NEW f \in File, NEW S, Root \in S,
           \A g \in S \cap DOMAIN f : \A n \in DOMAIN f[g] : f[g][n].type = "hard" => f[g][n].to \in S
    PROVE  Reachable(f) \subseteq S
<1> DEFINE last == Cardinality(DOMAIN f)
           below(g) == {f[g][n].to : n \in {m \in DOMAIN f[g] : f[g][m].type = "hard"}}
           Within(m, t) ==
             t = [n \in 0..m |-> IF n = 0 THEN {Root}
                                 ELSE t[n - 1] \cup UNION {below(g) : g \in t[n - 1] \cap DOMAIN f}]
<1>1. last \in Nat
  BY FileAssumption, FS_CardinalityType
<1> HIDE DEF last
<1>2. \A m \in Nat : \E t : Within(m, t)
  <2> DEFINE T == {m \in Nat : ~\E t : Within(m, t)}
  <2> SUFFICES ASSUME T # {} PROVE FALSE
    OBVIOUS
  <2>1. PICK m \in T : \A k \in T : m <= k
    <3>1. T \subseteq Nat
      OBVIOUS
    <3> HIDE DEF T
    <3> QED BY <3>1, MinNat
  <2>2. m \in Nat /\ ~\E t : Within(m, t)
    OBVIOUS
  <2>3. CASE m = 0
    <3>1. Within(0, [n \in 0..0 |-> {Root}])
      OBVIOUS
    <3> QED BY <2>2, <2>3, <3>1
  <2>4. CASE m # 0
    <3>1. m - 1 \in Nat /\ ~(m - 1 \in T)
      <4> HIDE DEF T
      <4> QED BY <2>1, <2>2, <2>4
    <3>2. PICK t : Within(m - 1, t)
      BY <3>1
    <3> DEFINE More(s) == s \cup UNION {below(g) : g \in s \cap DOMAIN f}
               u == [n \in 0..m |-> IF n = m THEN More(t[m - 1]) ELSE t[n]]
    <3> HIDE DEF T
    <3>3. t = [n \in 0..(m - 1) |-> IF n = 0 THEN {Root} ELSE More(t[n - 1])]
      BY <3>2, Zenon
    <3>4. ASSUME NEW n \in 0..m
          PROVE  u[n] = IF n = 0 THEN {Root} ELSE More(u[n - 1])
      <4> HIDE DEF Within, More
      <4>1. n \in 0..(m - 1) => t[n] = IF n = 0 THEN {Root} ELSE More(t[n - 1])
        BY <3>3
      <4>2. n # m => n \in 0..(m - 1) /\ (n # 0 => n - 1 \in 0..m /\ n - 1 # m)
        BY <2>2, <2>4
      <4> QED BY <2>2, <2>4, <4>1, <4>2
    <3>5. u = [n \in 0..m |-> u[n]]
      OBVIOUS
    <3>6. u = [n \in 0..m |-> IF n = 0 THEN {Root} ELSE More(u[n - 1])]
      <4> HIDE DEF u, More
      <4> QED BY <3>4, <3>5, Zenon
    <3>7. Within(m, u)
      <4> HIDE DEF u
      <4> QED BY <3>6, Zenon
    <3> HIDE DEF Within, u
    <3> QED BY <2>2, <3>7
  <2> QED BY <2>3, <2>4
<1> DEFINE t == CHOOSE t : Within(last, t)
<1>3. Within(last, t)
  BY <1>1, <1>2, Zenon
<1>4. Reachable(f) = t[last]
  BY Zenon DEF Reachable, last
<1> HIDE DEF t
<1> DEFINE More(s) == s \cup UNION {below(g) : g \in s \cap DOMAIN f}
<1>5. ASSUME NEW s, s \subseteq S PROVE More(s) \subseteq S
  <2>1. ASSUME NEW g \in s \cap DOMAIN f PROVE below(g) \subseteq S
    BY <1>5, <2>1
  <2> QED BY <1>5, <2>1
<1>6. t = [n \in 0..last |-> IF n = 0 THEN {Root} ELSE More(t[n - 1])]
  BY <1>3, Zenon
<1> HIDE DEF More, Within
<1>7. \A n \in 0..last : t[n] = IF n = 0 THEN {Root} ELSE More(t[n - 1])
  BY <1>6
<1> DEFINE T == {n \in 0..last : ~(t[n] \subseteq S)}
<1>8. T = {}
  <2> SUFFICES ASSUME T # {} PROVE FALSE
    OBVIOUS
  <2>1. PICK n \in T : \A k \in T : n <= k
    <3>1. T \subseteq Nat
      BY <1>1
    <3> HIDE DEF T
    <3> QED BY <3>1, MinNat
  <2>2. n \in 0..last /\ ~(t[n] \subseteq S)
    OBVIOUS
  <2>3. CASE n = 0
    BY <1>7, <2>2, <2>3
  <2>4. CASE n # 0
    <3>1. n - 1 \in 0..last
      BY <1>1, <2>2, <2>4
    <3>2. ~(n - 1 \in T)
      <4> HIDE DEF T
      <4> QED BY <1>1, <2>1, <2>2
    <3>3. t[n - 1] \subseteq S
      BY <3>1, <3>2
    <3>4. t[n] = More(t[n - 1])
      BY <1>7, <2>2, <2>4
    <3> QED BY <1>5, <2>2, <3>3, <3>4
  <2> QED BY <2>3, <2>4
<1> QED BY <1>1, <1>4, <1>8

------------------------------------------------------------------------------
(***************************************************************************)
(* The stack.                                                              *)
(***************************************************************************)

\* The file and the kind of a request.
LEMMA RequestIs ==
    ASSUME RequestType, Walking
    PROVE  /\ TheFile \in File /\ Kind \in Kinds /\ Kind \in {"das", "dds", "dmr"}
           /\ request.first \in BOOLEAN
           /\ Root \in DOMAIN TheFile /\ DOMAIN TheFile \subseteq Object
           /\ \A g \in DOMAIN TheFile : \A n \in DOMAIN TheFile[g] : n \in Nat /\ TheFile[g][n] \in Link
<1>1. request \in Request
  BY DEF RequestType, Walking
<1>2. TheFile \in File /\ Kind \in Kinds /\ request.first \in BOOLEAN
  BY <1>1 DEF Request, TheFile, Kind
<1>3. \A n \in 1..Names : n \in Nat
  BY ObjectAssumption
<1> QED BY <1>2, <1>3, FileAssumption, KindAssumption

\* The innermost group, and the link that comes next.
LEMMA TopIs ==
    ASSUME WalkType, Walking
    PROVE  /\ Len(stack) \in Nat \ {0}
           /\ Top \in Frames(TheFile)
           /\ ~Top.abroad => AtHome(TheFile, Top)
<1>1. stack \in Seq(Frames(TheFile)) /\ stack # <<>>
  BY DEF WalkType, StackType
<1> HIDE DEF Frames
<1>2. Len(stack) \in Nat \ {0}
  BY <1>1
<1>3. \A i \in 1..Len(stack) : ~stack[i].abroad => AtHome(TheFile, stack[i])
  BY DEF WalkType, StackType
<1> QED BY <1>1, <1>2, <1>3, SeqElement DEF Top

\* The link that comes next is one of the innermost group.
LEMMA LinkIs ==
    ASSUME WalkType, LinkLeft
    PROVE  /\ Walking
           /\ Top.group \in DOMAIN TheFile /\ Top.group \in Object
           /\ Top.path \in Seq(Nat) /\ Top.abroad \in BOOLEAN
           /\ Name \in Nat /\ Name \in DOMAIN TheFile[Top.group]
           /\ TheLink \in Link /\ TheLink.type \in Followed
           /\ Path \in Seq(Nat)
<1>1. Walking /\ Top.next <= Len(Order(Top.group))
  BY DEF LinkLeft
<1>2. Top \in Frames(TheFile)
  BY <1>1, TopIs
<1>3. /\ Top.group \in DOMAIN TheFile /\ Top.path \in Seq(Nat) /\ Top.next \in Nat \ {0}
      /\ Top.abroad \in BOOLEAN
  BY <1>2 DEF Frames
<1>4. Order(Top.group) \in Seq(FollowedIn(Top.group))
  BY <1>1, <1>3, OrderOfGroup DEF WalkType, AllOf
<1>5. Name \in FollowedIn(Top.group)
  BY <1>1, <1>3, <1>4, SeqElement DEF Name
<1>6. Name \in DOMAIN TheFile[Top.group] /\ TheLink.type \in Followed
  BY <1>5 DEF FollowedIn, TheLink
<1>7. Name \in Nat /\ TheLink \in Link /\ Top.group \in Object
  BY <1>1, <1>3, <1>6, RequestIs DEF WalkType, TheLink
<1>8. Path \in Seq(Nat)
  BY <1>3, <1>7, AppendIn DEF Path
<1> QED BY <1>1, <1>3, <1>6, <1>7, <1>8

\* As long as the walk has followed no external link, the path leads to what the link
\* leads to, and that is opened.
LEMMA OpenedFromHome ==
    ASSUME WalkType, LinkLeft, ~Top.abroad, NEW o \in Opened
    PROVE  /\ o = TheLink.to /\ o \in Object
           /\ TheLink.type = "hard" => Lookup(TheFile, Root, Path) = Here(o)
<1>1. /\ Top.group \in DOMAIN TheFile /\ Name \in DOMAIN TheFile[Top.group]
      /\ Top.path \in Seq(Nat) /\ Name \in Nat /\ Walking /\ TheLink \in Link
  BY LinkIs
<1>2. Lookup(TheFile, Root, Top.path) = Here(Top.group) /\ RootOf[Top.group] = Root
  BY <1>1, TopIs DEF AtHome
<1>3. Lookup(TheFile, Root, Path) = Onward(TheFile, Lookup(TheFile, Root, Top.path), Name)
  BY <1>1, LookupStep DEF Path
<1>4. Lookup(TheFile, Root, Path) =
        {[object |-> TheLink.to, crossed |-> IF TheLink.type = "hard" THEN 0 ELSE 1]}
  <2>1. Onward(TheFile, Here(Top.group), Name) =
          {[object  |-> TheFile[Top.group][Name].to,
            crossed |-> IF TheFile[Top.group][Name].type = "hard" THEN 0 ELSE 1]}
    BY <1>1, FollowIs, Zenon
  <2>2. Lookup(TheFile, Root, Path) = Onward(TheFile, Here(Top.group), Name)
    BY <1>2, <1>3
  <2> QED BY <2>1, <2>2 DEF TheLink
<1>5. o = TheLink.to
  BY <1>2, <1>4 DEF Opened
<1>6. TheLink.to \in Object
  BY <1>1 DEF Link
<1> QED BY <1>4, <1>5, <1>6 DEF Here

\* A link that does not lead abroad is a hard link, from a group of the file itself.
LEMMA OpenedAtHome ==
    ASSUME WalkType, LinkLeft, ~Abroad, NEW o \in Opened
    PROVE  /\ ~Top.abroad /\ TheLink.type = "hard" /\ o = TheLink.to /\ o \in Object
           /\ LeadsTo(TheFile, Top.group, o)
           /\ Lookup(TheFile, Root, Path) = Here(o) /\ RootOf[o] = Root
<1>1. ~Top.abroad /\ TheLink.type # "external"
  BY DEF Abroad
<1>2. /\ Walking /\ TheLink.type \in Followed
      /\ Top.group \in DOMAIN TheFile /\ Name \in DOMAIN TheFile[Top.group]
  BY LinkIs
<1>3. TheLink.type = "hard"
  BY <1>1, <1>2 DEF Followed
<1>4. o = TheLink.to /\ o \in Object /\ Lookup(TheFile, Root, Path) = Here(o)
  BY <1>1, <1>3, OpenedFromHome
<1>5. LeadsTo(TheFile, Top.group, o)
  BY <1>2, <1>3, <1>4 DEF LeadsTo, TheLink
<1>6. TheFile \in File /\ RootOf[Top.group] = Root
  BY <1>1, <1>2, RequestIs, TopIs DEF WalkType, AtHome
<1>7. RootOf[TheLink.to] = RootOf[Top.group]
  BY <1>2, <1>3, <1>6, FileAssumption DEF TheLink
<1> QED BY <1>1, <1>3, <1>4, <1>5, <1>6, <1>7

\* Advance changes the next link of the innermost group only.
LEMMA AdvanceIs ==
    ASSUME WalkType, Walking
    PROVE  /\ Advance \in Seq(Frames(TheFile))
           /\ Len(Advance) = Len(stack)
           /\ \A i \in 1..Len(stack) :
                /\ Advance[i].group = stack[i].group /\ Advance[i].path = stack[i].path
                /\ Advance[i].abroad = stack[i].abroad
                /\ Advance[i].next = IF i = Len(stack) THEN stack[i].next + 1 ELSE stack[i].next
<1> DEFINE l == Len(stack)
           top == [stack[l] EXCEPT !.next = @ + 1]
<1>1. l \in Nat \ {0} /\ stack \in Seq(Frames(TheFile))
  BY TopIs DEF WalkType, StackType
<1>2. stack[l] \in Frames(TheFile)
  BY TopIs DEF Top
<1>3. /\ top \in Frames(TheFile)
      /\ top.group = stack[l].group /\ top.path = stack[l].path /\ top.next = stack[l].next + 1
      /\ top.abroad = stack[l].abroad
  BY <1>2 DEF Frames
<1>4. Advance = [stack EXCEPT ![l] = top]
  BY DEF Advance
<1> HIDE DEF Frames, top
<1>5. /\ Advance \in Seq(Frames(TheFile)) /\ Len(Advance) = l
      /\ \A i \in 1..l : Advance[i] = IF i = l THEN top ELSE stack[i]
  BY <1>1, <1>3, <1>4
<1> QED BY <1>1, <1>3, <1>5

\* The stack after each of the actions on it.
Alike(i) ==
    /\ stack'[i].group = stack[i].group
    /\ stack'[i].path = stack[i].path
    /\ stack'[i].abroad = stack[i].abroad

\* The stack after a link that is not entered: the same groups, on the same paths.
LEMMA StackAdvanced ==
    ASSUME WalkType, Walking, stack' = Advance
    PROVE  /\ Len(stack') = Len(stack) /\ stack' \in Seq(Frames(TheFile)) /\ stack' # <<>>
           /\ \A i \in 1..Len(stack) : Alike(i)
           /\ \A i \in 1..Len(stack) : i # Len(stack) => stack'[i].next = stack[i].next
           /\ stack'[Len(stack)].next = Top.next + 1
<1>1. Len(stack) \in Nat \ {0} /\ stack \in Seq(Frames(TheFile))
  BY TopIs DEF WalkType, StackType
<1>2. /\ stack' \in Seq(Frames(TheFile))
      /\ Len(stack') = Len(stack)
      /\ \A i \in 1..Len(stack) :
           /\ stack'[i].group = stack[i].group /\ stack'[i].path = stack[i].path
           /\ stack'[i].abroad = stack[i].abroad
           /\ stack'[i].next = IF i = Len(stack) THEN stack[i].next + 1 ELSE stack[i].next
  BY AdvanceIs, Zenon
<1> HIDE DEF Frames
<1> QED BY <1>1, <1>2 DEF Alike, Top

\* The stack after a group is entered: the groups before and the one entered.
LEMMA StackEntered ==
    ASSUME WalkType, LinkLeft, NEW o, IsGroup(o), stack' = Append(Advance, Frame(o, Path, Abroad))
    PROVE  /\ Len(stack) \in Nat \ {0} /\ Len(stack') = Len(stack) + 1
           /\ stack' \in Seq(Frames(TheFile)) /\ stack' # <<>>
           /\ \A i \in 1..Len(stack) : Alike(i)
           /\ \A i \in 1..Len(stack) : i # Len(stack) => stack'[i].next = stack[i].next
           /\ stack'[Len(stack)].next = Top.next + 1
           /\ stack'[Len(stack) + 1].group = o
           /\ stack'[Len(stack) + 1].abroad = Abroad
           /\ stack'[Len(stack) + 1].path = Path
           /\ stack'[Len(stack) + 1].next = 1
<1>1. Walking /\ Path \in Seq(Nat) /\ Top.abroad \in BOOLEAN
  BY LinkIs
<1>2. Len(stack) \in Nat \ {0} /\ stack \in Seq(Frames(TheFile))
  BY <1>1, TopIs DEF WalkType, StackType
<1>3. /\ Advance \in Seq(Frames(TheFile))
      /\ Len(Advance) = Len(stack)
      /\ \A i \in 1..Len(stack) :
           /\ Advance[i].group = stack[i].group /\ Advance[i].path = stack[i].path
           /\ Advance[i].abroad = stack[i].abroad
           /\ Advance[i].next = IF i = Len(stack) THEN stack[i].next + 1 ELSE stack[i].next
  BY <1>1, AdvanceIs, Zenon
<1>4. /\ Frame(o, Path, Abroad) \in Frames(TheFile)
      /\ Frame(o, Path, Abroad).group = o
      /\ Frame(o, Path, Abroad).abroad = Abroad
      /\ Frame(o, Path, Abroad).path = Path
      /\ Frame(o, Path, Abroad).next = 1
  BY <1>1 DEF Frame, Frames, IsGroup, Abroad
<1>5. /\ stack' \in Seq(Frames(TheFile)) /\ Len(stack') = Len(stack) + 1
      /\ stack'[Len(stack) + 1] = Frame(o, Path, Abroad)
      /\ \A i \in 1..Len(stack) : stack'[i] = Advance[i]
  <2> HIDE DEF Frames
  <2> DEFINE longer == Append(Advance, Frame(o, Path, Abroad))
  <2>1. /\ longer \in Seq(Frames(TheFile))
        /\ Len(longer) = Len(Advance) + 1
        /\ longer[Len(Advance) + 1] = Frame(o, Path, Abroad)
        /\ \A i \in 1..Len(Advance) : longer[i] = Advance[i]
    BY <1>3, <1>4, AppendIn
  <2>2. stack' = longer
    OBVIOUS
  <2> HIDE DEF longer
  <2> QED BY <1>3, <2>1, <2>2
<1> HIDE DEF Frames
<1>6. stack' # <<>>
  BY <1>2, <1>5
<1> QED BY <1>2, <1>3, <1>4, <1>5, <1>6 DEF Alike, Top

\* The stack after a group is left: the groups that enclose it.
LEMMA StackLeft ==
    ASSUME WalkType, Walking, stack' = SubSeq(stack, 1, Len(stack) - 1)
    PROVE  /\ Len(stack) \in Nat \ {0} /\ Len(stack') = Len(stack) - 1
           /\ stack' \in Seq(Frames(TheFile))
           /\ \A i \in 1..Len(stack') : stack'[i] = stack[i]
           /\ stack' = <<>> <=> Len(stack) = 1
<1>1. Len(stack) \in Nat \ {0} /\ stack \in Seq(Frames(TheFile))
  BY TopIs DEF WalkType, StackType
<1> HIDE DEF Frames
<1>2. /\ SubSeq(stack, 1, Len(stack) - 1) \in Seq(Frames(TheFile))
      /\ Len(SubSeq(stack, 1, Len(stack) - 1)) = Len(stack) - 1
      /\ \A i \in 1..(Len(stack) - 1) : SubSeq(stack, 1, Len(stack) - 1)[i] = stack[i]
  <2>1. Len(stack) # 0
    BY <1>1
  <2> QED BY <1>1, <2>1, FrontIs, Zenon
<1>3. stack' \in Seq(Frames(TheFile)) /\ Len(stack') = Len(stack) - 1
  BY <1>2, Zenon
<1>4. stack' = <<>> <=> Len(stack) = 1
  <2>1. stack' = <<>> <=> Len(stack') = 0
    BY <1>3, EmptySeq
  <2> QED BY <1>1, <1>3, <2>1
<1>5. \A i \in 1..Len(stack') : stack'[i] = stack[i]
  BY <1>2, <1>3, Zenon
<1> QED BY <1>1, <1>3, <1>4, <1>5

\* A step that leaves the request alone.
LEMMA SameRequest ==
    ASSUME request' = request
    PROVE  /\ Walking' <=> Walking
           /\ Kind' = Kind /\ TheFile' = TheFile
           /\ RequestType' <=> RequestType
BY DEF Walking, Kind, TheFile, RequestType

\* Frames with the same groups, paths and histories are linked alike.
LEMMA LinksKept ==
    ASSUME WalkType, Walking, NEW l \in Nat, l <= Len(stack), l <= Len(stack'),
           \A i \in 1..l : Alike(i), TheFile' = TheFile
    PROVE  /\ \A i \in 1..l : i + 1 <= l =>
                /\ stack'[i].abroad => stack'[i + 1].abroad
                /\ ~stack'[i + 1].abroad => LeadsTo(TheFile, stack'[i].group, stack'[i + 1].group)
           /\ \A i \in 1..l : ~stack'[i].abroad => AtHome(TheFile, stack'[i])
<1>0. Len(stack) \in Nat
  BY TopIs
<1>1. /\ StackLinks(TheFile, stack)
      /\ \A i \in 1..Len(stack) : ~stack[i].abroad => AtHome(TheFile, stack[i])
  BY DEF WalkType, StackType
<1>2. ASSUME NEW i \in 1..l, i + 1 <= l
      PROVE  /\ stack'[i].abroad => stack'[i + 1].abroad
             /\ ~stack'[i + 1].abroad => LeadsTo(TheFile, stack'[i].group, stack'[i + 1].group)
  <2>1. i \in 1..Len(stack) /\ i + 1 \in 1..l /\ i + 1 <= Len(stack)
    BY <1>0, <1>2
  <2>2. Alike(i) /\ Alike(i + 1)
    BY <2>1
  <2> QED BY <1>1, <2>1, <2>2 DEF Alike, StackLinks
<1>3. ASSUME NEW i \in 1..l, ~stack'[i].abroad PROVE AtHome(TheFile, stack'[i])
  <2>1. i \in 1..Len(stack) /\ Alike(i)
    BY <1>0
  <2> QED BY <1>1, <1>3, <2>1 DEF Alike, AtHome
<1> QED BY <1>2, <1>3

\* The root group stays at the bottom of the stack.
LEMMA BottomKept ==
    ASSUME WalkType, Walking, Alike(1)
    PROVE  stack'[1].group = Root /\ ~stack'[1].abroad
BY DEF WalkType, StackType, Alike

\* A link that is not entered keeps WalkType.
LEMMA TypeAdvanced ==
    ASSUME WalkType, Walking, request' = request, stack' = Advance
    PROVE  WalkType'
<1>1. Walking' /\ TheFile' = TheFile /\ RequestType'
  BY SameRequest DEF WalkType
<1>2. Len(stack) \in Nat \ {0}
  BY TopIs
<1>3. /\ Len(stack') = Len(stack) /\ stack' \in Seq(Frames(TheFile)) /\ stack' # <<>>
      /\ \A i \in 1..Len(stack) : Alike(i)
  BY StackAdvanced, Zenon
<1>4. stack'[1].group = Root /\ ~stack'[1].abroad
  BY <1>2, <1>3, BottomKept
<1>5. /\ StackLinks(TheFile, stack')
      /\ \A i \in 1..Len(stack') : ~stack'[i].abroad => AtHome(TheFile, stack'[i])
  BY <1>1, <1>2, <1>3, LinksKept DEF StackLinks
<1> HIDE DEF Frames
<1>6. StackType'
  BY <1>1, <1>3, <1>4, <1>5 DEF StackType, StackLinks, AtHome
<1> QED BY <1>1, <1>6 DEF WalkType

\* Entering a group keeps WalkType: as long as the walk has followed no external link,
\* the innermost group has a hard link to it, and the path leads to it.
LEMMA TypeEntered ==
    ASSUME WalkType, LinkLeft, NEW o \in Opened, IsGroup(o), request' = request,
           stack' = Append(Advance, Frame(o, Path, Abroad))
    PROVE  WalkType'
<1> DEFINE l == Len(stack)
<1>1. Walking /\ Walking' /\ TheFile' = TheFile /\ RequestType'
  BY SameRequest DEF WalkType, LinkLeft
<1>2. /\ l \in Nat \ {0} /\ Len(stack') = l + 1
      /\ stack' \in Seq(Frames(TheFile)) /\ stack' # <<>>
      /\ \A i \in 1..l : Alike(i)
      /\ stack'[l + 1].group = o /\ stack'[l + 1].path = Path /\ stack'[l + 1].abroad = Abroad
  BY StackEntered, Zenon
<1>3. stack'[1].group = Root /\ ~stack'[1].abroad
  BY <1>1, <1>2, BottomKept
<1>4. /\ \A i \in 1..l : i + 1 <= l =>
            /\ stack'[i].abroad => stack'[i + 1].abroad
            /\ ~stack'[i + 1].abroad => LeadsTo(TheFile, stack'[i].group, stack'[i + 1].group)
      /\ \A i \in 1..l : ~stack'[i].abroad => AtHome(TheFile, stack'[i])
  BY <1>1, <1>2, LinksKept
<1>5. stack'[l].group = Top.group /\ stack'[l].abroad = Top.abroad
  BY <1>2 DEF Alike, Top
<1>6. ~Abroad => /\ LeadsTo(TheFile, Top.group, o)
                 /\ Lookup(TheFile, Root, Path) = Here(o) /\ RootOf[o] = Root
  BY OpenedAtHome
<1>7. /\ stack'[l].abroad => stack'[l + 1].abroad
      /\ ~stack'[l + 1].abroad => LeadsTo(TheFile, stack'[l].group, stack'[l + 1].group)
  BY <1>2, <1>5, <1>6 DEF Abroad
<1>8. ~stack'[l + 1].abroad => AtHome(TheFile, stack'[l + 1])
  BY <1>2, <1>6 DEF AtHome
<1> HIDE DEF l
<1>9. StackLinks(TheFile, stack')
  <2> SUFFICES ASSUME NEW i \in 1..(l + 1), i + 1 <= l + 1
               PROVE  /\ stack'[i].abroad => stack'[i + 1].abroad
                      /\ ~stack'[i + 1].abroad => LeadsTo(TheFile, stack'[i].group, stack'[i + 1].group)
    BY <1>2 DEF StackLinks
  <2>1. i = l \/ (i \in 1..l /\ i + 1 <= l)
    BY <1>2
  <2> QED BY <1>4, <1>7, <2>1
<1>10. \A i \in 1..(l + 1) : ~stack'[i].abroad => AtHome(TheFile, stack'[i])
  <2>1. \A i \in 1..(l + 1) : i = l + 1 \/ i \in 1..l
    BY <1>2
  <2> QED BY <1>4, <1>8, <2>1
<1> HIDE DEF Frames
<1>11. StackType'
  BY <1>1, <1>2, <1>3, <1>9, <1>10 DEF StackType, StackLinks, AtHome
<1> QED BY <1>1, <1>11 DEF WalkType

\* Leaving a group keeps WalkType.
LEMMA TypeLeft ==
    ASSUME WalkType, LeaveGroup
    PROVE  WalkType'
<1>1. Walking /\ stack' = SubSeq(stack, 1, Len(stack) - 1)
  BY DEF LeaveGroup
<1>2. /\ Len(stack) \in Nat \ {0} /\ Len(stack') = Len(stack) - 1
      /\ stack' \in Seq(Frames(TheFile))
      /\ \A i \in 1..Len(stack') : stack'[i] = stack[i]
      /\ stack' = <<>> <=> Len(stack) = 1
  BY <1>1, StackLeft, Zenon
<1>3. CASE Len(stack) = 1
  <2>1. request' = [request EXCEPT !.status = "done"]
    BY <1>3 DEF LeaveGroup
  <2>2. RequestType' /\ ~Walking'
    BY <1>1, <2>1 DEF WalkType, RequestType, Request, Walking
  <2> QED BY <1>2, <1>3, <2>2 DEF WalkType, StackType
<1>4. CASE Len(stack) # 1
  <2>1. request' = request
    BY <1>4 DEF LeaveGroup
  <2>2. Walking' /\ TheFile' = TheFile /\ RequestType'
    BY <1>1, <2>1, SameRequest DEF WalkType
  <2>3. \A i \in 1..Len(stack') : Alike(i)
    BY <1>2 DEF Alike
  <2>4. stack'[1].group = Root /\ ~stack'[1].abroad
    BY <1>1, <1>2, <1>4, <2>3, BottomKept
  <2>5. Len(stack') \in Nat /\ Len(stack') <= Len(stack) /\ Len(stack') <= Len(stack')
    BY <1>2
  <2> DEFINE l == Len(stack')
  <2>6. /\ \A i \in 1..l : i + 1 <= l =>
              /\ stack'[i].abroad => stack'[i + 1].abroad
              /\ ~stack'[i + 1].abroad => LeadsTo(TheFile, stack'[i].group, stack'[i + 1].group)
        /\ \A i \in 1..l : ~stack'[i].abroad => AtHome(TheFile, stack'[i])
    <3> HIDE DEF l
    <3>1. l \in Nat /\ l <= Len(stack) /\ l <= Len(stack') /\ \A i \in 1..l : Alike(i)
      BY <2>3, <2>5 DEF l
    <3> QED BY <1>1, <2>2, <3>1, LinksKept
  <2> HIDE DEF Frames
  <2>7. StackType'
    BY <1>2, <1>4, <2>2, <2>4, <2>6 DEF StackType, StackLinks, AtHome
  <2> QED BY <2>2, <2>7 DEF WalkType
<1> QED BY <1>3, <1>4

\* A new request, and the stack of its walk.
LEMMA TypeBegun ==
    ASSUME NEW kind \in Kinds, NEW f \in File, Begin(kind, f)
    PROVE  /\ WalkType'
           /\ Walking' /\ Kind' = kind /\ TheFile' = f
           /\ Len(stack') = 1
           /\ stack'[1].group = Root /\ stack'[1].path = <<>> /\ stack'[1].next = 1
           /\ ~stack'[1].abroad
<1>1. request' = [kind |-> kind, file |-> f, status |-> "walking", first |-> Map(kind) = <<>>]
  BY DEF Begin
<1>2. RequestType' /\ Kind' = kind /\ TheFile' = f
  BY <1>1 DEF RequestType, Request, Kind, TheFile
<1>3. Walking'
  <2>1. request' \in Request
    BY <1>1 DEF Request
  <2>2. request' # None
    BY <2>1, NoneAssumption
  <2> QED BY <1>1, <2>2 DEF Walking
<1>4. stack' = <<Frame(Root, <<>>, FALSE)>>
  BY DEF Begin
<1>5. Root \in DOMAIN f
  BY FileAssumption
<1>6. /\ Frame(Root, <<>>, FALSE) \in Frames(f) /\ Frame(Root, <<>>, FALSE).group = Root
      /\ Frame(Root, <<>>, FALSE).path = <<>> /\ Frame(Root, <<>>, FALSE).next = 1
      /\ ~Frame(Root, <<>>, FALSE).abroad
  BY <1>5 DEF Frame, Frames
<1>9. AtHome(f, Frame(Root, <<>>, FALSE))
  BY <1>6, LookupStep, ObjectAssumption DEF AtHome
<1> DEFINE x == Frame(Root, <<>>, FALSE)
<1>7. /\ stack' \in Seq(Frames(f)) /\ stack' # <<>> /\ Len(stack') = 1
      /\ stack'[1] = x
  <2>1. x \in Frames(f) /\ stack' = <<x>>
    BY <1>4, <1>6
  <2> HIDE DEF Frames, x
  <2> QED BY <2>1
<1>8. StackType'
  <2>1. StackLinks(f, stack')
    BY <1>7 DEF StackLinks
  <2>2. stack'[1].group = Root /\ ~stack'[1].abroad
    BY <1>6, <1>7
  <2>3. \A i \in 1..Len(stack') : i = 1
    BY <1>7
  <2>4. \A i \in 1..Len(stack') : AtHome(f, stack'[i])
    BY <1>7, <1>9, <2>3
  <2> HIDE DEF Frames, x
  <2> QED BY <1>2, <1>3, <1>7, <2>1, <2>2, <2>4 DEF StackType, StackLinks, AtHome
<1> QED BY <1>2, <1>3, <1>6, <1>7, <1>8 DEF WalkType

\* No request is there yet.
LEMMA TypeInit == Init => WalkType
BY DEF Init, WalkType, RequestType, StackType, Walking

\* Every step keeps WalkType.
LEMMA TypeStep == WalkType /\ [Next]_vars => WalkType'
<1> SUFFICES ASSUME WalkType, [Next]_vars PROVE WalkType'
  OBVIOUS
<1>1. CASE ListDataset
  BY <1>1, TypeAdvanced DEF ListDataset, LinkLeft
<1>2. CASE EnterGroup
  <2>1. PICK o \in Opened : IsGroup(o) /\ stack' = Append(Advance, Frame(o, Path, Abroad))
    BY <1>2 DEF EnterGroup
  <2>2. LinkLeft /\ request' = request
    BY <1>2 DEF EnterGroup
  <2> QED BY <2>1, <2>2, TypeEntered
<1>3. CASE PassGroup
  BY <1>3, TypeAdvanced DEF PassGroup, LinkLeft
<1>4. CASE LeaveGroup
  BY <1>4, TypeLeft
<1>5. CASE Fail \/ NotOpened
  BY <1>5 DEF Fail, NotOpened, LinkLeft, WalkType, RequestType, Request, StackType, Walking
<1>6. CASE Restart
  BY <1>6 DEF Restart, WalkType, RequestType, StackType, Walking
<1>7. ASSUME NEW kind \in Kinds, NEW f \in File, Begin(kind, f) PROVE WalkType'
  BY <1>7, TypeBegun
<1>8. CASE UNCHANGED vars
  BY <1>8 DEF vars, WalkType, RequestType, StackType, Walking, TheFile, StackLinks, AtHome
<1> QED BY <1>1, <1>2, <1>3, <1>4, <1>5, <1>6, <1>7, <1>8 DEF Next, Walk

------------------------------------------------------------------------------
(***************************************************************************)
(* Cycles are broken.                                                      *)
(***************************************************************************)

\* What get_hardlink does to the map of the visited objects: the names given before
\* stay, and an object with several links is there afterwards.
LEMMA AddedIs ==
    ASSUME NEW map, NEW f, NEW o, NEW name
    PROVE  /\ DOMAIN map \subseteq DOMAIN Added(map, f, o, name)
           /\ DOMAIN Added(map, f, o, name) \subseteq DOMAIN map \cup {AddressOf[o]}
           /\ Rc(f, o) > 1 => AddressOf[o] \in DOMAIN Added(map, f, o, name)
           /\ \A a \in DOMAIN map : Added(map, f, o, name)[a] = map[a]
           /\ AddressOf[o] \in DOMAIN Added(map, f, o, name) \ DOMAIN map =>
                Rc(f, o) > 1 /\ Added(map, f, o, name)[AddressOf[o]] = name
BY DEF Added

\* The map of a request after it has been set.
LEMMA MapIs ==
    ASSUME NEW map, SetMap(Kind, map), request' = request
    PROVE  Map(Kind)' = map
<1>1. Kind' = Kind
  BY SameRequest
<1> QED BY <1>1 DEF SetMap, Map

Grown == DOMAIN Map(Kind) \subseteq DOMAIN Map(Kind)'

\* A link that is not entered keeps CycleInv.
LEMMA CycleAdvanced ==
    ASSUME CycleInv, Walking, request' = request, stack' = Advance, Grown
    PROVE  CycleInv'
<1>1. Walking' /\ Kind' = Kind /\ TheFile' = TheFile
  BY SameRequest
<1>2. Len(stack') = Len(stack) /\ \A i \in 1..Len(stack) : Alike(i)
  BY StackAdvanced DEF CycleInv
<1>3. WalkType'
  BY TypeAdvanced DEF CycleInv
<1>4. ASSUME NEW i \in 1..Len(stack), InMap(i) PROVE InMap(i)'
  BY <1>1, <1>2, <1>4 DEF InMap, Grown, Alike
<1>5. /\ \A i, j \in 1..Len(stack) : Same(i, j)' <=> Same(i, j)
      /\ \A i \in 1..Len(stack) : stack'[i].group = stack[i].group /\ (RootAt(i)' <=> RootAt(i))
  BY <1>2 DEF Same, RootAt, Alike
<1>6. DasCycle'
  BY <1>1, <1>2, <1>4, <1>5 DEF CycleInv, DasCycle
<1>7. DdsCycle'
  BY <1>1, <1>2, <1>4, <1>5 DEF CycleInv, DdsCycle
<1>8. DmrCycle'
  BY <1>1, <1>2, <1>4, <1>5 DEF CycleInv, DmrCycle
<1> QED BY <1>3, <1>6, <1>7, <1>8 DEF CycleInv

\* A walk that goes into a group of the file itself again has come to it by the one link
\* that leads to the group, and so was in the group with this link before; unless it is a
\* group with several links, or the root group.
LEMMA AgainFrom ==
    ASSUME WalkType, LinkLeft, ~Abroad, NEW o \in Opened, Rc(TheFile, o) <= 1,
           NEW i \in 1..Len(stack), ~stack[i].abroad, stack[i].group = o
    PROVE  /\ i # 1 /\ i - 1 \in 1..Len(stack) /\ Same(i - 1, Len(stack))
           /\ o # Root
<1>1. Len(stack) \in Nat \ {0} /\ TheFile \in File
  BY TopIs, RequestIs DEF LinkLeft, WalkType
<1>2. Top.group \in DOMAIN TheFile /\ LeadsTo(TheFile, Top.group, o) /\ ~Top.abroad
  BY LinkIs, OpenedAtHome
<1>3. o # Root /\ \A h \in DOMAIN TheFile : LeadsTo(TheFile, h, o) => h = Top.group
  BY <1>1, <1>2, OnlyLink
<1>4. stack[1].group = Root
  BY DEF WalkType, StackType, LinkLeft
<1>5. i # 1 /\ i - 1 \in 1..Len(stack) /\ (i - 1) + 1 = i
  BY <1>1, <1>3, <1>4
<1>6. LeadsTo(TheFile, stack[i - 1].group, o) /\ ~stack[i - 1].abroad
  <2>1. StackLinks(TheFile, stack)
    BY DEF WalkType, StackType, LinkLeft
  <2> QED BY <1>5, <2>1 DEF StackLinks
<1>7. stack[i - 1].group \in DOMAIN TheFile
  <2>1. stack \in Seq(Frames(TheFile))
    BY DEF WalkType, StackType, LinkLeft
  <2>2. stack[i - 1] \in Frames(TheFile)
    <3> HIDE DEF Frames
    <3> QED BY <1>1, <1>5, <2>1
  <2> QED BY <2>2 DEF Frames
<1> QED BY <1>2, <1>3, <1>5, <1>6, <1>7 DEF Same, Top

\* The root group has the link of the file and one more, if a link leads to it.
LEMMA RootTwice ==
    ASSUME WalkType, LinkLeft, ~Abroad, Root \in Opened
    PROVE  Rc(TheFile, Root) > 1
<1>1. TheFile \in File
  BY RequestIs DEF LinkLeft, WalkType
<1>2. Top.group \in DOMAIN TheFile /\ LeadsTo(TheFile, Top.group, Root)
  BY LinkIs, OpenedAtHome
<1>3. Cardinality(LinksTo(TheFile, Root)) \in Nat
  <2>1. LinksTo(TheFile, Root) \subseteq HardLinks(TheFile)
    BY DEF LinksTo
  <2> QED BY <1>1, <2>1, LinksFinite, FS_Subset, FS_CardinalityType
<1>4. ~(Rc(TheFile, Root) <= 1)
  BY <1>1, <1>2, OnlyLink, Zenon
<1> QED BY <1>3, <1>4 DEF Rc

\* The number of links to an object, which H5Oget_info gives, is a number.
LEMMA RcType ==
    ASSUME NEW f \in File, NEW o
    PROVE  Rc(f, o) \in Nat
<1>1. LinksTo(f, o) \subseteq HardLinks(f)
  BY DEF LinksTo
<1>2. Cardinality(LinksTo(f, o)) \in Nat
  BY <1>1, LinksFinite, FS_Subset, FS_CardinalityType
<1> QED BY <1>2 DEF Rc

\* Entering a group keeps CycleInv. It was not in the map; the groups of the stack
\* that several links lead to are, so it is none of them.
LEMMA CycleEntered ==
    ASSUME CycleInv, EnterGroup
    PROVE  CycleInv'
<1>0. SUFFICES ASSUME NEW l, l = Len(stack), NEW o \in Opened, IsGroup(o),
                      ~Visited(Map(Kind), TheFile, Checked(o)),
                      SetMap(Kind, Added(Map(Kind), TheFile, Checked(o), CheckedName)),
                      stack' = Append(Advance, Frame(o, Path, Abroad))
               PROVE  CycleInv'
  BY DEF EnterGroup
<1>1. LinkLeft /\ Walking /\ request' = request /\ WalkType
  BY DEF EnterGroup, LinkLeft, CycleInv
<1> DEFINE Hit(i) == ~Abroad /\ ~stack[i].abroad /\ stack[i].group = o
<1>2. WalkType'
  BY <1>0, <1>1, TypeEntered
<1>3. Walking' /\ Kind' = Kind /\ TheFile' = TheFile
  BY <1>1, SameRequest
<1>4. /\ l \in Nat \ {0} /\ Len(stack') = l + 1
      /\ \A i \in 1..l : stack'[i].group = stack[i].group /\ stack'[i].abroad = stack[i].abroad
      /\ stack'[l + 1].group = o /\ stack'[l + 1].abroad = Abroad
  BY <1>0, <1>1, StackEntered DEF Alike
<1>5. /\ DOMAIN Map(Kind) \subseteq DOMAIN Map(Kind)'
      /\ Rc(TheFile, Checked(o)) > 1 => AddressOf[Checked(o)] \in DOMAIN Map(Kind)'
  <2>1. Map(Kind)' = Added(Map(Kind), TheFile, Checked(o), CheckedName)
    BY <1>0, <1>1, MapIs
  <2> QED BY <2>1, AddedIs
<1>6. Rc(TheFile, Checked(o)) > 1 => ~(AddressOf[Checked(o)] \in DOMAIN Map(Kind))
  BY <1>0 DEF Visited
<1>7. TheFile \in File /\ Rc(TheFile, o) \in Nat /\ Rc(TheFile, Top.group) \in Nat
  BY <1>1, RequestIs, RcType DEF WalkType
<1>8. ASSUME NEW i \in 1..l, InMap(i) PROVE InMap(i)'
  BY <1>3, <1>4, <1>5, <1>8 DEF InMap
<1>9. /\ \A i, j \in 1..l : Same(i, j)' <=> Same(i, j)
      /\ \A i \in 1..l : Same(i, l + 1)' <=> Hit(i)
      /\ \A i \in 1..l : RootAt(i)' <=> RootAt(i)
      /\ RootAt(l + 1)' <=> ~Abroad /\ o = Root
  BY <1>4 DEF Same, RootAt
<1>10. /\ \A i \in 1..(l + 1) : i \in 1..l \/ i = l + 1
       /\ \A i \in 1..l : i \in 1..(l + 1)
       /\ \A i, j \in 1..(l + 1) : i < j => i \in 1..l
  BY <1>4
<1>11. ASSUME NEW i \in 1..l, Hit(i), ~(Rc(TheFile, o) > 1)
       PROVE  i # 1 /\ i - 1 \in 1..l /\ Same(i - 1, l) /\ o # Root
  <2>1. Rc(TheFile, o) <= 1
    BY <1>7, <1>11
  <2> QED BY <1>0, <1>1, <1>11, <2>1, AgainFrom
<1>12. stack[l].group = Top.group
  BY <1>0 DEF Top
<1> HIDE DEF Hit
<1>13. DasCycle'
  <2> SUFFICES ASSUME Kind = "das" PROVE DasCycle'
    BY <1>3 DEF DasCycle
  <2>1. Checked(o) = o
    BY DEF Checked
  <2>2. /\ \A i \in 1..l : InMap(i)
        /\ \A i, j \in 1..l : i < j => ~Same(i, j)
    BY <1>0, <1>1 DEF CycleInv, DasCycle
  <2>3. InMap(l + 1)'
    BY <1>3, <1>4, <1>5, <2>1 DEF InMap
  <2>4. ASSUME NEW i \in 1..l, Hit(i) PROVE FALSE
    <3>1. ~(Rc(TheFile, o) > 1)
      BY <1>6, <2>1, <2>2, <2>4 DEF InMap, Hit
    <3>2. i - 1 \in 1..l /\ Same(i - 1, l)
      BY <1>11, <2>4, <3>1
    <3> QED BY <1>4, <2>2, <3>2
  <2>5. \A i \in 1..(l + 1) : InMap(i)'
    BY <1>8, <1>10, <2>2, <2>3
  <2>6. \A i, j \in 1..(l + 1) : i < j => ~Same(i, j)'
    BY <1>9, <1>10, <2>2, <2>4
  <2> QED BY <1>3, <1>4, <2>5, <2>6 DEF DasCycle
<1>14. DdsCycle'
  <2> SUFFICES ASSUME Kind = "dds" PROVE DdsCycle'
    BY <1>3 DEF DdsCycle
  <2>1. Checked(o) = Top.group
    BY DEF Checked
  <2>2. /\ \A i \in 1..l : i < l => InMap(i)
        /\ \A i, j \in 1..l : i < j /\ Same(i, j) => j = l /\ Rc(TheFile, stack[i].group) > 1
    BY <1>0, <1>1 DEF CycleInv, DdsCycle
  <2>3. InMap(l)'
    BY <1>3, <1>4, <1>5, <1>12, <2>1 DEF InMap
  \* The innermost group is a group that the walk was not in before.
  <2>4. ASSUME NEW i \in 1..l, i < l, Same(i, l) PROVE FALSE
    <3>1. Rc(TheFile, Top.group) > 1 /\ InMap(i)
      BY <1>4, <1>12, <2>2, <2>4 DEF Same
    <3>2. AddressOf[Top.group] \in DOMAIN Map(Kind)
      BY <1>12, <2>4, <3>1 DEF InMap, Same
    <3> QED BY <1>6, <2>1, <3>1, <3>2
  <2>5. ASSUME NEW i \in 1..l, Hit(i) PROVE Rc(TheFile, o) > 1
    <3> SUFFICES ASSUME ~(Rc(TheFile, o) > 1) PROVE FALSE
      OBVIOUS
    <3>1. i - 1 \in 1..l /\ Same(i - 1, l)
      BY <1>11, <2>5
    <3> QED BY <1>4, <2>4, <3>1
  <2>6. \A i \in 1..(l + 1) : i < l + 1 => InMap(i)'
    BY <1>4, <1>8, <1>10, <2>2, <2>3
  <2>7. ASSUME NEW i \in 1..(l + 1), NEW j \in 1..(l + 1), i < j, Same(i, j)'
        PROVE  j = l + 1 /\ Rc(TheFile, stack'[i].group) > 1
    <3>1. i \in 1..l
      BY <1>10, <2>7
    <3>2. CASE j \in 1..l
      <4>1. Same(i, j)
        BY <1>9, <2>7, <3>1, <3>2
      <4>2. j = l
        BY <2>2, <2>7, <3>1, <3>2, <4>1
      <4> QED BY <2>4, <2>7, <3>1, <4>1, <4>2
    <3>3. CASE j = l + 1
      <4>1. Hit(i) /\ stack'[i].group = o
        BY <1>4, <1>9, <2>7, <3>1, <3>3 DEF Hit
      <4> QED BY <2>5, <3>1, <3>3, <4>1
    <3> QED BY <1>10, <3>2, <3>3
  <2> QED BY <1>3, <1>4, <2>6, <2>7 DEF DdsCycle
<1>15. DmrCycle'
  <2> SUFFICES ASSUME Kind = "dmr" PROVE DmrCycle'
    BY <1>3 DEF DmrCycle
  <2>1. Checked(o) = o
    BY DEF Checked
  <2>2. /\ \A i \in 1..l : 1 < i => InMap(i)
        /\ \A i, j \in 1..l : i < j /\ Same(i, j) =>
             /\ stack[i].group = Root => i = 1
             /\ \E k \in 1..l : i < k /\ k <= j /\ RootAt(k)
    BY <1>0, <1>1 DEF CycleInv, DmrCycle
  <2>3. InMap(l + 1)'
    BY <1>3, <1>4, <1>5, <2>1 DEF InMap
  <2>4. ~Abroad /\ o = Root => Rc(TheFile, o) > 1
    BY <1>0, <1>1, RootTwice
  <2>5. ASSUME NEW i \in 1..l, Hit(i)
        PROVE  /\ o = Root => i = 1
               /\ \E k \in 1..(l + 1) : i < k /\ k <= l + 1 /\ RootAt(k)'
    <3>1. CASE i = 1
      <4>1. stack[1].group = Root
        BY <1>1 DEF WalkType, StackType
      <4>2. l + 1 \in 1..(l + 1) /\ i < l + 1 /\ RootAt(l + 1)'
        BY <1>4, <1>9, <2>5, <3>1, <4>1 DEF Hit
      <4> QED BY <1>4, <3>1, <4>2
    <3>2. CASE i # 1
      <4>1. ~(Rc(TheFile, o) > 1)
        <5>1. 1 < i
          BY <1>4, <3>2
        <5> QED BY <1>6, <2>1, <2>2, <2>5, <5>1 DEF InMap, Hit
      <4>2. i - 1 \in 1..l /\ Same(i - 1, l) /\ i - 1 < l
        BY <1>4, <1>11, <2>5, <4>1
      <4>3. l \in 1..l
        BY <1>4
      <4>4. PICK k \in 1..l : i - 1 < k /\ k <= l /\ RootAt(k)
        BY <2>2, <4>2, <4>3
      <4>5. k # i
        BY <2>4, <2>5, <4>1, <4>4 DEF Hit, RootAt
      <4>6. k \in 1..(l + 1) /\ i < k /\ k <= l + 1 /\ RootAt(k)'
        BY <1>4, <1>9, <4>4, <4>5
      <4> QED BY <2>4, <2>5, <4>1, <4>6 DEF Hit
    <3> QED BY <3>1, <3>2
  <2>6. \A i \in 1..(l + 1) : 1 < i => InMap(i)'
    BY <1>8, <1>10, <2>2, <2>3
  <2>7. ASSUME NEW i \in 1..(l + 1), NEW j \in 1..(l + 1), i < j, Same(i, j)'
        PROVE  /\ stack'[i].group = Root => i = 1
               /\ \E k \in 1..(l + 1) : i < k /\ k <= j /\ RootAt(k)'
    <3>1. i \in 1..l /\ stack'[i].group = stack[i].group
      BY <1>4, <1>10, <2>7
    <3>2. CASE j \in 1..l
      <4>1. Same(i, j)
        BY <1>9, <2>7, <3>1, <3>2
      <4>2. /\ stack[i].group = Root => i = 1
            /\ \E k \in 1..l : i < k /\ k <= j /\ RootAt(k)
        BY <2>2, <2>7, <3>1, <3>2, <4>1
      <4>3. PICK k \in 1..l : i < k /\ k <= j /\ RootAt(k)
        BY <4>2
      <4>4. k \in 1..(l + 1) /\ RootAt(k)'
        BY <1>9, <1>10, <4>3
      <4> QED BY <3>1, <4>2, <4>3, <4>4
    <3>3. CASE j = l + 1
      <4>1. Hit(i) /\ stack'[i].group = o
        BY <1>4, <1>9, <2>7, <3>1, <3>3 DEF Hit
      <4> QED BY <2>5, <3>1, <3>3, <4>1
    <3> QED BY <1>10, <3>2, <3>3
  <2> QED BY <1>3, <1>4, <2>6, <2>7 DEF DmrCycle
<1> QED BY <1>2, <1>13, <1>14, <1>15 DEF CycleInv

\* Leaving a group keeps CycleInv: what is left on the stack was there before.
LEMMA CycleLeft ==
    ASSUME CycleInv, LeaveGroup
    PROVE  CycleInv'
<1>1. WalkType /\ Walking /\ WalkType'
  BY TypeLeft DEF CycleInv, LeaveGroup
<1>2. /\ Len(stack) \in Nat \ {0} /\ Len(stack') = Len(stack) - 1
      /\ \A i \in 1..Len(stack') : stack'[i] = stack[i]
  BY <1>1, StackLeft DEF LeaveGroup
<1> SUFFICES ASSUME Walking' PROVE CycleInv'
  BY <1>1 DEF CycleInv, DasCycle, DdsCycle, DmrCycle
<1>3. request' = request
  BY DEF LeaveGroup, Walking
<1>4. Kind' = Kind /\ TheFile' = TheFile /\ Map(Kind)' = Map(Kind)
  BY <1>3, SameRequest DEF LeaveGroup, Map
<1>5. \A i \in 1..Len(stack') : i \in 1..Len(stack) /\ i # Len(stack) /\ i < Len(stack)
  BY <1>2
<1>6. \A i \in 1..Len(stack') : InMap(i)' <=> InMap(i)
  BY <1>2, <1>4 DEF InMap
<1>7. /\ \A i, j \in 1..Len(stack') : Same(i, j)' <=> Same(i, j)
      /\ \A i \in 1..Len(stack') : RootAt(i)' <=> RootAt(i)
  BY <1>2 DEF Same, RootAt
<1>8. DasCycle'
  BY <1>1, <1>4, <1>5, <1>6, <1>7 DEF CycleInv, DasCycle
<1>9. DdsCycle'
  BY <1>1, <1>4, <1>5, <1>6, <1>7 DEF CycleInv, DdsCycle
<1>10. DmrCycle'
  <2> SUFFICES ASSUME Kind = "dmr" PROVE DmrCycle'
    BY <1>4 DEF DmrCycle
  <2>1. /\ \A i \in 1..Len(stack) : 1 < i => InMap(i)
        /\ \A i, j \in 1..Len(stack) : i < j /\ Same(i, j) =>
             /\ stack[i].group = Root => i = 1
             /\ \E k \in 1..Len(stack) : i < k /\ k <= j /\ RootAt(k)
    BY <1>1 DEF CycleInv, DmrCycle
  <2>2. ASSUME NEW i \in 1..Len(stack'), NEW j \in 1..Len(stack'), i < j, Same(i, j)'
        PROVE  /\ stack'[i].group = Root => i = 1
               /\ \E k \in 1..Len(stack') : i < k /\ k <= j /\ RootAt(k)'
    <3>1. Same(i, j)
      BY <1>7, <2>2
    <3>2. /\ stack[i].group = Root => i = 1
          /\ \E k \in 1..Len(stack) : i < k /\ k <= j /\ RootAt(k)
      BY <1>5, <2>1, <2>2, <3>1
    <3>3. PICK k \in 1..Len(stack) : i < k /\ k <= j /\ RootAt(k)
      BY <3>2
    <3>4. k \in 1..Len(stack') /\ stack'[k] = stack[k] /\ stack'[i] = stack[i]
      BY <1>2, <3>3
    <3> QED BY <1>7, <3>2, <3>3, <3>4
  <2>3. \A i \in 1..Len(stack') : 1 < i => InMap(i)'
    BY <1>5, <1>6, <2>1
  <2> QED BY <2>2, <2>3 DEF DmrCycle
<1> QED BY <1>1, <1>8, <1>9, <1>10 DEF CycleInv

\* A new request has the root group alone on its stack.
LEMMA CycleBegun ==
    ASSUME NEW kind \in Kinds, NEW f \in File, Begin(kind, f)
    PROVE  CycleInv'
<1>1. /\ WalkType' /\ Walking' /\ Kind' = kind /\ TheFile' = f
      /\ Len(stack') = 1 /\ stack'[1].group = Root /\ ~stack'[1].abroad
  BY TypeBegun
<1>2. kind = "das" => InMap(1)'
  <2> SUFFICES ASSUME kind = "das" PROVE InMap(1)'
    OBVIOUS
  <2>1. paths' = Added(paths, f, Root, Full(<<>>))
    BY DEF Begin, SetMap
  <2>2. Rc(f, Root) > 1 => AddressOf[Root] \in DOMAIN paths'
    BY <2>1, AddedIs
  <2> QED BY <1>1, <2>2 DEF InMap, Map
<1>3. \A i \in 1..Len(stack') : i = 1
  BY <1>1
<1>4. DasCycle'
  BY <1>1, <1>2, <1>3 DEF DasCycle
<1>5. DdsCycle'
  BY <1>1, <1>3 DEF DdsCycle
<1>6. DmrCycle'
  BY <1>1, <1>3 DEF DmrCycle
<1> QED BY <1>1, <1>4, <1>5, <1>6 DEF CycleInv

\* The maps only grow while a request is served.
LEMMA MapGrows ==
    ASSUME ListDataset \/ PassGroup
    PROVE  Grown /\ request' = request /\ stack' = Advance /\ Walking
<1>1. CASE ListDataset
  <2>1. PICK o : SetMap(Kind, IF Kind = "dds" THEN paths ELSE Added(Map(Kind), TheFile, o, Full(Path)))
    BY <1>1 DEF ListDataset
  <2>2. request' = request /\ stack' = Advance /\ Walking
    BY <1>1 DEF ListDataset, LinkLeft
  <2>3. Map(Kind)' = IF Kind = "dds" THEN paths ELSE Added(Map(Kind), TheFile, o, Full(Path))
    BY <2>1, <2>2, MapIs
  <2>4. Kind = "dds" => Map(Kind) = paths
    BY DEF Map
  <2>5. Grown
    BY <2>3, <2>4, AddedIs DEF Grown
  <2> QED BY <2>2, <2>5
<1>2. CASE PassGroup
  BY <1>2 DEF PassGroup, Grown, Map, Kind, LinkLeft
<1> QED BY <1>1, <1>2

\* No request is there yet.
LEMMA CycleInit == Init => CycleInv
BY TypeInit DEF Init, CycleInv, DasCycle, DdsCycle, DmrCycle, Walking

\* Every step keeps CycleInv.
LEMMA CycleStep == CycleInv /\ [Next]_vars => CycleInv'
<1> SUFFICES ASSUME CycleInv, [Next]_vars PROVE CycleInv'
  OBVIOUS
<1>1. CASE ListDataset
  BY <1>1, MapGrows, CycleAdvanced
<1>2. CASE EnterGroup
  BY <1>2, CycleEntered
<1>3. CASE PassGroup
  BY <1>3, MapGrows, CycleAdvanced
<1>4. CASE LeaveGroup
  BY <1>4, CycleLeft
<1>5. CASE Fail \/ NotOpened \/ Restart
  <2>1. ~Walking'
    BY <1>5 DEF Fail, NotOpened, LinkLeft, Restart, Walking, CycleInv, WalkType, RequestType, Request
  <2>2. WalkType'
    BY TypeStep DEF CycleInv
  <2> QED BY <2>1, <2>2 DEF CycleInv, DasCycle, DdsCycle, DmrCycle
<1>6. ASSUME NEW kind \in Kinds, NEW f \in File, Begin(kind, f) PROVE CycleInv'
  BY <1>6, CycleBegun
<1>7. CASE UNCHANGED vars
  <2>1. WalkType'
    BY TypeStep DEF CycleInv
  <2> QED BY <1>7, <2>1 DEF vars, CycleInv, DasCycle, DdsCycle, DmrCycle, Walking, Kind, TheFile, InMap, Same, RootAt, Map
<1> QED BY <1>1, <1>2, <1>3, <1>4, <1>5, <1>6, <1>7 DEF Next, Walk

\* What CycleInv says of the stack bounds how often it holds one group.
LEMMA CycleEnough == CycleInv => CycleBroken
<1> SUFFICES ASSUME CycleInv, Walking, NEW g \in Object
             PROVE  Cardinality(Inside(g)) <= IF Kind = "das" THEN 1 ELSE 2
  BY DEF CycleBroken
<1>1. Len(stack) \in Nat /\ DOMAIN stack = 1..Len(stack) /\ Kind \in {"das", "dds", "dmr"}
  <2>1. stack \in Seq(Frames(TheFile))
    BY DEF CycleInv, WalkType, StackType
  <2>2. Kind \in {"das", "dds", "dmr"}
    BY RequestIs DEF CycleInv, WalkType
  <2> HIDE DEF Frames
  <2> QED BY <2>1, <2>2
<1>2. Inside(g) = {i \in 1..Len(stack) : stack[i].group = g /\ ~stack[i].abroad}
  BY <1>1 DEF Inside
<1>3. CASE Kind = "das"
  <2>1. \A i, j \in 1..Len(stack) : i < j => ~Same(i, j)
    BY <1>3 DEF CycleInv, DasCycle
  <2>2. \A i, j \in Inside(g) : i = j
    BY <1>1, <1>2, <2>1 DEF Same
  <2> QED BY <1>3, <2>2, AtMostOne
<1>4. CASE Kind = "dds"
  <2>1. \A i, j \in 1..Len(stack) : i < j /\ Same(i, j) => j = Len(stack)
    BY <1>4 DEF CycleInv, DdsCycle
  <2>2. \A i, j \in Inside(g) : i < j => j = Len(stack)
    BY <1>2, <2>1 DEF Same
  <2>3. \A i, j, k \in Inside(g) : i = j \/ j = k \/ i = k
    BY <1>1, <1>2, <2>2
  <2> QED BY <1>4, <2>3, AtMostTwo
<1>5. CASE Kind = "dmr"
  <2>1. \A i, j \in 1..Len(stack) : i < j /\ Same(i, j) =>
          /\ stack[i].group = Root => i = 1
          /\ \E k \in 1..Len(stack) : i < k /\ k <= j /\ RootAt(k)
    BY <1>5 DEF CycleInv, DmrCycle
  <2>2. ASSUME NEW i \in Inside(g), NEW j \in Inside(g), NEW k \in Inside(g), i < j, j < k
        PROVE  FALSE
    <3>1. /\ i \in 1..Len(stack) /\ j \in 1..Len(stack) /\ k \in 1..Len(stack)
          /\ Same(i, j) /\ Same(j, k)
      BY <1>2, <2>2 DEF Same
    <3>2. PICK a \in 1..Len(stack) : i < a /\ a <= j /\ RootAt(a)
      BY <2>1, <2>2, <3>1
    <3>3. PICK b \in 1..Len(stack) : j < b /\ b <= k /\ RootAt(b)
      BY <2>1, <2>2, <3>1
    <3>4. a < b /\ Same(a, b) /\ a # 1
      BY <1>1, <3>1, <3>2, <3>3 DEF Same, RootAt
    <3> QED BY <2>1, <3>2, <3>3, <3>4 DEF RootAt
  <2>3. \A i, j, k \in Inside(g) : i = j \/ j = k \/ i = k
    <3>1. \A i \in Inside(g) : i \in Int
      BY <1>2
    <3> QED BY <2>2, <3>1
  <2> QED BY <1>5, <2>3, AtMostTwo
<1> QED BY <1>1, <1>3, <1>4, <1>5

\* A DAS walk is in no group twice as long as it follows no external link, a DDS or DMR
\* walk at most twice, whatever the links of the file and the maps that earlier requests
\* left.
THEOREM CycleTheorem == Spec => []CycleBroken
<1>1. CycleInv /\ [Next]_vars => CycleInv'
  BY CycleStep
<1> QED BY <1>1, CycleInit, CycleEnough, PTL DEF Spec

------------------------------------------------------------------------------
(***************************************************************************)
(* The first walk of a process: names are paths to their objects.          *)
(***************************************************************************)

WalkInv == WalkType /\ NamesInv

\* What is opened is an object.
LEMMA OpenedIs ==
    ASSUME WalkType, LinkLeft, NEW o \in Opened
    PROVE  o \in Object
<1>1. /\ Walking /\ Top.group \in Object /\ Path \in Seq(Nat)
      /\ RootOf[Top.group] \in Object
  BY LinkIs, ObjectAssumption
<1>2. \A g \in Object \cap DOMAIN TheFile : \A n \in DOMAIN TheFile[g] : TheFile[g][n].to \in Object
  BY <1>1, RequestIs DEF WalkType, Link
<1>3. \A p \in Lookup(TheFile, RootOf[Top.group], Path) : p.object \in Object
  BY <1>1, <1>2, LookupIn
<1> QED BY <1>3 DEF Opened

\* A path from the root group of a file that is apart leads to objects of other files.
LEMMA ForeignStays ==
    ASSUME NEW f \in File, Apart(f), NEW r \in Object, RootOf[r] # Root, NEW path \in Seq(Nat)
    PROVE  \A p \in Lookup(f, r, path) : RootOf[p.object] # Root
<1> DEFINE S == {o \in Object : RootOf[o] # Root}
<1>1. ASSUME NEW g \in S \cap DOMAIN f, NEW n \in DOMAIN f[g] PROVE f[g][n].to \in S
  <2>1. f[g][n].to \in Object
    BY FileAssumption DEF Link
  <2>2. RootOf[f[g][n].to] # Root
    BY <1>1 DEF Apart
  <2> QED BY <2>1, <2>2
<1>2. r \in S /\ \A o \in S : RootOf[o] # Root
  OBVIOUS
<1> HIDE DEF S
<1>3. \A p \in Lookup(f, r, path) : p.object \in S
  BY <1>1, <1>2, LookupIn
<1> QED BY <1>2, <1>3

\* The kinds of the walks that the invariants are about.
LEMMA UndisturbedIs ==
    ASSUME Undisturbed
    PROVE  Kind \in {"das", "dmr"} /\ Kind # "dds" /\ (Kind = "das" => Apart(TheFile))
BY DEF Undisturbed

\* A walk that is abroad comes to objects of other files.
LEMMA AbroadIs ==
    ASSUME WalkInv, Undisturbed, LinkLeft, NEW o \in Opened, Abroad
    PROVE  Kind = "das" /\ RootOf[o] # Root
<1>1. /\ Walking /\ Top.group \in Object /\ Path \in Seq(Nat)
      /\ Top.group \in DOMAIN TheFile /\ Name \in DOMAIN TheFile[Top.group]
      /\ TheLink.type \in Followed /\ TheFile \in File
  BY LinkIs, RequestIs DEF WalkInv, WalkType
<1>2. CASE Top.abroad
  <2>1. Len(stack) \in 1..Len(stack)
    BY <1>1, TopIs DEF WalkInv
  <2>2. Kind = "das" /\ RootOf[Top.group] # Root
    BY <1>2, <2>1 DEF WalkInv, NamesInv, Away, Top
  <2>3. RootOf[Top.group] \in Object /\ RootOf[RootOf[Top.group]] # Root
    BY <1>1, <2>2, ObjectAssumption
  <2>4. \A p \in Lookup(TheFile, RootOf[Top.group], Path) : RootOf[p.object] # Root
    BY <1>1, <2>2, <2>3, ForeignStays, UndisturbedIs
  <2> QED BY <2>2, <2>4 DEF Opened
<1>3. CASE ~Top.abroad
  <2>1. TheLink.type = "external" /\ Kind = "das"
    BY <1>1, <1>3 DEF Abroad, Followed
  <2>2. o = TheLink.to
    BY <1>3, OpenedFromHome DEF WalkInv
  <2>3. RootOf[TheLink.to] # Root
    <3>1. Apart(TheFile)
      BY <2>1, UndisturbedIs
    <3> QED BY <1>1, <2>1, <3>1 DEF Apart, TheLink
  <2> QED BY <2>1, <2>2, <2>3
<1> QED BY <1>2, <1>3

\* The path that the walk comes to an object of the file itself on leads to it.
LEMMA HomePath ==
    ASSUME WalkInv, Undisturbed, LinkLeft, NEW o \in Opened, RootOf[o] = Root
    PROVE  ~Abroad /\ NamesIt(Full(Path), o)
<1>1. ~Abroad
  BY AbroadIs
<1>2. Lookup(TheFile, Root, Path) = Here(o) /\ Path \in Seq(Nat)
  BY <1>1, OpenedAtHome, LinkIs DEF WalkInv
<1> QED BY <1>1, <1>2 DEF NamesIt, Full

\* Where an object of the file itself has the address of one that the walk adds to its
\* map, it is that one.
LEMMA AddressHome ==
    ASSUME WalkInv, Undisturbed, LinkLeft, NEW o \in Opened, Rc(TheFile, o) > 1,
           NEW q, Linked(q, AddressOf[o])
    PROVE  q = o /\ RootOf[o] = Root
<1>1. o \in Object /\ q \in Object /\ RootOf[q] = Root /\ Rc(TheFile, q) > 1
      /\ AddressOf[q] = AddressOf[o]
  BY OpenedIs DEF Linked, WalkInv
<1>2. RootOf[o] = Root
  <2>1. CASE Kind = "das"
    <3>1. Apart(TheFile)
      BY <2>1, UndisturbedIs
    <3> QED BY <1>1, <3>1 DEF Apart
  <2>2. CASE Kind # "das"
    <3>1. ~Abroad
      BY <2>2, AbroadIs
    <3> QED BY <3>1, OpenedAtHome DEF WalkInv
  <2> QED BY <2>1, <2>2
<1> QED BY <1>1, <1>2, ObjectAssumption

\* The names of the map.
MapNames == \A a \in DOMAIN Map(Kind) : \A q : Linked(q, a) => NamesIt(Map(Kind)[a], q)

\* The names of the attributes.
LinkNames == \A h \in hardlinks : RootOf[h.object] = Root => NamesIt(h.name, h.object)

\* The map of a first walk after the walk has added the object that it comes to.
LEMMA NamesAdded ==
    ASSUME WalkInv, Undisturbed, LinkLeft, request' = request, NEW o \in Opened,
           Map(Kind)' = Added(Map(Kind), TheFile, o, Full(Path))
    PROVE  MapNames'
<1>1. TheFile' = TheFile
  BY SameRequest
<1>2. SUFFICES ASSUME NEW a \in DOMAIN Map(Kind)', NEW q, Linked(q, a)
               PROVE NamesIt(Map(Kind)'[a], q)
  BY <1>1 DEF MapNames, NamesIt, Linked
<1>3. CASE a \in DOMAIN Map(Kind)
  <2>1. Map(Kind)'[a] = Map(Kind)[a]
    BY <1>3, AddedIs
  <2> QED BY <1>2, <1>3, <2>1 DEF WalkInv, NamesInv
<1>4. CASE ~(a \in DOMAIN Map(Kind))
  <2>1. a = AddressOf[o]
    BY <1>2, <1>4, AddedIs
  <2>2. Rc(TheFile, o) > 1 /\ Map(Kind)'[a] = Full(Path)
    BY <1>2, <1>4, <2>1, AddedIs
  <2>3. q = o /\ RootOf[o] = Root
    BY <1>2, <2>1, <2>2, AddressHome
  <2>4. NamesIt(Full(Path), o)
    BY <2>3, HomePath
  <2> QED BY <2>2, <2>3, <2>4
<1> QED BY <1>3, <1>4

\* The attributes after the walk has come to an object.
LEMMA NamesMarked ==
    ASSUME WalkInv, Undisturbed, LinkLeft, request' = request, NEW o \in Opened, hardlinks' = Mark(o)
    PROVE  LinkNames'
<1>1. TheFile' = TheFile /\ o \in Object
  BY SameRequest, OpenedIs DEF WalkInv
<1>2. SUFFICES ASSUME NEW h \in Mark(o), RootOf[h.object] = Root PROVE NamesIt(h.name, h.object)
  BY <1>1 DEF LinkNames, NamesIt
<1>3. CASE h \in hardlinks
  BY <1>2, <1>3 DEF WalkInv, NamesInv
<1>4. CASE ~(h \in hardlinks)
  <2>1. /\ AddressOf[o] \in DOMAIN Map(Kind) /\ Rc(TheFile, o) > 1
        /\ h = [object |-> o, name |-> Map(Kind)[AddressOf[o]]]
    BY <1>2, <1>4 DEF Mark, Visited
  <2>2. Linked(o, AddressOf[o])
    BY <1>1, <1>2, <2>1 DEF Linked
  <2> QED BY <2>1, <2>2 DEF WalkInv, NamesInv
<1> QED BY <1>3, <1>4

\* The groups of the stack after it has been advanced.
LEMMA AwayAdvanced ==
    ASSUME WalkInv, Undisturbed, Walking, request' = request, stack' = Advance
    PROVE  \A i \in 1..Len(stack') : Away(i)'
<1>1. Kind' = Kind
  BY SameRequest
<1>2. Len(stack') = Len(stack) /\ \A i \in 1..Len(stack) : Alike(i)
  BY StackAdvanced DEF WalkInv
<1> QED BY <1>1, <1>2 DEF WalkInv, NamesInv, Alike, Away

\* A request does not change but for its status.
LEMMA RequestKept ==
    ASSUME WalkType, Walking,
           \/ request' = request
           \/ request' = [request EXCEPT !.status = "done"]
           \/ request' = [request EXCEPT !.status = "failed"]
    PROVE  Kind' = Kind /\ TheFile' = TheFile /\ (Undisturbed' <=> Undisturbed)
<1>1. request \in Request /\ request # None
  BY DEF WalkType, RequestType, Walking
<1>2. /\ request' \in Request
      /\ request'.kind = request.kind /\ request'.file = request.file
      /\ request'.first = request.first
  BY <1>1 DEF Request
<1>3. request' # None
  BY <1>2, NoneAssumption
<1>4. Kind' = Kind /\ TheFile' = TheFile
  BY <1>2 DEF Kind, TheFile
<1> QED BY <1>1, <1>2, <1>3, <1>4 DEF Undisturbed

\* No request is there yet.
LEMMA NamesInit == Init => NamesInv
BY DEF Init, NamesInv, Undisturbed

\* Every step keeps NamesInv: the map, the hard links and the stack hold paths that
\* lead to their objects.
LEMMA NamesStep == WalkInv /\ [Next]_vars => NamesInv'
<1> DEFINE Goal == MapNames' /\ LinkNames' /\ \A i \in 1..Len(stack') : Away(i)'
<1> SUFFICES ASSUME WalkInv, [Next]_vars, Undisturbed' PROVE Goal
  BY DEF NamesInv, MapNames, LinkNames
<1>0. /\ WalkType
      /\ Undisturbed => MapNames /\ LinkNames /\ \A i \in 1..Len(stack) : Away(i)
  BY DEF WalkInv, NamesInv, MapNames, LinkNames
<1>1. CASE ListDataset
  <2>1. LinkLeft /\ Walking /\ request' = request /\ stack' = Advance
    BY <1>1 DEF ListDataset, LinkLeft
  <2>2. Undisturbed
    BY <1>0, <2>1, RequestKept
  <2>3. PICK o \in Opened :
          /\ hardlinks' = Mark(o)
          /\ SetMap(Kind, IF Kind = "dds" THEN paths ELSE Added(Map(Kind), TheFile, o, Full(Path)))
    BY <1>1 DEF ListDataset
  <2>4. SetMap(Kind, Added(Map(Kind), TheFile, o, Full(Path)))
    BY <2>2, <2>3, UndisturbedIs
  <2>5. Map(Kind)' = Added(Map(Kind), TheFile, o, Full(Path))
    BY <2>1, <2>4, MapIs
  <2> QED BY <2>1, <2>2, <2>3, <2>5, NamesAdded, NamesMarked, AwayAdvanced
<1>2. CASE EnterGroup
  <2>1. PICK o \in Opened :
          /\ IsGroup(o)
          /\ SetMap(Kind, Added(Map(Kind), TheFile, Checked(o), CheckedName))
          /\ stack' = Append(Advance, Frame(o, Path, Abroad))
    BY <1>2 DEF EnterGroup
  <2>2. LinkLeft /\ Walking /\ request' = request /\ hardlinks' = hardlinks
    BY <1>2 DEF EnterGroup, LinkLeft
  <2>3. Undisturbed /\ TheFile' = TheFile /\ Kind' = Kind
    BY <1>0, <2>2, RequestKept
  <2>4. Checked(o) = o /\ CheckedName = Full(Path)
    BY <2>3, UndisturbedIs DEF Checked, CheckedName
  <2>5. Map(Kind)' = Added(Map(Kind), TheFile, o, Full(Path))
    BY <2>1, <2>2, <2>4, MapIs
  <2>6. MapNames'
    BY <2>2, <2>3, <2>5, NamesAdded
  <2>7. LinkNames'
    BY <1>0, <2>2, <2>3 DEF LinkNames, NamesIt
  <2>8. /\ Len(stack) \in Nat \ {0} /\ Len(stack') = Len(stack) + 1
        /\ \A k \in 1..Len(stack) : Alike(k)
        /\ stack'[Len(stack) + 1].group = o /\ stack'[Len(stack) + 1].abroad = Abroad
    BY <1>0, <2>1, <2>2, StackEntered, Zenon
  <2>9. ASSUME NEW i \in 1..Len(stack') PROVE Away(i)'
    <3>1. CASE i = Len(stack) + 1
      <4>1. Abroad => Kind = "das" /\ RootOf[o] # Root
        BY <2>2, <2>3, AbroadIs
      <4> QED BY <2>3, <2>8, <3>1, <4>1 DEF Away
    <3>2. CASE i # Len(stack) + 1
      <4>1. i \in 1..Len(stack)
        BY <2>8, <3>2
      <4> QED BY <1>0, <2>3, <2>8, <4>1 DEF Alike, Away
    <3> QED BY <3>1, <3>2
  <2> QED BY <2>6, <2>7, <2>9
<1>3. CASE PassGroup
  <2>1. LinkLeft /\ Walking /\ request' = request /\ stack' = Advance
    BY <1>3 DEF PassGroup, LinkLeft
  <2>2. Undisturbed /\ TheFile' = TheFile
    BY <1>0, <2>1, RequestKept
  <2>3. PICK o \in Opened : hardlinks' = Mark(o)
    BY <1>3 DEF PassGroup
  <2>4. Map(Kind)' = Map(Kind)
    BY <1>3 DEF PassGroup, Map, Kind
  <2>5. MapNames'
    BY <1>0, <2>2, <2>4 DEF MapNames, NamesIt, Linked
  <2> QED BY <2>1, <2>2, <2>3, <2>5, NamesMarked, AwayAdvanced
<1>4. CASE LeaveGroup \/ Fail \/ NotOpened
  <2>1. /\ Walking
        /\ \/ request' = request
           \/ request' = [request EXCEPT !.status = "done"]
           \/ request' = [request EXCEPT !.status = "failed"]
        /\ paths' = paths /\ obj_paths' = obj_paths /\ hardlinks' = hardlinks
    BY <1>4 DEF LeaveGroup, Fail, NotOpened, LinkLeft
  <2>2. Undisturbed /\ TheFile' = TheFile /\ Kind' = Kind
    BY <1>0, <2>1, RequestKept
  <2>3. Map(Kind)' = Map(Kind)
    BY <2>1, <2>2 DEF Map
  <2>4. MapNames' /\ LinkNames'
    BY <1>0, <2>1, <2>2, <2>3 DEF MapNames, LinkNames, NamesIt, Linked
  <2>5. \A i \in 1..Len(stack') : Away(i)'
    <3>1. CASE LeaveGroup
      <4>1. /\ Len(stack) \in Nat \ {0} /\ Len(stack') = Len(stack) - 1
            /\ \A i \in 1..Len(stack') : stack'[i] = stack[i]
        BY <1>0, <2>1, <3>1, StackLeft DEF LeaveGroup
      <4> QED BY <1>0, <2>2, <4>1 DEF Away
    <3>2. CASE Fail \/ NotOpened
      BY <3>2 DEF Fail, NotOpened
    <3> QED BY <1>4, <3>1, <3>2
  <2> QED BY <2>4, <2>5
<1>5. CASE Restart
  BY <1>5 DEF Restart, Undisturbed
<1>6. ASSUME NEW kind \in Kinds, NEW f \in File, Begin(kind, f) PROVE Goal
  <2>1. /\ Kind' = kind /\ TheFile' = f
        /\ Len(stack') = 1 /\ ~stack'[1].abroad
    BY <1>6, TypeBegun
  <2>2. Lookup(f, Root, <<>>) = Here(Root) /\ <<>> \in Seq(Nat)
    BY LookupStep
  <2>3. Map(kind) = <<>> /\ kind # "dds"
    <3>1. request'.first /\ kind # "dds"
      BY <2>1 DEF Undisturbed
    <3>2. request' = [kind |-> kind, file |-> f, status |-> "walking", first |-> Map(kind) = <<>>]
      BY <1>6 DEF Begin
    <3> QED BY <3>1, <3>2
  <2>4. DOMAIN Map(kind) = {}
    BY <2>3
  <2>5. Map(Kind)' = IF kind = "das" THEN Added(Map(kind), f, Root, Full(<<>>)) ELSE Map(kind)
    BY <1>6, <2>1 DEF Begin, SetMap, Map
  <2>6. \A i \in 1..Len(stack') : Away(i)'
    <3>1. \A i \in 1..Len(stack') : i = 1
      BY <2>1
    <3> QED BY <2>1, <3>1 DEF Away
  <2>7. LinkNames'
    BY <1>6 DEF Begin, LinkNames
  <2>8. NamesIt(Full(<<>>), Root)'
    BY <2>1, <2>2 DEF NamesIt, Full
  <2>9. ASSUME NEW a \in DOMAIN Map(Kind)', NEW q, Linked(q, a)' PROVE NamesIt(Map(Kind)[a], q)'
    <3>1. a = AddressOf[Root] /\ Map(Kind)'[a] = Full(<<>>)
      BY <2>3, <2>4, <2>5, <2>9, AddedIs
    <3>2. q = Root
      BY <2>9, <3>1, ObjectAssumption DEF Linked
    <3> QED BY <2>8, <3>1, <3>2
  <2>10. MapNames'
    BY <2>9 DEF MapNames
  <2> QED BY <2>6, <2>7, <2>10
<1>7. CASE UNCHANGED vars
  <2>1. /\ Kind' = Kind /\ TheFile' = TheFile /\ Map(Kind)' = Map(Kind)
        /\ stack' = stack /\ hardlinks' = hardlinks /\ request' = request
    BY <1>7 DEF vars, Map, Kind, TheFile
  <2>2. Undisturbed
    BY <2>1 DEF Undisturbed
  <2> QED BY <1>0, <2>1, <2>2 DEF MapNames, LinkNames, NamesIt, Linked, Away
<1> QED BY <1>1, <1>2, <1>3, <1>4, <1>5, <1>6, <1>7 DEF Next, Walk

\* In the first walk of a process, for a DAS or a DMR, the value of an HDF5_HARDLINK
\* attribute of an object of the file itself is a path that leads to the object, when
\* the files that a DAS follows external links to are apart.
THEOREM HardlinkTheorem == Spec => []HardlinkNamesObject
<1>1. Init => WalkInv
  BY TypeInit, NamesInit DEF WalkInv
<1>2. WalkInv /\ [Next]_vars => WalkInv'
  BY TypeStep, NamesStep DEF WalkInv
<1>3. WalkInv => HardlinkNamesObject
  <2> SUFFICES ASSUME WalkInv, Undisturbed, NEW h \in hardlinks, RootOf[h.object] = Root
               PROVE  LeadsToObject(h)
    BY DEF HardlinkNamesObject
  <2>1. h.name.absolute /\ Lookup(TheFile, Root, h.name.path) = Here(h.object)
    BY DEF WalkInv, NamesInv, NamesIt
  <2>2. [object |-> h.object, crossed |-> 0] \in Here(h.object)
    BY DEF Here
  <2> QED BY <2>1, <2>2 DEF LeadsToObject
<1> QED BY <1>1, <1>2, <1>3, PTL DEF Spec

------------------------------------------------------------------------------
(***************************************************************************)
(* The first walk of a process: nothing is left out.                       *)
(***************************************************************************)

ListInv == WalkInv /\ ListedInv

Listing == Undisturbed /\ Walking

\* The parts of ListedInv, in a walk.
MapListed  == \A a \in DOMAIN Map(Kind) : \A q : Linked(q, a) => q \in listed
HomeBelow  == \A g \in HomeListed \cap DOMAIN TheFile : AllBelow(g) \/ InWalk(g)
HomePassed == \A i \in 1..Len(stack) : ~stack[i].abroad => PassedListed(i)

LEMMA ListingIs ==
    ASSUME ListInv, Listing
    PROVE  /\ WalkInv /\ WalkType /\ Walking /\ Undisturbed
           /\ Root \in listed /\ MapListed /\ HomeBelow /\ HomePassed
BY DEF ListInv, WalkInv, ListedInv, Listing, Walking, MapListed, HomeBelow, HomePassed

\* The links of the stack's groups after a step that takes one link of the innermost
\* group and lists the object that it leads to.
LEMMA PassedAdvanced ==
    ASSUME ListInv, Listing, LinkLeft, request' = request, listed \subseteq listed',
           ~Top.abroad => TheLink.to \in listed',
           \A i \in 1..Len(stack) : Alike(i),
           \A i \in 1..Len(stack) : i # Len(stack) => stack'[i].next = stack[i].next,
           stack'[Len(stack)].next = Top.next + 1,
           NEW i \in 1..Len(stack), ~stack'[i].abroad
    PROVE  PassedListed(i)'
<1> DEFINE g == stack[i].group
<1>1. TheFile' = TheFile /\ \A h : Order(h)' = Order(h)
  BY DEF TheFile, Order, IsGroup, Kind, Followed
<1>2. stack'[i].group = g /\ ~stack[i].abroad
  BY DEF Alike
<1>3. PassedListed(i)
  BY <1>2, ListingIs DEF HomePassed
<1>4. SUFFICES ASSUME NEW n \in 1..Len(Order(g)), n < stack'[i].next,
                      TheFile[g][Order(g)[n]].type = "hard"
               PROVE  TheFile[g][Order(g)[n]].to \in listed'
  BY <1>1, <1>2 DEF PassedListed, Passed
<1>5. CASE i # Len(stack) \/ n < stack[i].next
  BY <1>3, <1>4, <1>5 DEF PassedListed, Passed
<1>6. CASE i = Len(stack) /\ ~(n < stack[i].next)
  <2>1. Top.next \in Nat
    BY TopIs, ListingIs DEF Frames
  <2>2. n = Top.next /\ g = Top.group /\ ~Top.abroad
    BY <1>2, <1>4, <1>6, <2>1 DEF Top
  <2> QED BY <2>2 DEF TheLink, Name
<1> QED BY <1>5, <1>6

\* Objects stay listed.
LEMMA BelowGrows ==
    ASSUME TheFile' = TheFile, listed \subseteq listed', NEW g, AllBelow(g)
    PROVE  AllBelow(g)'
BY DEF AllBelow

\* The map after the walk has come to an object and listed it.
LEMMA MapListedAdded ==
    ASSUME ListInv, Listing, LinkLeft, request' = request, NEW o \in Opened,
           listed \subseteq listed', o \in listed',
           \/ Map(Kind)' = Map(Kind)
           \/ Map(Kind)' = Added(Map(Kind), TheFile, o, Full(Path))
    PROVE  MapListed'
<1>1. TheFile' = TheFile
  BY SameRequest
<1>2. SUFFICES ASSUME NEW a \in DOMAIN Map(Kind)', NEW q, Linked(q, a) PROVE q \in listed'
  BY <1>1 DEF MapListed, Linked
<1>3. CASE a \in DOMAIN Map(Kind)
  BY <1>2, <1>3, ListingIs DEF MapListed
<1>4. CASE ~(a \in DOMAIN Map(Kind))
  <2>1. Map(Kind)' = Added(Map(Kind), TheFile, o, Full(Path))
    BY <1>2, <1>4
  <2>2. a = AddressOf[o] /\ Rc(TheFile, o) > 1
    BY <1>2, <1>4, <2>1, AddedIs
  <2>3. q = o
    BY <1>2, <2>2, AddressHome, ListingIs
  <2> QED BY <2>3
<1> QED BY <1>3, <1>4

\* A link to an object that is listed keeps ListedInv.
LEMMA ListedAdvanced ==
    ASSUME ListInv, Listing, LinkLeft, request' = request, stack' = Advance, NEW o \in Opened,
           listed \subseteq listed', listed' \subseteq listed \cup {o}, o \in listed',
           IsGroup(o) /\ RootOf[o] = Root => o \in listed,
           \/ Map(Kind)' = Map(Kind)
           \/ Map(Kind)' = Added(Map(Kind), TheFile, o, Full(Path))
    PROVE  ListedInv'
<1>1. TheFile' = TheFile
  BY SameRequest
<1>2. WalkType /\ Walking /\ Root \in listed /\ HomeBelow
  BY ListingIs
<1>3. /\ Len(stack') = Len(stack)
      /\ \A i \in 1..Len(stack) : Alike(i)
      /\ \A i \in 1..Len(stack) : i # Len(stack) => stack'[i].next = stack[i].next
      /\ stack'[Len(stack)].next = Top.next + 1
  BY <1>2, StackAdvanced
<1>4. ~Top.abroad => TheLink.to \in listed'
  BY <1>2, OpenedFromHome
<1>5. HomePassed'
  BY <1>3, <1>4, PassedAdvanced DEF HomePassed
<1>6. ASSUME NEW g \in HomeListed' \cap DOMAIN TheFile PROVE AllBelow(g)' \/ InWalk(g)'
  <2>1. g \in HomeListed
    BY <1>6 DEF IsGroup, HomeListed
  <2>2. CASE AllBelow(g)
    BY <1>1, <2>2, BelowGrows
  <2>3. CASE InWalk(g)
    <3>1. PICK i \in 1..Len(stack) : ~stack[i].abroad /\ stack[i].group = g
      BY <2>3 DEF InWalk
    <3>2. i \in 1..Len(stack') /\ ~stack'[i].abroad /\ stack'[i].group = g
      BY <1>3, <3>1 DEF Alike
    <3> QED BY <3>2 DEF InWalk
  <2> QED BY <1>2, <1>6, <2>1, <2>2, <2>3 DEF HomeBelow
<1>7. MapListed'
  BY MapListedAdded
<1>8. HomeBelow'
  BY <1>1, <1>6 DEF HomeBelow
<1>9. Root \in listed'
  BY <1>2
<1> QED BY <1>5, <1>7, <1>8, <1>9 DEF ListedInv, MapListed, HomeBelow, HomePassed

\* Entering a group keeps ListedInv: it is listed, and in the walk until it is left.
LEMMA ListedEntered ==
    ASSUME ListInv, Listing, EnterGroup
    PROVE  ListedInv'
<1>1. /\ WalkInv /\ WalkType /\ Walking /\ Undisturbed /\ Kind # "dds"
      /\ Root \in listed /\ HomeBelow
  BY ListingIs, UndisturbedIs
<1>2. PICK o \in Opened :
        /\ IsGroup(o)
        /\ SetMap(Kind, Added(Map(Kind), TheFile, Checked(o), CheckedName))
        /\ stack' = Append(Advance, Frame(o, Path, Abroad))
        /\ listed' = listed \cup {o}
  BY <1>1 DEF EnterGroup
<1>3. LinkLeft /\ request' = request /\ TheFile' = TheFile
  BY SameRequest DEF EnterGroup
<1>4. Map(Kind)' = Added(Map(Kind), TheFile, o, Full(Path))
  <2>1. Checked(o) = o /\ CheckedName = Full(Path)
    BY <1>1 DEF Checked, CheckedName
  <2> QED BY <1>2, <1>3, <2>1, MapIs
<1>5. /\ Len(stack) \in Nat \ {0} /\ Len(stack') = Len(stack) + 1
      /\ \A i \in 1..Len(stack) : Alike(i)
      /\ \A i \in 1..Len(stack) : i # Len(stack) => stack'[i].next = stack[i].next
      /\ stack'[Len(stack)].next = Top.next + 1
      /\ stack'[Len(stack) + 1].group = o
      /\ stack'[Len(stack) + 1].abroad = Abroad
      /\ stack'[Len(stack) + 1].next = 1
  BY <1>1, <1>2, <1>3, StackEntered, Zenon
<1>6. listed \subseteq listed' /\ o \in listed' /\ Root \in listed'
  BY <1>1, <1>2
<1>7. ASSUME NEW i \in 1..Len(stack'), ~stack'[i].abroad PROVE PassedListed(i)'
  <2>1. CASE i = Len(stack) + 1
    <3>1. stack'[i].next = 1
      BY <1>5, <2>1
    <3> QED BY <3>1 DEF PassedListed
  <2>2. CASE i # Len(stack) + 1
    <3>1. i \in 1..Len(stack)
      BY <1>5, <2>2
    <3>2. ~Top.abroad => TheLink.to \in listed'
      BY <1>1, <1>3, <1>6, OpenedFromHome
    <3> QED BY <1>3, <1>5, <1>6, <1>7, <3>1, <3>2, PassedAdvanced
  <2> QED BY <2>1, <2>2
<1>8. ASSUME NEW g \in HomeListed' \cap DOMAIN TheFile PROVE AllBelow(g)' \/ InWalk(g)'
  <2>1. CASE g = o
    <3>1. ~Abroad
      BY <1>1, <1>3, <1>8, <2>1, AbroadIs DEF HomeListed
    <3>2. /\ Len(stack) + 1 \in 1..Len(stack')
          /\ stack'[Len(stack) + 1].group = g /\ ~stack'[Len(stack) + 1].abroad
      BY <1>5, <2>1, <3>1
    <3> QED BY <3>2 DEF InWalk
  <2>2. CASE AllBelow(g)
    BY <1>3, <1>6, <2>2, BelowGrows
  <2>3. CASE InWalk(g)
    <3>1. PICK i \in 1..Len(stack) : ~stack[i].abroad /\ stack[i].group = g
      BY <2>3 DEF InWalk
    <3>2. i \in 1..Len(stack') /\ ~stack'[i].abroad /\ stack'[i].group = g
      BY <1>5, <3>1 DEF Alike
    <3> QED BY <3>2 DEF InWalk
  <2>4. g # o => g \in HomeListed
    BY <1>2, <1>8 DEF HomeListed
  <2> QED BY <1>1, <1>8, <2>1, <2>2, <2>3, <2>4 DEF HomeBelow
<1>9. MapListed'
  BY <1>3, <1>4, <1>6, MapListedAdded
<1>10. HomePassed' /\ HomeBelow'
  BY <1>3, <1>7, <1>8 DEF HomePassed, HomeBelow
<1> QED BY <1>6, <1>9, <1>10 DEF ListedInv, MapListed, HomeBelow, HomePassed

\* The walk leaves a group when it has listed all that the group's hard links lead to.
LEMMA TopBelow ==
    ASSUME ListInv, Listing, ~LinkLeft, ~Top.abroad
    PROVE  AllBelow(Top.group)
<1> DEFINE g == Top.group
<1>0. WalkType /\ Walking /\ HomePassed
  BY ListingIs
<1>1. Len(stack) \in 1..Len(stack) /\ Top \in Frames(TheFile)
  BY <1>0, TopIs
<1>2. Top.next \in Nat /\ g \in DOMAIN TheFile
  BY <1>1 DEF Frames
<1>3. AllOf(Order(g), FollowedIn(g))
  BY <1>0, <1>2, OrderOfGroup DEF WalkType
<1>4. Len(Order(g)) \in Nat
  BY <1>3 DEF AllOf
<1>5. Top.next > Len(Order(g))
  BY <1>0, <1>2, <1>4 DEF LinkLeft
<1>6. PassedListed(Len(stack))
  BY <1>0, <1>1 DEF HomePassed, Top
<1>7. ASSUME NEW n \in DOMAIN TheFile[g], TheFile[g][n].type = "hard"
      PROVE TheFile[g][n].to \in listed
  <2>1. n \in FollowedIn(g)
    BY <1>7 DEF FollowedIn, Followed
  <2>2. PICK k \in 1..Len(Order(g)) : Order(g)[k] = n
    BY <1>3, <2>1 DEF AllOf
  <2>3. k < Top.next
    BY <1>2, <1>4, <1>5, <2>2
  <2> QED BY <1>6, <1>7, <2>2, <2>3 DEF PassedListed, Passed, Top
<1> QED BY <1>7 DEF AllBelow

\* Leaving a group keeps ListedInv: all of its links have been passed.
LEMMA ListedLeft ==
    ASSUME ListInv, Listing, LeaveGroup
    PROVE  ListedInv'
<1>1. /\ WalkType /\ Walking /\ Root \in listed /\ MapListed /\ HomeBelow /\ HomePassed
      /\ ~LinkLeft /\ listed' = listed
      /\ stack' = SubSeq(stack, 1, Len(stack) - 1)
  BY ListingIs DEF LeaveGroup
<1>2. Kind' = Kind /\ TheFile' = TheFile
  BY <1>1, RequestKept DEF LeaveGroup
<1>3. Map(Kind)' = Map(Kind) /\ \A g : Order(g)' = Order(g)
  BY <1>2 DEF LeaveGroup, Map, Order, IsGroup, Followed
<1>4. /\ Len(stack) \in Nat \ {0} /\ Len(stack') = Len(stack) - 1
      /\ \A i \in 1..Len(stack') : stack'[i] = stack[i]
  BY <1>1, StackLeft
<1>5. ASSUME NEW i \in 1..Len(stack'), ~stack'[i].abroad PROVE PassedListed(i)'
  <2>1. i \in 1..Len(stack) /\ stack'[i] = stack[i]
    BY <1>4
  <2>2. PassedListed(i)
    BY <1>1, <1>5, <2>1 DEF HomePassed
  <2> QED BY <1>1, <1>2, <1>3, <2>1, <2>2 DEF PassedListed, Passed
<1>6. ASSUME NEW g \in HomeListed \cap DOMAIN TheFile PROVE AllBelow(g)' \/ InWalk(g)'
  <2>1. CASE AllBelow(g)
    BY <1>1, <1>2, <2>1 DEF AllBelow
  <2>2. CASE ~AllBelow(g)
    <3>1. PICK i \in 1..Len(stack) : ~stack[i].abroad /\ stack[i].group = g
      BY <1>1, <1>6, <2>2 DEF InWalk, HomeBelow
    <3>2. i # Len(stack)
      BY <1>1, <2>2, <3>1, TopBelow DEF Top
    <3>3. i \in 1..Len(stack') /\ ~stack'[i].abroad /\ stack'[i].group = g
      BY <1>4, <3>1, <3>2
    <3> QED BY <3>3 DEF InWalk
  <2> QED BY <2>1, <2>2
<1>7. MapListed'
  BY <1>1, <1>2, <1>3 DEF MapListed, Linked
<1>8. HomePassed' /\ HomeBelow' /\ Root \in listed'
  BY <1>1, <1>2, <1>5, <1>6 DEF HomePassed, HomeBelow, HomeListed
<1> QED BY <1>7, <1>8 DEF ListedInv, MapListed, HomeBelow, HomePassed

\* A first walk begins with the root group listed, and in the walk.
LEMMA ListedBegun ==
    ASSUME NEW kind \in Kinds, NEW f \in File, Begin(kind, f)
    PROVE  ListedInv'
<1> SUFFICES ASSUME Undisturbed' PROVE ListedInv'
  BY DEF ListedInv
<1>1. /\ Kind' = kind /\ TheFile' = f
      /\ Len(stack') = 1 /\ stack'[1].group = Root /\ stack'[1].next = 1 /\ ~stack'[1].abroad
  BY TypeBegun
<1>2. Map(kind) = <<>> /\ kind # "dds"
  <2>1. request'.first /\ kind # "dds"
    BY <1>1 DEF Undisturbed
  <2>2. request' = [kind |-> kind, file |-> f, status |-> "walking", first |-> Map(kind) = <<>>]
    BY DEF Begin
  <2> QED BY <2>1, <2>2
<1>3. listed' = {Root}
  BY <1>2 DEF Begin
<1>4. DOMAIN Map(kind) = {}
  BY <1>2
<1>5. Map(Kind)' = IF kind = "das" THEN Added(Map(kind), f, Root, Full(<<>>)) ELSE Map(kind)
  BY <1>1 DEF Begin, SetMap, Map
<1>6. DOMAIN Map(Kind)' \subseteq {AddressOf[Root]}
  BY <1>4, <1>5, AddedIs
<1>7. MapListed'
  <2>1. ASSUME NEW a \in DOMAIN Map(Kind)', NEW q, Linked(q, a)' PROVE q = Root
    BY <1>6, <2>1, ObjectAssumption DEF Linked
  <2> QED BY <1>3, <2>1 DEF MapListed
<1>8. ASSUME NEW i \in 1..Len(stack') PROVE PassedListed(i)'
  <2>1. stack'[i].next = 1
    BY <1>1
  <2> QED BY <2>1 DEF PassedListed
<1>9. InWalk(Root)'
  BY <1>1 DEF InWalk
<1>10. HomePassed' /\ HomeBelow' /\ Root \in listed'
  BY <1>3, <1>8, <1>9 DEF HomePassed, HomeBelow, HomeListed
<1> QED BY <1>7, <1>10 DEF ListedInv, MapListed, HomeBelow, HomePassed

\* No request is there yet.
LEMMA ListedInit == Init => ListedInv
BY DEF Init, ListedInv, Undisturbed

\* Every step keeps ListedInv.
LEMMA ListedStep == ListInv /\ [Next]_vars => ListedInv'
<1> SUFFICES ASSUME ListInv, [Next]_vars PROVE ListedInv'
  OBVIOUS
<1>0. WalkType
  BY DEF ListInv, WalkInv
<1>1. CASE ListDataset
  <2>1. LinkLeft /\ Walking /\ request' = request /\ stack' = Advance
    BY <1>1 DEF ListDataset, LinkLeft
  <2>2. SUFFICES ASSUME Undisturbed PROVE ListedInv'
    BY <1>0, <2>1, RequestKept DEF ListedInv
  <2>3. PICK o \in Opened :
          /\ ~IsGroup(o) /\ listed' = listed \cup {o}
          /\ SetMap(Kind, IF Kind = "dds" THEN paths ELSE Added(Map(Kind), TheFile, o, Full(Path)))
    BY <1>1 DEF ListDataset
  <2>4. SetMap(Kind, Added(Map(Kind), TheFile, o, Full(Path)))
    BY <2>2, <2>3, UndisturbedIs
  <2>5. Map(Kind)' = Added(Map(Kind), TheFile, o, Full(Path))
    BY <2>1, <2>4, MapIs
  <2>6. listed \subseteq listed' /\ listed' \subseteq listed \cup {o} /\ o \in listed'
    BY <2>3
  <2> QED BY <2>1, <2>2, <2>3, <2>5, <2>6, ListedAdvanced DEF Listing
<1>2. CASE EnterGroup
  <2>1. Walking /\ request' = request
    BY <1>2 DEF EnterGroup, LinkLeft
  <2>2. SUFFICES ASSUME Undisturbed PROVE ListedInv'
    BY <1>0, <2>1, RequestKept DEF ListedInv
  <2> QED BY <1>2, <2>1, <2>2, ListedEntered DEF Listing
<1>3. CASE PassGroup
  <2>1. LinkLeft /\ Walking /\ request' = request /\ stack' = Advance
    BY <1>3 DEF PassGroup, LinkLeft
  <2>2. SUFFICES ASSUME Undisturbed PROVE ListedInv'
    BY <1>0, <2>1, RequestKept DEF ListedInv
  <2>3. Listing /\ WalkInv /\ MapListed /\ Kind \in {"das", "dmr"} /\ Kind # "dds"
    BY <2>1, <2>2, ListingIs, UndisturbedIs DEF Listing
  <2>4. PICK o \in Opened :
          /\ IsGroup(o) /\ Visited(Map(Kind), TheFile, Checked(o))
          /\ listed' = IF Kind = "das" THEN listed \cup {o} ELSE listed
    BY <1>3 DEF PassGroup
  <2>5. Map(Kind)' = Map(Kind)
    BY <1>3 DEF PassGroup, Map, Kind
  <2>6. o \in Object /\ Rc(TheFile, o) > 1 /\ AddressOf[o] \in DOMAIN Map(Kind)
    BY <1>0, <2>1, <2>3, <2>4, OpenedIs DEF Checked, Visited
  <2>7. RootOf[o] = Root => o \in listed
    BY <2>3, <2>6 DEF MapListed, Linked
  <2>8. Kind = "dmr" => RootOf[o] = Root
    <3>1. Kind = "dmr" => ~Abroad
      BY <2>1, <2>2, <2>3, AbroadIs
    <3> QED BY <1>0, <2>1, <3>1, OpenedAtHome
  <2>9. listed \subseteq listed' /\ listed' \subseteq listed \cup {o} /\ o \in listed'
    BY <2>3, <2>4, <2>7, <2>8
  <2> QED BY <2>1, <2>3, <2>5, <2>7, <2>9, ListedAdvanced
<1>4. CASE LeaveGroup
  <2>1. Walking
    BY <1>4 DEF LeaveGroup
  <2>2. SUFFICES ASSUME Undisturbed PROVE ListedInv'
    BY <1>0, <1>4, <2>1, RequestKept DEF ListedInv, LeaveGroup
  <2> QED BY <1>4, <2>1, <2>2, ListedLeft DEF Listing
<1>5. CASE Fail \/ NotOpened
  <2>1. request \in Request /\ request' = [request EXCEPT !.status = "failed"]
    BY <1>0, <1>5 DEF Fail, NotOpened, LinkLeft, Walking, WalkType, RequestType
  <2>2. request'.status = "failed"
    BY <2>1 DEF Request
  <2> QED BY <2>2 DEF ListedInv
<1>6. CASE Restart
  BY <1>6 DEF Restart, ListedInv, Undisturbed
<1>7. ASSUME NEW kind \in Kinds, NEW f \in File, Begin(kind, f) PROVE ListedInv'
  BY <1>7, ListedBegun
<1>8. CASE UNCHANGED vars
  <2>1. Map(Kind)' = Map(Kind) /\ TheFile' = TheFile /\ (Undisturbed' <=> Undisturbed)
    BY <1>8 DEF vars, Map, Kind, TheFile, Undisturbed
  <2>2. \A g : Order(g)' = Order(g)
    BY <1>8 DEF vars, Order, IsGroup, Kind, TheFile, Followed
  <2>3. stack' = stack /\ listed' = listed /\ request' = request
    BY <1>8 DEF vars
  <2>4. ListedInv' <=> ListedInv
    BY <2>1, <2>2, <2>3 DEF ListedInv, AllBelow, InWalk, PassedListed, Passed, HomeListed, Linked
  <2> QED BY <2>4 DEF ListInv
<1> QED BY <1>1, <1>2, <1>3, <1>4, <1>5, <1>6, <1>7, <1>8 DEF Next, Walk

\* At the end no group is in the walk, so the listed objects of the file itself are
\* closed under its hard links and hold the root group.
LEMMA ListedEnough == ListInv => FirstWalkIsComplete
<1> SUFFICES ASSUME ListInv, Undisturbed, request.status = "done"
             PROVE  AllListed
  BY DEF FirstWalkIsComplete
<1>0. Kind # "dds" /\ request # None /\ WalkType
  BY UndisturbedIs DEF Undisturbed, ListInv, WalkInv
<1>1. TheFile \in File /\ stack = <<>>
  BY <1>0 DEF WalkType, RequestType, StackType, Request, TheFile, Walking
<1>2. Root \in listed /\ \A g \in HomeListed \cap DOMAIN TheFile : AllBelow(g) \/ InWalk(g)
  BY DEF ListInv, ListedInv
<1>3. \A g : ~InWalk(g)
  <2>1. Len(stack) = 0
    BY <1>1
  <2> QED BY <2>1 DEF InWalk
<1>4. ASSUME NEW g \in HomeListed \cap DOMAIN TheFile, NEW n \in DOMAIN TheFile[g],
             TheFile[g][n].type = "hard"
      PROVE  TheFile[g][n].to \in HomeListed
  <2>1. TheFile[g][n].to \in listed
    BY <1>2, <1>3, <1>4, Zenon DEF AllBelow
  <2>2. RootOf[TheFile[g][n].to] = RootOf[g] /\ RootOf[g] = Root
    BY <1>1, <1>4, FileAssumption DEF HomeListed
  <2> QED BY <2>1, <2>2 DEF HomeListed
<1>5. Root \in HomeListed /\ HomeListed \subseteq listed
  BY <1>2, ObjectAssumption DEF HomeListed
<1>6. Reachable(TheFile) \subseteq HomeListed
  BY <1>1, <1>4, <1>5, ReachableIn, Zenon
<1> QED BY <1>0, <1>5, <1>6 DEF AllListed

\* The first DAS or DMR walk of a process lists every object of the file itself, whatever
\* its hard links, when the files that a DAS follows external links to are apart.
THEOREM CompleteTheorem == Spec => []FirstWalkIsComplete
<1>1. Init => ListInv
  BY TypeInit, NamesInit, ListedInit DEF ListInv, WalkInv
<1>2. ListInv /\ [Next]_vars => ListInv'
  BY TypeStep, NamesStep, ListedStep DEF ListInv, WalkInv
<1> QED BY <1>1, <1>2, ListedEnough, PTL DEF Spec
==============================================================================
