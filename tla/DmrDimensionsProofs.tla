------------------------- MODULE DmrDimensionsProofs -------------------------
(***************************************************************************)
(* Proofs about DmrDimensions, for any files.                              *)
(***************************************************************************)
EXTENDS DmrDimensions, ProofLemmas

\* The last request.
RequestType ==
    request # None =>
      request \in [file : File, next : Nat \ {0}, status : {"walking", "done", "failed"}, clean : BOOLEAN]

CleanInv == RequestType /\ CleanAfterSuccess

\* The link a handler looks at is one of its file, and leads to a dataset of it.
LEMMA LinkType ==
    ASSUME RequestType, LinkLeft
    PROVE  /\ request.file \in File
           /\ Link \in [group : request.file.groups, name : STRING, to : DOMAIN request.file.data]
           /\ Data \in Dataset(DOMAIN request.file.data)
           /\ Data.listed = <<>> \/ Len(Data.listed) = Data.rank
<1> DEFINE Rec == [group : request.file.groups, name : STRING, to : DOMAIN request.file.data]
<1>1. request.file \in File /\ request.next \in Nat \ {0} /\ request.next <= Len(request.file.links)
  BY DEF RequestType, LinkLeft, Walking
<1>2. request.file.links \in Seq(Rec)
  BY <1>1, FileAssumption
<1>3. Link \in Rec
  <2> HIDE DEF Rec
  <2> QED BY <1>1, <1>2, SeqElement DEF Link
<1>4. Data \in Dataset(DOMAIN request.file.data)
  <2>1. request.file.data \in [DOMAIN request.file.data -> Dataset(DOMAIN request.file.data)]
    BY <1>1, FileAssumption
  <2>2. Link.to \in DOMAIN request.file.data
    BY <1>3
  <2> QED BY <2>1, <2>2 DEF Data
<1>5. Data.listed = <<>> \/ Len(Data.listed) = Data.rank
  BY <1>1, <1>3, FileAssumption DEF Data
<1> QED BY <1>1, <1>3, <1>4, <1>5

\* A dataset whose dimensions could all be had adds none of them to dt_inst, or as
\* many as it has.
LEMMA PushedLength ==
    ASSUME RequestType, LinkLeft, AllObtained(request.file, Link)
    PROVE  \/ Pushed(request.file, Link) = <<>>
           \/ /\ Len(Pushed(request.file, Link)) = Data.rank
              /\ DOMAIN Pushed(request.file, Link) = 1..Data.rank
<1>1. Data \in Dataset(DOMAIN request.file.data) /\ (Data.listed = <<>> \/ Len(Data.listed) = Data.rank) 
  BY LinkType, Zenon
<1> DEFINE f == request.file
           good == {n \in 0..Len(Data.listed) : \A k \in 1..n : Obtainable(f, Data.listed[k])}
<1>2. Data = f.data[Link.to]
  BY DEF Data
<1>3. CASE ~check_dimscale(f) \/ IsPureDim(Data)
  <2>1. Pushed(f, Link) = <<>>
    BY <1>2, <1>3 DEF Pushed
  <2> QED BY <2>1
<1>4. CASE check_dimscale(f) /\ ~IsPureDim(Data) /\ IsDimscale(Data)
  <2>1. Pushed(f, Link) = <<Path(Link)>>
    BY <1>2, <1>4 DEF Pushed
  <2>2. Data.rank = 1
    BY <1>4 DEF IsDimscale
  <2> QED BY <2>1, <2>2
<1>5. CASE check_dimscale(f) /\ ~IsPureDim(Data) /\ ~IsDimscale(Data)
  <2>1. Pushed(f, Link) = [k \in good \ {0} |-> DimensionPath(f, Data.listed[k])]
    BY <1>2, <1>5 DEF Pushed
  <2>2. \A k \in DOMAIN Data.listed : Obtainable(f, Data.listed[k])
    BY <1>2, <1>5 DEF AllObtained
  <2>3. Data.listed \in Seq(DOMAIN f.data \cup {None})
    BY <1>1 DEF Dataset
  <2>4. Len(Data.listed) \in Nat /\ DOMAIN Data.listed = 1..Len(Data.listed)
    BY <2>3
  <2>5. ASSUME NEW n \in 0..Len(Data.listed) PROVE n \in good
    BY <2>2, <2>4
  <2>6. good \ {0} = 1..Len(Data.listed)
    BY <2>4, <2>5
  <2>7. Pushed(f, Link) = [k \in 1..Len(Data.listed) |-> DimensionPath(f, Data.listed[k])]
    BY <2>1, <2>6
  <2>8. Len(Data.listed) = 0 \/ Len(Data.listed) = Data.rank
    BY <1>1
  <2> QED BY <2>4, <2>7, <2>8
<1> QED BY <1>3, <1>4, <1>5

\* Names that were added to an empty dt_inst are gone when the array has been made.
LEMMA LeftNothing ==
    ASSUME RequestType, CanBeMade, dimnames = <<>>
    PROVE  LeftNames(Data.rank) = <<>>
<1>1. LinkLeft /\ AllObtained(request.file, Link)
  BY DEF CanBeMade
<1> DEFINE pushed == Pushed(request.file, Link)
<1>2. \/ pushed = <<>>
      \/ Len(pushed) = Data.rank /\ DOMAIN pushed = 1..Data.rank
  BY <1>1, PushedLength
<1>3. Data.rank \in Nat
  <2>1. Data \in Dataset(DOMAIN request.file.data)
    BY <1>1, LinkType, Zenon
  <2> QED BY <2>1 DEF Dataset
<1>4. Names = <<>> \o LastOf(pushed)
  BY DEF Names
<1>5. CASE pushed = <<>>
  <2> HIDE DEF pushed
  <2>1. LastOf(pushed) = <<>>
    BY <1>5 DEF LastOf
  <2> QED BY <1>4, <2>1 DEF LeftNames
<1>6. CASE Len(pushed) = Data.rank /\ DOMAIN pushed = 1..Data.rank
  <2> HIDE DEF pushed
  <2>1. Len(LastOf(pushed)) = Data.rank
    BY <1>3, <1>6 DEF LastOf
  <2>2. Len(Names) = Data.rank
    BY <1>3, <1>4, <2>1
  <2> QED BY <2>2 DEF LeftNames
<1> QED BY <1>2, <1>5, <1>6

\* No request has left names in dt_inst when the server starts.
LEMMA CleanInit == Init => CleanInv
BY DEF Init, CleanInv, RequestType, CleanAfterSuccess

\* Every step, of a new request as well as of the walk, keeps CleanInv.
LEMMA CleanStep == CleanInv /\ [Next]_vars => CleanInv'
<1> SUFFICES ASSUME CleanInv, [Next]_vars PROVE CleanInv'
  OBVIOUS
<1> USE DEF CleanInv
<1>1. ASSUME NEW f \in File, Request(f) PROVE CleanInv'
  <2>1. request' = [file |-> f, next |-> 1, status |-> "walking",
                    clean |-> dimnames = <<>> /\ dimnames_path = <<>>]
    BY <1>1 DEF Request
  <2>2. dimnames' = dimnames /\ dimnames_path' = dimnames_path
    BY <1>1 DEF Request
  <2>3. request'.clean <=> dimnames = <<>> /\ dimnames_path = <<>>
    BY <2>1
  <2>4. RequestType'
    BY <2>1 DEF RequestType
  <2> QED BY <2>2, <2>3, <2>4 DEF CleanAfterSuccess
<1>2. CASE RefuseType
  BY <1>2 DEF RefuseType, Fail, LinkLeft, Walking, RequestType, CleanAfterSuccess
<1>3. CASE PureDim
  BY <1>3 DEF PureDim, Next1, LinkLeft, Walking, RequestType, CleanAfterSuccess
<1>4. CASE NoVariable
  BY <1>4 DEF NoVariable, Fail, LinkLeft, Walking, RequestType, CleanAfterSuccess
<1>5. CASE Scalar
  BY <1>5 DEF Scalar, CanBeMade, Next1, LinkLeft, Walking, RequestType, CleanAfterSuccess
<1>6. CASE Array
  <2>1. dimnames = <<>> => dimnames' = <<>> /\ dimnames_path' = <<>>
    BY <1>6, LeftNothing DEF Array, LeftPaths
  <2> QED BY <1>6, <2>1 DEF Array, CanBeMade, Next1, LinkLeft, Walking, RequestType, CleanAfterSuccess
<1>7. CASE ArrayThrows
  BY <1>7 DEF ArrayThrows, CanBeMade, Fail, LinkLeft, Walking, RequestType, CleanAfterSuccess
<1>8. CASE ArrayUndefined
  BY <1>8 DEF ArrayUndefined, RequestType, CleanAfterSuccess
<1>9. CASE Respond
  BY <1>9 DEF Respond, Walking, RequestType, CleanAfterSuccess
<1>10. CASE NewProcess
  BY <1>10 DEF NewProcess, RequestType, CleanAfterSuccess
<1>11. CASE UNCHANGED vars
  BY <1>11 DEF vars, RequestType, CleanAfterSuccess
<1> QED BY <1>1, <1>2, <1>3, <1>4, <1>5, <1>6, <1>7, <1>8, <1>9, <1>10, <1>11 DEF Next, Handle

\* A request that found dt_inst empty and has not failed has left it empty: whatever
\* the file, the order of its datasets and the requests before (dt_inst, h5dmr.cc).
THEOREM CleanTheorem == Spec => []CleanAfterSuccess
<1>1. CleanInv => CleanAfterSuccess
  BY DEF CleanInv
<1> QED BY CleanInit, CleanStep, <1>1, PTL DEF Spec

------------------------------------------------------------------------------
\* What the dimensions of a group and the place of a dimension are to be.
DimsType(groups, made) ==
    /\ made \in [groups -> Seq(STRING)]
    /\ \A g \in groups : \A j, k \in 1..Len(made[g]) : made[g][j] = made[g][k] => j = k

Extends(d, e) ==
    \A g \in DOMAIN d : Len(d[g]) <= Len(e[g]) /\ \A k \in 1..Len(d[g]) : e[g][k] = d[g][k]

Denotes(d, at, path) ==
    \E k \in 1..Len(d[Front(path)]) : at = <<Front(path), k>> /\ d[Front(path)][k] = Last(path)

\* A dimension is of the group of the variable, or has been made in its own.
At(groups, made, grp, path) ==
    /\ path \in Seq(STRING) /\ Front(path) \in groups /\ Last(path) \in STRING /\ IsPrefix(Front(path), grp)
    /\ Front(path) = grp \/ \E k \in 1..Len(made[Front(path)]) : made[Front(path)][k] = Last(path)

\* The first place of a name that is in a list is a place of that name.
LEMMA FirstAtIs ==
    ASSUME NEW list \in Seq(STRING), NEW name, NEW n \in 1..Len(list), list[n] = name
    PROVE  FirstAt(list, name) \in 1..Len(list) /\ list[FirstAt(list, name)] = name
<1> DEFINE T == {k \in DOMAIN list : list[k] = name}
<1>1. T \subseteq Nat /\ n \in T
  OBVIOUS
<1>2. \E x \in T : \A y \in T : x <= y
  BY <1>1, MinNat
<1>3. FirstAt(list, name) = CHOOSE x \in T : \A y \in T : x <= y
  BY DEF FirstAt, Min
<1>4. FirstAt(list, name) \in T
  BY <1>2, <1>3
<1> QED BY <1>4

\* Dimensions that are added in two steps are added.
LEMMA ExtendsTrans ==
    ASSUME NEW groups, NEW c, NEW d, NEW e, DimsType(groups, c), DimsType(groups, d), DimsType(groups, e),
           Extends(c, d), Extends(d, e)
    PROVE  Extends(c, e)
BY DEF Extends, DimsType

\* A dimension stays the one of its path when others are made after it.
LEMMA DenotesExtends ==
    ASSUME NEW groups, NEW d, NEW e, DimsType(groups, d), DimsType(groups, e), Extends(d, e),
           NEW path, Front(path) \in groups, NEW at, Denotes(d, at, path)
    PROVE  Denotes(e, at, path)
BY DEF Extends, DimsType, Denotes

\* One dimension of an array: a dimension of its group has its name already, and
\* is taken, or it is made there; nothing else changes.
LEMMA TransformStep ==
    ASSUME NEW groups, groups \subseteq Seq(STRING), NEW made, NEW at, DimsType(groups, made),
           None \notin groups, NEW grp \in groups, NEW path, At(groups, made, grp, path),
           Transform([outcome |-> "ok", dims |-> made, at |-> at], grp, Last(path), path).outcome = "ok"
    PROVE  \E e, x :
             /\ Transform([outcome |-> "ok", dims |-> made, at |-> at], grp, Last(path), path)
                = [outcome |-> "ok", dims |-> e, at |-> Append(at, x)]
             /\ DimsType(groups, e) /\ Extends(made, e) /\ Denotes(e, x, path)
<1> DEFINE so == [outcome |-> "ok", dims |-> made, at |-> at]
           name == Last(path)
           g == FoundIn(made, grp, name, path)
<1>1. path # None /\ Related(grp, path)
  BY DEF Transform
<1>2. CASE g # None
  <2>1. g = Front(path) /\ name \in ToSet(made[Front(path)])
    BY <1>2 DEF FoundIn
  <2>2. PICK n \in DOMAIN made[g] : made[g][n] = name
    BY <2>1 DEF ToSet
  <2>3. made[g] \in Seq(STRING) /\ n \in 1..Len(made[g])
    BY <2>1, <2>2 DEF DimsType, At
  <2>4. FirstAt(made[g], name) \in 1..Len(made[g]) /\ made[g][FirstAt(made[g], name)] = name
    BY <2>2, <2>3, FirstAtIs
  <2> DEFINE x == <<g, FirstAt(made[g], name)>>
  <2>5. Transform(so, grp, name, path) = [outcome |-> "ok", dims |-> made, at |-> Append(at, x)]
    BY <1>1, <1>2 DEF Transform
  <2>6. Denotes(made, x, path)
    BY <2>1, <2>4 DEF Denotes
  <2>7. Extends(made, made)
    BY DEF Extends, DimsType
  <2> QED BY <2>5, <2>6, <2>7
<1>3. CASE g = None
  <2>1. ~(name \in ToSet(made[Front(path)]))
    BY <1>3 DEF FoundIn, At
  <2>2. Front(path) = grp
    <3>1. made[Front(path)] \in Seq(STRING)
      BY DEF DimsType, At
    <3> QED BY <2>1, <3>1 DEF At, ToSet
  <2> DEFINE e == [made EXCEPT ![grp] = Append(@, name)]
             x == <<grp, Len(made[grp]) + 1>>
  <2>3. Transform(so, grp, name, path) = [outcome |-> "ok", dims |-> e, at |-> Append(at, x)]
    BY <1>1, <1>3 DEF Transform
  <2>4. made[grp] \in Seq(STRING) /\ name \in STRING
    BY DEF DimsType, At
  <2>5. e[grp] = Append(made[grp], name) /\ \A h \in groups \ {grp} : e[h] = made[h]
    BY DEF DimsType
  <2>6. e \in [groups -> Seq(STRING)]
    BY <2>4 DEF DimsType
  <2>7. \A k \in 1..Len(made[grp]) : made[grp][k] # name
    BY <2>1, <2>2, <2>4 DEF ToSet
  <2>8. DimsType(groups, e)
    <3>1. SUFFICES ASSUME NEW h \in groups, NEW j \in 1..Len(e[h]), NEW k \in 1..Len(e[h]), e[h][j] = e[h][k]
                   PROVE  j = k
      BY <2>6 DEF DimsType
    <3>2. CASE h # grp
      BY <3>1, <3>2, <2>5 DEF DimsType
    <3>3. CASE h = grp
      BY <3>1, <3>3, <2>4, <2>5, <2>7 DEF DimsType
    <3> QED BY <3>2, <3>3
  <2>9. Extends(made, e)
    BY <2>4, <2>5 DEF Extends, DimsType
  <2>10. Denotes(e, x, path)
    BY <2>2, <2>4, <2>5 DEF Denotes
  <2> QED BY <2>3, <2>8, <2>9, <2>10
<1> QED BY <1>2, <1>3

\* A name that is new in a group.
LEMMA AppendName ==
    ASSUME NEW groups, NEW made, DimsType(groups, made), NEW grp \in groups, NEW name \in STRING,
           \A k \in 1..Len(made[grp]) : made[grp][k] # name
    PROVE  LET e == [made EXCEPT ![grp] = Append(@, name)] IN
           /\ DimsType(groups, e) /\ Extends(made, e)
           /\ e[grp] = Append(made[grp], name)
           /\ Len(e[grp]) = Len(made[grp]) + 1 /\ e[grp][Len(e[grp])] = name
<1> DEFINE longer == Append(made[grp], name)
           e == [made EXCEPT ![grp] = longer]
<1>1. made \in [groups -> Seq(STRING)] /\ made[grp] \in Seq(STRING)
  BY DEF DimsType
<1>2. /\ longer \in Seq(STRING) /\ Len(longer) = Len(made[grp]) + 1 /\ longer[Len(made[grp]) + 1] = name
      /\ Len(made[grp]) \in Nat /\ \A k \in 1..Len(made[grp]) : longer[k] = made[grp][k]
  <2>1. longer \in Seq(STRING) /\ Len(made[grp]) \in Nat
    BY <1>1, AppendIn
  <2>2. Len(longer) = Len(made[grp]) + 1 /\ longer[Len(made[grp]) + 1] = name
    <3> DEFINE was == made[grp]
    <3>1. was \in Seq(STRING)
      BY <1>1
    <3> HIDE DEF was
    <3>2. Len(Append(was, name)) = Len(was) + 1 /\ Append(was, name)[Len(was) + 1] = name
      BY <3>1, AppendIn
    <3> QED BY <3>2 DEF was
  <2>3. \A k \in 1..Len(made[grp]) : longer[k] = made[grp][k]
    BY <1>1, AppendIn
  <2> QED BY <2>1, <2>2, <2>3
<1> HIDE DEF longer
<1>3. e[grp] = longer /\ \A h \in groups \ {grp} : e[h] = made[h]
  BY <1>1
<1>4. e \in [groups -> Seq(STRING)]
  BY <1>1, <1>2
<1> HIDE DEF e
<1>5. DimsType(groups, e)
  <2>1. SUFFICES ASSUME NEW h \in groups, NEW j \in 1..Len(e[h]), NEW k \in 1..Len(e[h]), e[h][j] = e[h][k]
                 PROVE  j = k
    BY <1>4 DEF DimsType
  <2>2. CASE h # grp
    BY <2>1, <2>2, <1>3 DEF DimsType
  <2>3. CASE h = grp
    <3>1. \A m, n \in 1..Len(made[grp]) : made[grp][m] = made[grp][n] => m = n
      BY DEF DimsType
    <3>2. j \in 1..(Len(made[grp]) + 1) /\ k \in 1..(Len(made[grp]) + 1) /\ longer[j] = longer[k]
      BY <1>2, <1>3, <2>1, <2>3
    <3>3. \A m \in 1..Len(made[grp]) : longer[m] # name
      BY <1>2
    <3>4. CASE j \in 1..Len(made[grp]) /\ k \in 1..Len(made[grp])
      <4>1. longer[j] = made[grp][j] /\ longer[k] = made[grp][k]
        BY <1>2, <3>4
      <4> QED BY <3>1, <3>2, <3>4, <4>1
    <3>5. CASE j = Len(made[grp]) + 1 \/ k = Len(made[grp]) + 1
      <4>1. j = k \/ longer[j] # longer[k]
        <5>1. CASE j = Len(made[grp]) + 1 /\ k # Len(made[grp]) + 1
          <6>1. k \in 1..Len(made[grp])
            BY <1>2, <3>2, <5>1
          <6> QED BY <1>2, <3>3, <5>1, <6>1
        <5>2. CASE k = Len(made[grp]) + 1 /\ j # Len(made[grp]) + 1
          <6>1. j \in 1..Len(made[grp])
            BY <1>2, <3>2, <5>2
          <6> QED BY <1>2, <3>3, <5>2, <6>1
        <5> QED BY <3>5, <5>1, <5>2
      <4> QED BY <3>2, <4>1
    <3> QED BY <1>2, <3>2, <3>4, <3>5
  <2> QED BY <2>2, <2>3
<1>6. Extends(made, e)
  BY <1>1, <1>2, <1>3 DEF Extends
<1> QED BY <1>2, <1>3, <1>5, <1>6 DEF e, longer

\* The group of a dimension is still above the array when others have been made.
LEMMA AtExtends ==
    ASSUME NEW groups, NEW d, NEW e, DimsType(groups, d), DimsType(groups, e), Extends(d, e),
           NEW grp, NEW path, At(groups, d, grp, path)
    PROVE  At(groups, e, grp, path)
<1>1. Front(path) \in groups
  BY DEF At
<1>2. Len(d[Front(path)]) \in Nat /\ Len(e[Front(path)]) \in Nat
  BY <1>1 DEF DimsType
<1> QED BY <1>1, <1>2 DEF Extends, DimsType, At

\* What the first dimensions of a variable have made of made.
Made(groups, made, paths, k, so) ==
    \E e : \E at \in [1..k -> groups \X Nat] :
      /\ so = [outcome |-> "ok", dims |-> e, at |-> at]
      /\ DimsType(groups, e) /\ Extends(made, e)
      /\ \A j \in 1..k : Denotes(e, at[j], paths[j])

\* Made holds for one dimension more of the array after each step that succeeds.
LEMMA MadeStep ==
    ASSUME NEW groups, groups \subseteq Seq(STRING), None \notin groups,
           NEW made, DimsType(groups, made), NEW grp \in groups,
           NEW rank \in Nat, NEW paths \in [1..rank -> Seq(STRING)],
           \A k \in 1..rank : At(groups, made, grp, paths[k]),
           NEW k \in 1..rank, NEW so, Made(groups, made, paths, k - 1, so),
           Transform(so, grp, Last(paths[k]), paths[k]).outcome = "ok"
    PROVE  Made(groups, made, paths, k, Transform(so, grp, Last(paths[k]), paths[k]))
<1>1. PICK d : \E at \in [1..(k - 1) -> groups \X Nat] :
             /\ so = [outcome |-> "ok", dims |-> d, at |-> at]
             /\ DimsType(groups, d) /\ Extends(made, d)
             /\ \A j \in 1..(k - 1) : Denotes(d, at[j], paths[j])
  BY Zenon DEF Made
<1>2. PICK was \in [1..(k - 1) -> groups \X Nat] :
             /\ so = [outcome |-> "ok", dims |-> d, at |-> was]
             /\ DimsType(groups, d) /\ Extends(made, d)
             /\ \A j \in 1..(k - 1) : Denotes(d, was[j], paths[j])
  BY <1>1, Zenon
<1>3. At(groups, d, grp, paths[k])
  BY <1>2, AtExtends
<1>4. PICK e, x : /\ Transform(so, grp, Last(paths[k]), paths[k]) = [outcome |-> "ok", dims |-> e, at |-> Append(was, x)]
                  /\ DimsType(groups, e) /\ Extends(d, e) /\ Denotes(e, x, paths[k])
  <2>1. so = [outcome |-> "ok", dims |-> d, at |-> was] /\ DimsType(groups, d)
    BY <1>2, Zenon
  <2>2. Transform([outcome |-> "ok", dims |-> d, at |-> was], grp, Last(paths[k]), paths[k]).outcome = "ok"
    BY <2>1, Zenon
  <2>3. \E e, x :
          /\ Transform([outcome |-> "ok", dims |-> d, at |-> was], grp, Last(paths[k]), paths[k])
             = [outcome |-> "ok", dims |-> e, at |-> Append(was, x)]
          /\ DimsType(groups, e) /\ Extends(d, e) /\ Denotes(e, x, paths[k])
    BY <1>3, <2>1, <2>2, TransformStep, Zenon
  <2> QED BY <2>1, <2>3, Zenon
<1>5. x \in groups \X Nat
  <2>1. Front(paths[k]) \in groups /\ Len(e[Front(paths[k])]) \in Nat
    BY <1>3, <1>4 DEF At, DimsType
  <2> QED BY <1>4, <2>1 DEF Denotes
<1> DEFINE S == groups \X Nat
<1>6. was \in Seq(S) /\ Len(was) = k - 1
  <2>1. was \in [1..(k - 1) -> S] /\ k - 1 \in Nat
    BY <1>2
  <2> HIDE DEF S
  <2> QED BY <2>1
<1>7. Append(was, x) \in [1..k -> S] /\ Append(was, x)[k] = x
      /\ \A j \in 1..(k - 1) : Append(was, x)[j] = was[j]
  <2>1. x \in S
    BY <1>5
  <2> HIDE DEF S
  <2>2. Append(was, x) \in Seq(S) /\ Len(Append(was, x)) = k
    BY <1>6, <2>1
  <2>3. Append(was, x)[k] = x /\ \A j \in 1..(k - 1) : Append(was, x)[j] = was[j]
    BY <1>6, <2>1
  <2>4. Append(was, x) \in [1..k -> S]
    BY <2>2, SeqAsFunction
  <2> QED BY <2>3, <2>4
<1>8. Extends(made, e)
  BY <1>2, <1>4, ExtendsTrans
<1>9. ASSUME NEW j \in 1..k PROVE Denotes(e, Append(was, x)[j], paths[j])
  <2>1. CASE j = k
    BY <1>4, <1>7, <2>1
  <2>2. CASE j # k
    <3>1. j \in 1..(k - 1) /\ j \in 1..rank
      BY <2>2
    <3>2. Denotes(d, was[j], paths[j]) /\ Append(was, x)[j] = was[j]
      BY <1>2, <1>7, <3>1
    <3>3. Front(paths[j]) \in groups
      BY <3>1 DEF At
    <3> QED BY <1>2, <1>4, <3>2, <3>3, DenotesExtends
  <2> QED BY <2>1, <2>2
<1> QED BY <1>4, <1>7, <1>8, <1>9, Zenon DEF Made

\* The dimensions of a variable: each of its names is in its group afterwards, and
\* nothing else has changed its place.
LEMMA FoldDimensions ==
    ASSUME NEW groups, groups \subseteq Seq(STRING), None \notin groups,
           NEW made, DimsType(groups, made), NEW grp \in groups,
           NEW rank \in Nat, NEW paths \in [1..rank -> Seq(STRING)],
           \A k \in 1..rank : At(groups, made, grp, paths[k]),
           h5dims_transform_to_dap4(made, grp, rank, LastOf(paths), paths).outcome = "ok"
    PROVE  Made(groups, made, paths, rank, h5dims_transform_to_dap4(made, grp, rank, LastOf(paths), paths))
<1> DEFINE names == LastOf(paths)
           start == [outcome |-> "ok", dims |-> made, at |-> <<>>]
           After(before, k) == Transform(before, grp, names[k], IF k \in DOMAIN paths THEN paths[k] ELSE None)
           Turns(n, t) == t = [k \in 0..n |-> IF k = 0 THEN start ELSE After(t[k - 1], k)]
           turn == CHOOSE t : Turns(rank, t)
<1>1. \E t : Turns(rank, t)
  <2> DEFINE T == {n \in Nat : ~\E t : Turns(n, t)}
  <2> HIDE DEF start, After
  <2>1. SUFFICES ASSUME T # {} PROVE FALSE
    OBVIOUS
  <2>2. PICK n \in T : \A m \in T : n <= m
    BY <2>1, MinNat
  <2>3. CASE n = 0
    <3> DEFINE t == [k \in 0..0 |-> start]
    <3>1. Turns(0, t)
      OBVIOUS
    <3> QED BY <2>2, <2>3, <3>1
  <2>4. CASE n # 0
    <3>1. n \in Nat /\ n - 1 \in Nat
      BY <2>2, <2>4
    <3>2. n - 1 \notin T
      <4> HIDE DEF T
      <4> QED BY <2>2, <3>1
    <3>3. PICK s : Turns(n - 1, s)
      BY <3>1, <3>2
    <3> DEFINE t == [k \in 0..n |-> IF k = n THEN After(s[n - 1], n) ELSE s[k]]
    <3>4. ASSUME NEW k \in 0..n
          PROVE  t[k] = IF k = 0 THEN start ELSE After(t[k - 1], k)
      BY <2>4, <3>1, <3>3
    <3>5. Turns(n, t)
      BY <3>4
    <3> QED BY <2>2, <3>5
  <2> QED BY <2>3, <2>4
<1>2. Turns(rank, turn)
  <2> HIDE DEF Turns
  <2> QED BY <1>1
<1>3. Len(names) = rank /\ \A k \in 1..rank : names[k] = Last(paths[k])
  BY DEF LastOf
<1>4. h5dims_transform_to_dap4(made, grp, rank, names, paths) = turn[rank]
  BY <1>3 DEF h5dims_transform_to_dap4
<1>5. turn[0] = start
  <2> HIDE DEF start, turn, After
  <2> QED BY <1>2
<1>6. ASSUME NEW k \in 1..rank
      PROVE  turn[k] = Transform(turn[k - 1], grp, Last(paths[k]), paths[k])
  <2>1. turn[k] = After(turn[k - 1], k)
    <3> HIDE DEF start, turn, After
    <3> QED BY <1>2
  <2> HIDE DEF turn
  <2> QED BY <1>3, <2>1
<1> HIDE DEF turn
<1> DEFINE Good(k) == turn[k].outcome = "ok" => Made(groups, made, paths, k, turn[k])
           Bad == {k \in Nat : k <= rank /\ ~Good(k)}
<1>7. Good(0)
  <2>1. Extends(made, made)
    BY DEF Extends, DimsType
  <2> DEFINE S == groups \X Nat
  <2>2. <<>> \in [1..0 -> S]
    <3> HIDE DEF S
    <3> QED OBVIOUS
  <2>3. \A j \in 1..0 : Denotes(made, <<>>[j], paths[j])
    OBVIOUS
  <2> HIDE DEF start
  <2>4. turn[0] = [outcome |-> "ok", dims |-> made, at |-> <<>>]
    BY <1>5 DEF start
  <2>5. Made(groups, made, paths, 0, turn[0])
    BY <2>1, <2>2, <2>3, <2>4, Zenon DEF Made
  <2> QED BY <2>5
<1>8. ASSUME NEW k \in 1..rank, Good(k - 1) PROVE Good(k)
  <2>1. turn[k].outcome = "ok" => turn[k - 1].outcome = "ok"
    BY <1>6 DEF Transform
  <2> QED BY <1>6, <1>8, <2>1, MadeStep
<1>9. Good(rank)
  <2> HIDE DEF Good
  <2>1. SUFFICES ASSUME Bad # {} PROVE FALSE
    OBVIOUS
  <2>2. PICK k \in Bad : \A j \in Bad : k <= j
    BY <2>1, MinNat
  <2>3. k # 0
    BY <1>7, <2>2
  <2>4. k \in 1..rank /\ k - 1 \in Nat /\ k - 1 <= rank
    BY <2>2, <2>3
  <2>5. k - 1 \notin Bad
    <3> HIDE DEF Bad
    <3> QED BY <2>2, <2>4
  <2>6. Good(k - 1)
    BY <2>4, <2>5
  <2> QED BY <1>8, <2>2, <2>4, <2>6
<1> QED BY <1>4, <1>9

------------------------------------------------------------------------------
(***************************************************************************)
(* The dimensions of a request that is in order.                           *)
(***************************************************************************)

IsScale(f, a) == check_dimscale(f) /\ (IsDimscale(f.data[a]) \/ IsPureDim(f.data[a]))

\* The dimensions a variable of the DMR is to have are the ones it has.
Placed(f, made, v) ==
    LET d == f.data[v.link.to] IN
    /\ IsDimscale(d) => Denotes(made, v.at[1], Path(v.link))
    /\ ~IsDimscale(d) => \A k \in 1..Len(d.listed) : Denotes(made, v.at[k], DimensionPath(f, d.listed[k]))

\* The dimensions have been made that were passed by, the variables are placed.
Shared(f, n, made, vs) ==
    /\ DimsType(f.groups, made)
    /\ \A i \in 1..(n - 1) :
         IsScale(f, f.links[i].to) =>
           \E k \in 1..Len(made[f.links[i].group]) : made[f.links[i].group][k] = f.links[i].name
    /\ \E S : vs \in Seq(S)
    /\ \A i \in 1..Len(vs) : (\E j \in 1..(n - 1) : vs[i].link = f.links[j]) /\ Placed(f, made, vs[i])

SharedInv ==
    /\ CleanInv
    /\ request # None =>
         /\ request.next <= Len(request.file.links) + 1
         /\ request.clean /\ request.status # "failed" /\ FollowsNetCDF4(request.file) =>
              Shared(request.file, request.next, dims, variables)

\* The links of a file are a sequence.
LEMMA LinksAreSeq ==
    ASSUME NEW f \in File
    PROVE  /\ f.links \in Seq([group : f.groups, name : STRING, to : DOMAIN f.data])
           /\ Len(f.links) \in Nat /\ DOMAIN f.links = 1..Len(f.links)
<1> DEFINE Rec == [group : f.groups, name : STRING, to : DOMAIN f.data]
<1>1. f.links \in Seq(Rec)
  BY FileAssumption
<1>2. Len(f.links) \in Nat /\ DOMAIN f.links = 1..Len(f.links)
  <2> HIDE DEF Rec
  <2> QED BY <1>1
<1> QED BY <1>1, <1>2

\* A link leads from a group of the file to a dataset of it.
LEMMA LinksType ==
    ASSUME NEW f \in File, NEW i \in 1..Len(f.links)
    PROVE  /\ f.links[i].group \in f.groups /\ f.links[i].name \in STRING /\ f.links[i].to \in DOMAIN f.data
           /\ f.links[i].group \in Seq(STRING)
           /\ Len(f.links) \in Nat /\ DOMAIN f.links = 1..Len(f.links)
<1> DEFINE Rec == [group : f.groups, name : STRING, to : DOMAIN f.data]
<1>1. f.links \in Seq(Rec)
  BY LinksAreSeq
<1>2. f.links[i] \in Rec /\ Len(f.links) \in Nat /\ DOMAIN f.links = 1..Len(f.links)
  <2> HIDE DEF Rec
  <2> QED BY <1>1
<1>3. f.groups \subseteq Seq(STRING)
  BY FileAssumption
<1> QED BY <1>2, <1>3

\* A dataset lists no dimensions, or as many as it has.
LEMMA DataType ==
    ASSUME NEW f \in File, NEW a \in DOMAIN f.data
    PROVE  /\ f.data[a].rank \in Nat /\ f.data[a].listed \in Seq(DOMAIN f.data \cup {None})
           /\ f.data[a].listed = <<>> \/ Len(f.data[a].listed) = f.data[a].rank
<1>1. f.data \in [DOMAIN f.data -> Dataset(DOMAIN f.data)]
  BY FileAssumption
<1>2. f.data[a] \in Dataset(DOMAIN f.data)
  BY <1>1
<1>3. f.data[a].listed = <<>> \/ Len(f.data[a].listed) = f.data[a].rank
  BY FileAssumption
<1> QED BY <1>2, <1>3 DEF Dataset

\* The path of a link is the path of its group with its name behind it.
LEMMA PathParts ==
    ASSUME NEW l, l.group \in Seq(STRING), l.name \in STRING
    PROVE  Path(l) \in Seq(STRING) /\ Front(Path(l)) = l.group /\ Last(Path(l)) = l.name
<1>1. Path(l) \in Seq(STRING) /\ Len(Path(l)) = Len(l.group) + 1 /\ Last(Path(l)) = l.name
  BY DEF Path, Last
<1>2. Front(Path(l)) = l.group
  BY <1>1 DEF Front, Path
<1> QED BY <1>1, <1>2

\* The path of a dimension that can be had is that of its link above the others.
LEMMA ShortestLink ==
    ASSUME NEW f \in File, NEW a \in DOMAIN f.data, Obtainable(f, a)
    PROVE  \E m \in 1..Len(f.links) : f.links[m].to = a /\ DimensionPath(f, a) = Path(f.links[m])
<1> DEFINE T == Shortest(f, a)
<1>1. DOMAIN f.links = 1..Len(f.links) /\ Len(f.links) \in Nat
  BY LinksAreSeq
<1>2. T \subseteq Nat /\ T # {} /\ T \subseteq 1..Len(f.links)
  BY <1>1 DEF Shortest, LinksTo, Obtainable
<1> DEFINE m == Min(T)
<1>3. m \in T
  <2> HIDE DEF T
  <2>1. \E x \in T : \A y \in T : x <= y
    BY <1>2, MinNat
  <2> QED BY <2>1 DEF Min
<1>4. f.links[m].to = a /\ m \in 1..Len(f.links)
  BY <1>2, <1>3 DEF Shortest, LinksTo
<1>5. DimensionPath(f, a) = Path(f.links[m])
  BY DEF DimensionPath
<1> QED BY <1>4, <1>5

\* Two dimensions have two paths.
LEMMA PathsDiffer ==
    ASSUME NEW f \in File, NEW i \in 1..Len(f.links), NEW j \in 1..Len(f.links),
           Front(Path(f.links[i])) = Front(Path(f.links[j])), Last(Path(f.links[i])) = Last(Path(f.links[j]))
    PROVE  i = j
<1>1. f.links[i].group = f.links[j].group /\ f.links[i].name = f.links[j].name
  BY LinksType, PathParts
<1>2. i \in DOMAIN f.links /\ j \in DOMAIN f.links
  BY LinksAreSeq
<1>3. f.links[i].group = f.links[j].group /\ f.links[i].name = f.links[j].name => i = j
  BY <1>2, FileAssumption, Zenon
<1> QED BY <1>1, <1>3

\* When the walk is through, SharedInv gives what DimensionsShared says.
LEMMA SharedImplies ==
    ASSUME SharedInv, request # None, request.status = "done", request.clean, FollowsNetCDF4(request.file)
    PROVE  /\ \A u, w \in Wanted(request.file) :
                /\ AtOf(u) # NoName
                /\ (AtOf(u) = AtOf(w)) <=> (u[3] = w[3])
           /\ \A g \in DOMAIN dims : IsInjective(dims[g])
<1> DEFINE f == request.file
<1>1. f \in File /\ request.next \in Nat \ {0} /\ request.next <= Len(f.links) + 1
  BY DEF SharedInv, CleanInv, RequestType
<1>2. Shared(f, request.next, dims, variables)
  BY DEF SharedInv
<1>8. FollowsNetCDF4(f)
  OBVIOUS
<1> HIDE DEF f
<1>3. ASSUME NEW w \in Wanted(f)
      PROVE  /\ w[3] \in DOMAIN f.data
             /\ \E m \in 1..Len(f.links) : f.links[m].to = w[3] /\ DimensionPath(f, w[3]) = Path(f.links[m])
             /\ Denotes(dims, AtOf(w), DimensionPath(f, w[3]))
  <2> DEFINE v == variables[w[1]]
             d == f.data[v.link.to]
  <2>1. /\ w[1] \in DOMAIN variables /\ w[3] \in DOMAIN f.data
        /\ \/ IsDimscale(d) /\ w[2] = 1 /\ w[3] = v.link.to /\ Path(v.link) = DimensionPath(f, v.link.to)
           \/ ~IsDimscale(d) /\ w[2] \in DOMAIN d.listed /\ w[3] = d.listed[w[2]]
    <3>1. PICK i \in DOMAIN variables :
            w \in {i} \X (1..f.data[variables[i].link.to].rank) \X DOMAIN f.data
      BY DEF Wanted
    <3>2. w[1] \in DOMAIN variables /\ w[3] \in DOMAIN f.data
      BY <3>1
    <3>3. \/ IsDimscale(d) /\ w[2] = 1 /\ w[3] = v.link.to /\ Path(v.link) = DimensionPath(f, v.link.to)
          \/ ~IsDimscale(d) /\ w[2] \in DOMAIN d.listed /\ w[3] = d.listed[w[2]]
      BY Zenon DEF Wanted
    <3> QED BY <3>2, <3>3
  <2>2. w[1] \in 1..Len(variables)
    <3>1. PICK S : variables \in Seq(S)
      BY <1>2 DEF Shared
    <3> QED BY <2>1, <3>1
  <2>3. PICK j \in 1..(request.next - 1) : v.link = f.links[j]
    BY <1>2, <2>2 DEF Shared
  <2>4. j \in 1..Len(f.links)
    <3>1. Len(f.links) \in Nat
      BY <1>1, LinksAreSeq
    <3> QED BY <1>1, <2>3, <3>1
  <2>5. Placed(f, dims, v)
    BY <1>2, <2>2 DEF Shared
  <2>6. v.link.to \in DOMAIN f.data
    BY <1>1, <2>3, <2>4, LinksType
  <2>7. CASE IsDimscale(d)
    BY <2>1, <2>3, <2>4, <2>5, <2>7 DEF Placed, AtOf
  <2>8. CASE ~IsDimscale(d)
    <3>1. d.listed \in Seq(DOMAIN f.data \cup {None})
      BY <1>1, <2>6, DataType
    <3>2. w[2] \in 1..Len(d.listed) /\ w[3] = d.listed[w[2]]
      BY <2>1, <2>8, <3>1
    <3>3. Obtainable(f, w[3])
      <4>1. j \in DOMAIN f.links
        BY <1>1, <2>4, LinksType
      <4> QED BY <1>8, <2>1, <2>3, <2>8, <4>1 DEF FollowsNetCDF4
    <3>4. Denotes(dims, v.at[w[2]], DimensionPath(f, w[3]))
      BY <2>5, <2>8, <3>2 DEF Placed
    <3> QED BY <1>1, <2>1, <3>3, <3>4, ShortestLink DEF AtOf
  <2> QED BY <2>7, <2>8
<1>4. ASSUME NEW w \in Wanted(f) PROVE AtOf(w) # NoName
  BY <1>3 DEF Denotes, NoName
<1>5. ASSUME NEW u \in Wanted(f), NEW w \in Wanted(f), u[3] = w[3] PROVE AtOf(u) = AtOf(w)
  <2> DEFINE path == DimensionPath(f, u[3])
  <2>1. PICK m \in 1..Len(f.links) : path = Path(f.links[m])
    BY <1>3
  <2>2. Front(path) \in f.groups
    BY <1>1, <2>1, LinksType, PathParts
  <2> HIDE DEF path
  <2>3. Denotes(dims, AtOf(u), path) /\ Denotes(dims, AtOf(w), path)
    BY <1>3, <1>5 DEF path
  <2>4. PICK k \in 1..Len(dims[Front(path)]) : AtOf(u) = <<Front(path), k>> /\ dims[Front(path)][k] = Last(path)
    BY <2>3 DEF Denotes
  <2>5. PICK j \in 1..Len(dims[Front(path)]) : AtOf(w) = <<Front(path), j>> /\ dims[Front(path)][j] = Last(path)
    BY <2>3 DEF Denotes
  <2>6. k = j
    BY <1>2, <2>2, <2>4, <2>5 DEF Shared, DimsType
  <2> QED BY <2>4, <2>5, <2>6
<1>6. ASSUME NEW u \in Wanted(f), NEW w \in Wanted(f), AtOf(u) = AtOf(w) PROVE u[3] = w[3]
  <2>1. PICK i \in 1..Len(f.links) : f.links[i].to = u[3] /\ DimensionPath(f, u[3]) = Path(f.links[i])
    BY <1>3
  <2>2. PICK j \in 1..Len(f.links) : f.links[j].to = w[3] /\ DimensionPath(f, w[3]) = Path(f.links[j])
    BY <1>3
  <2> DEFINE p == Path(f.links[i])
             q == Path(f.links[j])
  <2>3. Denotes(dims, AtOf(u), p) /\ Denotes(dims, AtOf(w), q)
    BY <1>3, <2>1, <2>2
  <2>4. Front(p) = Front(q) /\ Last(p) = Last(q)
    <3> HIDE DEF p, q
    <3>1. PICK k : AtOf(u) = <<Front(p), k>> /\ dims[Front(p)][k] = Last(p)
      BY <2>3 DEF Denotes
    <3>2. PICK n : AtOf(w) = <<Front(q), n>> /\ dims[Front(q)][n] = Last(q)
      BY <2>3 DEF Denotes
    <3>3. <<Front(p), k>> = <<Front(q), n>>
      BY <1>6, <3>1, <3>2
    <3>4. Front(p) = Front(q) /\ k = n
      BY <3>3
    <3> QED BY <3>1, <3>2, <3>4
  <2> QED BY <1>1, <2>1, <2>2, <2>4, PathsDiffer
<1>7. ASSUME NEW g \in DOMAIN dims PROVE IsInjective(dims[g])
  BY <1>2 DEF Shared, DimsType, IsInjective
<1> QED BY <1>4, <1>5, <1>6, <1>7 DEF f

\* A dimension of a variable, and its path.
LEMMA ListedPath ==
    ASSUME NEW f \in File, FollowsNetCDF4(f), NEW i \in 1..Len(f.links),
           ~IsDimscale(f.data[f.links[i].to]), NEW k \in 1..Len(f.data[f.links[i].to].listed)
    PROVE  LET a == f.data[f.links[i].to].listed[k] IN
           /\ Obtainable(f, a) /\ a \in DOMAIN f.data
           /\ IsDimscale(f.data[a]) \/ IsPureDim(f.data[a])
           /\ IsPrefix(Front(DimensionPath(f, a)), f.links[i].group)
<1>1. i \in DOMAIN f.links
  BY LinksAreSeq
<1>2. f.data[f.links[i].to].listed \in Seq(DOMAIN f.data \cup {None})
  BY LinksType, DataType
<1>3. k \in DOMAIN f.data[f.links[i].to].listed
  BY <1>2
<1> DEFINE a == f.data[f.links[i].to].listed[k]
<1>4. ~IsDimscale(f.data[f.links[i].to])
      => /\ Obtainable(f, a) /\ (IsDimscale(f.data[a]) \/ IsPureDim(f.data[a]))
         /\ IsPrefix(Front(DimensionPath(f, a)), f.links[i].group)
  BY <1>1, <1>3 DEF FollowsNetCDF4
<1>5. a \in DOMAIN f.data
  <2>1. a \in DOMAIN f.data \cup {None}
    BY <1>2
  <2>2. a # None
    BY <1>4, Zenon DEF Obtainable
  <2> QED BY <2>1, <2>2
<1> QED BY <1>4, <1>5

\* A variable that refers to the right dimensions still does when others are made.
LEMMA PlacedExtends ==
    ASSUME NEW f \in File, FollowsNetCDF4(f), NEW d, NEW e, DimsType(f.groups, d), DimsType(f.groups, e), Extends(d, e),
           NEW v, NEW i \in 1..Len(f.links), v.link = f.links[i], Placed(f, d, v)
    PROVE  Placed(f, e, v)
<1> DEFINE data == f.data[v.link.to]
<1>1. ASSUME IsDimscale(data) PROVE Denotes(e, v.at[1], Path(v.link))
  <2>1. Front(Path(v.link)) \in f.groups
    BY LinksType, PathParts
  <2> QED BY <1>1, <2>1, DenotesExtends DEF Placed
<1>2. ASSUME ~IsDimscale(data), NEW k \in 1..Len(data.listed)
      PROVE  Denotes(e, v.at[k], DimensionPath(f, data.listed[k]))
  <2>1. Obtainable(f, data.listed[k]) /\ data.listed[k] \in DOMAIN f.data
    BY <1>2, ListedPath
  <2>2. PICK m \in 1..Len(f.links) : DimensionPath(f, data.listed[k]) = Path(f.links[m])
    BY <2>1, ShortestLink
  <2>3. Front(DimensionPath(f, data.listed[k])) \in f.groups
    BY <2>2, LinksType, PathParts
  <2> QED BY <1>2, <2>3, DenotesExtends DEF Placed
<1> QED BY <1>1, <1>2 DEF Placed

\* What is shared after n - 1 links is shared after n, with the dimensions and the
\* variable that link n has added.
LEMMA SharedExtends ==
    ASSUME NEW f \in File, FollowsNetCDF4(f), NEW n \in 1..Len(f.links), NEW d, NEW vs, Shared(f, n, d, vs),
           NEW e, DimsType(f.groups, e), Extends(d, e),
           IsScale(f, f.links[n].to) => \E k \in 1..Len(e[f.links[n].group]) : e[f.links[n].group][k] = f.links[n].name,
           NEW ws, ws = vs \/ \E v : ws = Append(vs, v) /\ v.link = f.links[n] /\ Placed(f, e, v)
    PROVE  Shared(f, n + 1, e, ws)
<1>1. DimsType(f.groups, d)
  BY DEF Shared
<1>2. ASSUME NEW i \in 1..n, IsScale(f, f.links[i].to)
      PROVE  \E k \in 1..Len(e[f.links[i].group]) : e[f.links[i].group][k] = f.links[i].name
  <2>1. CASE i = n
    BY <1>2, <2>1
  <2>2. CASE i # n
    <3>1. i \in 1..(n - 1) /\ i \in 1..Len(f.links)
      BY <2>2, LinksAreSeq
    <3>2. PICK k \in 1..Len(d[f.links[i].group]) : d[f.links[i].group][k] = f.links[i].name
      BY <1>2, <3>1 DEF Shared
    <3>3. f.links[i].group \in f.groups
      BY <3>1, LinksType
    <3>4. Len(d[f.links[i].group]) \in Nat /\ Len(e[f.links[i].group]) \in Nat
      BY <1>1, <3>3 DEF DimsType
    <3>5. DOMAIN d = f.groups
      BY <1>1 DEF DimsType
    <3>6. k \in 1..Len(e[f.links[i].group]) /\ e[f.links[i].group][k] = f.links[i].name
      BY <3>2, <3>3, <3>4, <3>5 DEF Extends
    <3> QED BY <3>6
  <2> QED BY <2>1, <2>2
<1>3. PICK S : vs \in Seq(S)
  BY DEF Shared
<1>4. ASSUME NEW i \in 1..Len(vs)
      PROVE  (\E j \in 1..n : vs[i].link = f.links[j]) /\ Placed(f, e, vs[i])
  <2>1. PICK j \in 1..(n - 1) : vs[i].link = f.links[j]
    BY DEF Shared
  <2>2. j \in 1..n /\ j \in 1..Len(f.links)
    BY LinksAreSeq
  <2>3. Placed(f, d, vs[i])
    BY DEF Shared
  <2> QED BY <1>1, <2>1, <2>2, <2>3, PlacedExtends
<1>5. CASE ws = vs
  BY <1>2, <1>3, <1>4, <1>5 DEF Shared
<1>6. CASE \E v : ws = Append(vs, v) /\ v.link = f.links[n] /\ Placed(f, e, v)
  <2>1. PICK v : ws = Append(vs, v) /\ v.link = f.links[n] /\ Placed(f, e, v)
    BY <1>6
  <2>2. /\ ws \in Seq(S \cup {v}) /\ Len(ws) = Len(vs) + 1 /\ Len(vs) \in Nat
        /\ ws[Len(vs) + 1] = v /\ \A i \in 1..Len(vs) : ws[i] = vs[i]
    BY <1>3, <2>1, AppendAny
  <2>3. ASSUME NEW i \in 1..Len(ws)
        PROVE  (\E j \in 1..n : ws[i].link = f.links[j]) /\ Placed(f, e, ws[i])
    <3>1. CASE i \in 1..Len(vs)
      BY <1>4, <2>2, <3>1
    <3>2. CASE i = Len(vs) + 1
      BY <2>1, <2>2, <3>2
    <3> QED BY <2>2, <3>1, <3>2
  <2>4. (n + 1) - 1 = n /\ \E T : ws \in Seq(T)
    BY <2>2, LinksAreSeq
  <2> QED BY <1>2, <2>3, <2>4 DEF Shared
<1> QED BY <1>5, <1>6

\* Where there are not as many names as dimensions nothing is made.
LEMMA NoNames ==
    ASSUME NEW made, NEW grp, NEW rank, NEW names, NEW paths, Len(names) # rank
    PROVE  h5dims_transform_to_dap4(made, grp, rank, names, paths).dims = made
BY DEF h5dims_transform_to_dap4

\* The parts of Made that the variable of a link needs.
LEMMA MadeParts ==
    ASSUME NEW groups, NEW made, NEW paths, NEW n \in Nat, NEW so, Made(groups, made, paths, n, so)
    PROVE  /\ DimsType(groups, so.dims) /\ Extends(made, so.dims)
           /\ \A k \in 1..n : Denotes(so.dims, so.at[k], paths[k])
<1>1. PICK e, at :
        /\ so = [outcome |-> "ok", dims |-> e, at |-> at]
        /\ DimsType(groups, e) /\ Extends(made, e)
        /\ \A j \in 1..n : Denotes(e, at[j], paths[j])
  BY Zenon DEF Made
<1>2. so.dims = e /\ so.at = at
  BY <1>1
<1> QED BY <1>1, <1>2, Zenon

\* A dimension above a variable comes before it.
LEMMA ScaleBefore ==
    ASSUME NEW f \in File, NEW n \in 1..Len(f.links), NEW made, NEW vs, Shared(f, n, made, vs),
           NEW a \in DOMAIN f.data, Obtainable(f, a), IsScale(f, a),
           IsPrefix(Front(DimensionPath(f, a)), f.links[n].group)
    PROVE  At(f.groups, made, f.links[n].group, DimensionPath(f, a))
<1> DEFINE path == DimensionPath(f, a)
           grp == f.links[n].group
<1>1. PICK m \in 1..Len(f.links) : f.links[m].to = a /\ path = Path(f.links[m])
  BY ShortestLink
<1>2. /\ path \in Seq(STRING) /\ Front(path) = f.links[m].group /\ Last(path) = f.links[m].name
      /\ Front(path) \in f.groups /\ Last(path) \in STRING
  BY <1>1, LinksType, PathParts
<1>3. CASE Front(path) = grp
  BY <1>2, <1>3 DEF At
<1>4. CASE Front(path) # grp
  <2>1. IsStrictPrefix(f.links[m].group, grp)
    BY <1>2, <1>4 DEF IsStrictPrefix
  <2>2. m \in DOMAIN f.links /\ n \in DOMAIN f.links /\ Len(f.links) \in Nat
    BY LinksAreSeq
  <2>3. m < n
    BY <2>1, <2>2, FileAssumption, Zenon
  <2>4. m \in 1..(n - 1)
    BY <2>2, <2>3
  <2>5. \E k \in 1..Len(made[f.links[m].group]) : made[f.links[m].group][k] = f.links[m].name
    BY <1>1, <2>4 DEF Shared
  <2> QED BY <1>2, <2>5 DEF At
<1> QED BY <1>3, <1>4

\* What Array makes of a request that is in order.
LEMMA ArrayShared ==
    ASSUME SharedInv, Array, request.clean, FollowsNetCDF4(request.file)
    PROVE  Shared(request.file, request.next + 1, dims', variables')
<1> DEFINE f == request.file
           n == request.next
           d == f.data[f.links[n].to]
           grp == f.links[n].group
           pushed == Pushed(f, f.links[n])
           done == h5dims_transform_to_dap4(dims, grp, d.rank, Names, Paths)
           v == [link |-> f.links[n], at |-> done.at]
<1>1. /\ f \in File /\ n \in 1..Len(f.links)
      /\ Link = f.links[n] /\ Data = d
  <2>1. request.status = "walking" /\ request # None /\ n <= Len(f.links)
    BY DEF Array, CanBeMade, LinkLeft, Walking
  <2>2. f \in File /\ n \in Nat \ {0}
    BY <2>1 DEF SharedInv, CleanInv, RequestType
  <2> QED BY <2>1, <2>2, LinksAreSeq DEF Link, Data
<1>2. Shared(f, n, dims, variables) /\ dimnames = <<>> /\ dimnames_path = <<>>
  BY DEF Array, CanBeMade, LinkLeft, Walking, SharedInv, CleanInv, CleanAfterSuccess
<1>3. /\ done.outcome = "ok" /\ dims' = done.dims /\ variables' = Append(variables, v)
      /\ d.rank > 0 /\ AllObtained(f, f.links[n]) /\ ~(check_dimscale(f) /\ IsPureDim(d))
  BY <1>1 DEF Array, CanBeMade, IsVariable
<1>4. d.rank \in Nat /\ (d.listed = <<>> \/ Len(d.listed) = d.rank) /\ d.listed \in Seq(DOMAIN f.data \cup {None})
  BY <1>1, LinksType, DataType
<1>5. DimsType(f.groups, dims) /\ f.groups \subseteq Seq(STRING) /\ None \notin f.groups /\ grp \in f.groups
  BY <1>1, <1>2, LinksType, FileAssumption DEF Shared
<1>6. ASSUME pushed \in [1..d.rank -> Seq(STRING)],
             \A k \in 1..d.rank : At(f.groups, dims, grp, pushed[k])
      PROVE  Made(f.groups, dims, pushed, d.rank, done)
  <2>1. Names = <<>> \o LastOf(pushed) /\ Paths = <<>> \o pushed
    BY <1>1, <1>2 DEF Names, Paths
  <2> HIDE DEF pushed, d, grp
  <2>2. pushed \in Seq(Seq(STRING))
    BY <1>4, <1>6
  <2>3. LastOf(pushed) \in [1..d.rank -> STRING]
    BY <1>6 DEF LastOf, At
  <2>4. LastOf(pushed) \in Seq(STRING)
    BY <1>4, <2>3
  <2>5. Names = LastOf(pushed) /\ Paths = pushed
    BY <2>1, <2>2, <2>4
  <2> QED BY <1>3, <1>4, <1>5, <1>6, <2>5, FoldDimensions
<1>7. CASE IsDimscale(d)
  <2>1. check_dimscale(f)
    BY <1>1, <1>7, LinksType DEF check_dimscale, IsDimscale
  <2>2. pushed = <<Path(f.links[n])>> /\ d.rank = 1
    <3>1. ~IsPureDim(d) /\ d.rank = 1
      BY <1>7 DEF IsPureDim, IsDimscale
    <3> QED BY <1>7, <2>1, <3>1 DEF Pushed
  <2>3. At(f.groups, dims, grp, Path(f.links[n]))
    <3>1. /\ Path(f.links[n]) \in Seq(STRING) /\ Front(Path(f.links[n])) = grp
          /\ Last(Path(f.links[n])) = f.links[n].name /\ f.links[n].name \in STRING
          /\ grp \in Seq(STRING)
      BY <1>1, LinksType, PathParts
    <3>2. IsPrefix(grp, grp)
      BY <3>1 DEF IsPrefix
    <3> QED BY <1>5, <3>1, <3>2 DEF At
  <2>4. Made(f.groups, dims, pushed, d.rank, done)
    <3> HIDE DEF done, d, pushed, grp
    <3>1. Path(f.links[n]) \in Seq(STRING)
      BY <2>3 DEF At
    <3>2. pushed \in [1..d.rank -> Seq(STRING)]
      BY <2>2, <3>1
    <3>3. \A k \in 1..d.rank : pushed[k] = Path(f.links[n])
      BY <2>2
    <3> QED BY <1>6, <2>3, <3>2, <3>3
  <2>5. /\ DimsType(f.groups, done.dims) /\ Extends(dims, done.dims)
        /\ Denotes(done.dims, done.at[1], Path(f.links[n]))
    <3> HIDE DEF done, d, pushed, grp
    <3>1. pushed[1] = Path(f.links[n]) /\ 1 \in 1..d.rank
      BY <2>2
    <3> QED BY <1>4, <2>4, <3>1, MadeParts
  <2>6. Placed(f, done.dims, v)
    <3> HIDE DEF done
    <3> QED BY <1>7, <2>5 DEF Placed
  <2>7. \E k \in 1..Len(done.dims[grp]) : done.dims[grp][k] = f.links[n].name
    <3>1. Front(Path(f.links[n])) = grp /\ Last(Path(f.links[n])) = f.links[n].name
      BY <1>1, LinksType, PathParts
    <3> HIDE DEF done
    <3> QED BY <2>5, <3>1 DEF Denotes
  <2> HIDE DEF done, d, pushed
  <2>8. \E w : Append(variables, v) = Append(variables, w) /\ w.link = f.links[n] /\ Placed(f, done.dims, w)
    BY <2>6
  <2> HIDE DEF v
  <2> QED BY <1>1, <1>2, <1>3, <2>5, <2>7, <2>8, SharedExtends
<1>8. CASE ~IsDimscale(d) /\ d.listed # <<>>
  <2>1. ASSUME NEW k \in 1..d.rank
        PROVE  /\ check_dimscale(f) /\ DimensionPath(f, d.listed[k]) \in Seq(STRING)
               /\ Obtainable(f, d.listed[k])
               /\ At(f.groups, dims, grp, DimensionPath(f, d.listed[k]))
    <3> DEFINE a == d.listed[k]
    <3>1. k \in 1..Len(d.listed)
      BY <1>4, <1>8
    <3>2. /\ Obtainable(f, a) /\ a \in DOMAIN f.data /\ (IsDimscale(f.data[a]) \/ IsPureDim(f.data[a]))
          /\ IsPrefix(Front(DimensionPath(f, a)), grp)
      BY <1>1, <1>8, <3>1, ListedPath
    <3>3. check_dimscale(f)
      BY <3>2 DEF check_dimscale, IsDimscale, IsPureDim
    <3> HIDE DEF a
    <3>4. At(f.groups, dims, grp, DimensionPath(f, a))
      BY <1>1, <1>2, <3>2, <3>3, ScaleBefore DEF IsScale
    <3> QED BY <3>2, <3>3, <3>4 DEF At, a
  <2>2. pushed = [k \in 1..d.rank |-> DimensionPath(f, d.listed[k])]
    <3>1. check_dimscale(f) /\ ~IsPureDim(d) /\ Len(d.listed) = d.rank
      <4> HIDE DEF d, pushed, grp
      <4>1. 1 \in 1..d.rank
        BY <1>3, <1>4
      <4>2. check_dimscale(f)
        BY <2>1, <4>1
      <4> QED BY <1>3, <1>4, <1>8, <4>2
    <3> DEFINE good == {m \in 0..Len(d.listed) : \A k \in 1..m : Obtainable(f, d.listed[k])}
    <3>2. pushed = [k \in good \ {0} |-> DimensionPath(f, d.listed[k])]
      BY <1>8, <3>1 DEF Pushed
    <3>3. ASSUME NEW m \in 0..d.rank PROVE m \in good
      <4> HIDE DEF d
      <4> QED BY <1>4, <2>1, <3>1
    <3>4. good \ {0} = 1..d.rank
      <4> HIDE DEF d
      <4>1. ASSUME NEW m \in good PROVE m \in 0..d.rank
        BY <3>1
      <4> HIDE DEF good
      <4>2. good = 0..d.rank
        BY <3>3, <4>1
      <4> QED BY <1>4, <4>2
    <3> QED BY <3>2, <3>4
  <2>3. Made(f.groups, dims, pushed, d.rank, done)
    <3> HIDE DEF done, d, pushed, grp
    <3>1. pushed \in [1..d.rank -> Seq(STRING)] /\ \A k \in 1..d.rank : pushed[k] = DimensionPath(f, d.listed[k])
      BY <2>1, <2>2
    <3> QED BY <1>6, <2>1, <3>1
  <2>4. /\ DimsType(f.groups, done.dims) /\ Extends(dims, done.dims)
        /\ \A k \in 1..d.rank : Denotes(done.dims, done.at[k], DimensionPath(f, d.listed[k]))
    <3> HIDE DEF done, d, pushed, grp
    <3> QED BY <1>4, <2>2, <2>3, MadeParts
  <2>5. Placed(f, done.dims, v)
    <3>1. v.link = f.links[n] /\ v.at = done.at
      OBVIOUS
    <3>2. \A k \in 1..Len(d.listed) : Denotes(done.dims, done.at[k], DimensionPath(f, d.listed[k]))
      BY <1>4, <1>8, <2>4
    <3> HIDE DEF done, v
    <3> QED BY <1>8, <3>1, <3>2 DEF Placed
  <2>6. ~IsScale(f, f.links[n].to)
    BY <1>3, <1>8 DEF IsScale
  <2>7. v.link = f.links[n]
    OBVIOUS
  <2> HIDE DEF done, d, pushed, v
  <2>8. \E w : Append(variables, v) = Append(variables, w) /\ w.link = f.links[n] /\ Placed(f, done.dims, w)
    BY <2>5, <2>7
  <2> QED BY <1>1, <1>2, <1>3, <2>4, <2>6, <2>8, SharedExtends
<1>9. CASE ~IsDimscale(d) /\ d.listed = <<>>
  <2>1. pushed = <<>>
    <3> DEFINE good == {m \in 0..Len(d.listed) : \A k \in 1..m : Obtainable(f, d.listed[k])}
    <3>1. CASE ~check_dimscale(f)
      BY <3>1 DEF Pushed
    <3>2. CASE check_dimscale(f)
      <4>1. pushed = [k \in good \ {0} |-> DimensionPath(f, d.listed[k])]
        BY <1>3, <1>9, <3>2 DEF Pushed
      <4>2. good \ {0} = {}
        <5> HIDE DEF d
        <5>1. Len(d.listed) = 0
          BY <1>9
        <5>2. ASSUME NEW m \in good PROVE m = 0
          BY <5>1
        <5> QED BY <5>2, Zenon
      <4> HIDE DEF good, d, pushed
      <4>3. pushed = [k \in {} |-> DimensionPath(f, d.listed[k])]
        BY <4>1, <4>2
      <4> QED BY <4>3
    <3> QED BY <3>1, <3>2
  <2>2. Len(Names) = 0
    <3> HIDE DEF pushed
    <3>1. Names = <<>> \o LastOf(pushed)
      BY <1>1, <1>2 DEF Names, pushed
    <3>2. LastOf(pushed) = <<>>
      BY <2>1 DEF LastOf
    <3> QED BY <3>1, <3>2
  <2>3. done.dims = dims
    <3>1. Len(Names) # d.rank
      <4> HIDE DEF d
      <4> QED BY <1>3, <1>4, <2>2
    <3> HIDE DEF d, grp
    <3> QED BY <3>1, NoNames
  <2>4. Placed(f, done.dims, v)
    <3>1. v.link = f.links[n]
      OBVIOUS
    <3>2. Len(d.listed) = 0
      <4> HIDE DEF d
      <4> QED BY <1>9
    <3> HIDE DEF done, v
    <3>3. \A k \in 1..Len(d.listed) : Denotes(done.dims, v.at[k], DimensionPath(f, d.listed[k]))
      <4> HIDE DEF d
      <4> QED BY <3>2
    <3> QED BY <1>9, <3>1, <3>3 DEF Placed
  <2>5. ~IsScale(f, f.links[n].to)
    BY <1>3, <1>9 DEF IsScale
  <2>6. v.link = f.links[n]
    OBVIOUS
  <2>7. Extends(dims, dims)
    BY <1>5 DEF Extends, DimsType
  <2> HIDE DEF done, d, pushed, v
  <2>8. \E w : Append(variables, v) = Append(variables, w) /\ w.link = f.links[n] /\ Placed(f, dims, w)
    BY <2>3, <2>4, <2>6
  <2> QED BY <1>1, <1>2, <1>3, <1>5, <2>3, <2>5, <2>7, <2>8, SharedExtends
<1> QED BY <1>7, <1>8, <1>9

\* No request is there yet.
LEMMA SharedInit == Init => SharedInv
BY CleanInit DEF Init, SharedInv

\* Every step keeps SharedInv.
LEMMA SharedStep == SharedInv /\ [Next]_vars => SharedInv'
<1> SUFFICES ASSUME SharedInv, [Next]_vars PROVE SharedInv'
  OBVIOUS
<1> DEFINE Regular == request # None /\ request.clean /\ request.status # "failed" /\ FollowsNetCDF4(request.file)
           Here == Shared(request.file, request.next, dims, variables)
           Within == request # None => request.next <= Len(request.file.links) + 1
<1>1. CleanInv' /\ CleanInv
  BY CleanStep DEF SharedInv
<1>2. Within /\ (Regular => Here)
  BY DEF SharedInv
<1>3. SUFFICES Within' /\ (Regular' => Here')
  BY <1>1 DEF SharedInv
<1>4. request # None => request.file \in File /\ request.next \in Nat \ {0} /\ Len(request.file.links) \in Nat
  BY <1>1, LinksAreSeq DEF CleanInv, RequestType
<1>5. ASSUME LinkLeft, request' = [request EXCEPT !.next = @ + 1]
      PROVE  /\ Within' /\ request.next \in 1..Len(request.file.links)
             /\ request'.file = request.file /\ request'.next = request.next + 1
             /\ Regular' => Regular
  BY <1>1, <1>4, <1>5 DEF LinkLeft, Walking, CleanInv, RequestType
<1>6. ASSUME NEW f \in File, Request(f) PROVE Within' /\ Here'
  <2>1. request'.file = f /\ request'.next = 1 /\ dims' = [g \in f.groups |-> <<>>] /\ variables' = <<>>
    BY <1>6 DEF Request
  <2>2. Len(f.links) \in Nat
    BY LinksAreSeq
  <2>3. Shared(f, 1, [g \in f.groups |-> <<>>], <<>>)
    <3> DEFINE none == [g \in f.groups |-> <<>>]
    <3>1. DimsType(f.groups, none)
      BY DEF DimsType
    <3>2. <<>> \in Seq({}) /\ Len(<<>>) = 0
      OBVIOUS
    <3> HIDE DEF none
    <3>3. 1..(1 - 1) = {} /\ 1..Len(<<>>) = {} /\ \E S : <<>> \in Seq(S)
      BY <3>2
    <3>4. \A i \in 1..(1 - 1) : FALSE
      BY <3>3
    <3>5. \A i \in 1..Len(<<>>) : FALSE
      BY <3>3
    <3>6. \A i \in 1..(1 - 1) : IsScale(f, f.links[i].to) =>
            \E k \in 1..Len(none[f.links[i].group]) : none[f.links[i].group][k] = f.links[i].name
      BY <3>4
    <3>7. \A i \in 1..Len(<<>>) : (\E j \in 1..(1 - 1) : <<>>[i].link = f.links[j]) /\ Placed(f, none, <<>>[i])
      BY <3>5
    <3>8. Shared(f, 1, none, <<>>)
      BY <3>1, <3>3, <3>6, <3>7, Zenon DEF Shared
    <3> QED BY <3>8 DEF none
  <2> QED BY <2>1, <2>2, <2>3
<1>7. ASSUME Regular, PureDim PROVE Here'
  <2> DEFINE l == request.file.links[request.next]
             f == request.file
  <2>1. request.next \in 1..Len(f.links) /\ f \in File
    BY <1>4, <1>5, <1>7 DEF PureDim, Next1
  <2>2. l.group \in f.groups /\ l.name \in STRING /\ DimsType(f.groups, dims)
    BY <1>2, <1>7, <2>1, LinksType DEF Shared
  <2>3. dims[l.group] \in Seq(STRING)
    BY <2>2 DEF DimsType
  <2>4. /\ DimsType(f.groups, dims') /\ Extends(dims, dims')
        /\ \E k \in 1..Len(dims'[l.group]) : dims'[l.group][k] = l.name
    <3>1. CASE l.name \in ToSet(dims[l.group])
      <4>1. dims' = dims
        BY <1>7, <3>1 DEF PureDim, Link
      <4> HIDE DEF l
      <4> QED BY <2>2, <2>3, <3>1, <4>1 DEF ToSet, Extends, DimsType
    <3>2. CASE l.name \notin ToSet(dims[l.group])
      <4>1. dims' = [dims EXCEPT ![l.group] = Append(@, l.name)]
        BY <1>7, <3>2 DEF PureDim, Link
      <4> HIDE DEF l
      <4>2. \A k \in 1..Len(dims[l.group]) : dims[l.group][k] # l.name
        BY <2>3, <3>2 DEF ToSet
      <4>3. /\ DimsType(f.groups, dims') /\ Extends(dims, dims')
            /\ Len(dims'[l.group]) = Len(dims[l.group]) + 1 /\ dims'[l.group][Len(dims'[l.group])] = l.name
        <5> DEFINE e == [dims EXCEPT ![l.group] = Append(@, l.name)]
        <5>1. /\ DimsType(f.groups, e) /\ Extends(dims, e)
              /\ e[l.group] = Append(dims[l.group], l.name)
              /\ Len(e[l.group]) = Len(dims[l.group]) + 1 /\ e[l.group][Len(e[l.group])] = l.name
          BY <2>2, <4>2, AppendName
        <5> HIDE DEF e
        <5> QED BY <4>1, <5>1 DEF e
      <4>4. Len(dims[l.group]) \in Nat
        BY <2>3
      <4> QED BY <4>3, <4>4
    <3> QED BY <3>1, <3>2
  <2>5. Shared(f, request.next + 1, dims', variables')
    BY <1>2, <1>7, <2>1, <2>4, SharedExtends DEF PureDim
  <2> QED BY <1>5, <1>7, <2>5 DEF PureDim, Next1
<1>8. ASSUME Regular, Scalar PROVE Here'
  <2> DEFINE l == request.file.links[request.next]
             f == request.file
             d == f.data[l.to]
             v == [link |-> l, at |-> <<>>]
  <2>1. request.next \in 1..Len(f.links) /\ f \in File
    BY <1>4, <1>5, <1>8 DEF Scalar, CanBeMade, Next1
  <2>2. d.rank = 0 /\ variables' = Append(variables, v) /\ dims' = dims
    BY <1>8 DEF Scalar, Data, Link
  <2>3. Len(d.listed) = 0
    <3>1. l.to \in DOMAIN f.data
      BY <2>1, LinksType
    <3>2. Len(d.listed) = 0 \/ d.listed = <<>>
      BY <2>1, <2>2, <3>1, DataType
    <3> HIDE DEF d
    <3> QED BY <3>2
  <2>4. ~IsDimscale(d) /\ ~IsPureDim(d)
    BY <2>2 DEF IsDimscale, IsPureDim
  <2>5. v.link = l
    OBVIOUS
  <2> HIDE DEF v
  <2>6. Placed(f, dims, v)
    <3>1. \A k \in 1..Len(d.listed) : Denotes(dims, v.at[k], DimensionPath(f, d.listed[k]))
      BY <2>3
    <3> QED BY <2>4, <2>5, <3>1 DEF Placed
  <2>7. DimsType(f.groups, dims) /\ Extends(dims, dims)
    BY <1>2, <1>8 DEF Shared, DimsType, Extends
  <2>8. \E w : Append(variables, v) = Append(variables, w) /\ w.link = l /\ Placed(f, dims, w)
    BY <2>5, <2>6
  <2>9. ~IsScale(f, l.to)
    BY <2>4 DEF IsScale
  <2> HIDE DEF d
  <2>10. Shared(f, request.next + 1, dims', variables')
    BY <1>2, <1>8, <2>1, <2>2, <2>7, <2>8, <2>9, SharedExtends
  <2> QED BY <1>5, <1>8, <2>10 DEF Scalar, CanBeMade, Next1
<1>9. ASSUME Regular, Array PROVE Here'
  BY <1>5, <1>9, ArrayShared DEF Array, CanBeMade, Next1
<1>10. CASE PureDim \/ Scalar \/ Array
  <2>1. LinkLeft /\ request' = [request EXCEPT !.next = @ + 1]
    BY <1>10 DEF PureDim, Scalar, Array, CanBeMade, Next1
  <2> QED BY <1>5, <1>7, <1>8, <1>9, <1>10, <2>1
<1>11. CASE RefuseType \/ NoVariable \/ ArrayThrows
  <2>1. Walking /\ request' = [request EXCEPT !.status = "failed"]
    BY <1>11 DEF RefuseType, NoVariable, ArrayThrows, CanBeMade, LinkLeft, Fail
  <2> QED BY <1>1, <1>2, <2>1 DEF Walking, CleanInv, RequestType
<1>12. CASE Respond
  <2>1. Walking /\ request' = [request EXCEPT !.status = "done"] /\ UNCHANGED <<dims, variables>>
    BY <1>12 DEF Respond
  <2> QED BY <1>1, <1>2, <2>1 DEF Walking, CleanInv, RequestType
<1>13. CASE NewProcess \/ ArrayUndefined
  BY <1>13 DEF NewProcess, ArrayUndefined
<1>14. CASE UNCHANGED vars
  BY <1>2, <1>14 DEF vars
<1> QED BY <1>6, <1>10, <1>11, <1>12, <1>13, <1>14 DEF Next, Handle

\* In the DMR of a file that follows the netCDF-4 model two dimensions are one exactly
\* when they are one in the file, whatever the file, and no group has two of one name
\* (h5dims_transform_to_dap4, HDF5Array.cc).
THEOREM SharedTheorem == Spec => []DimensionsShared
<1>1. SharedInv => DimensionsShared
  BY SharedImplies DEF DimensionsShared
<1> QED BY SharedInit, SharedStep, <1>1, PTL DEF Spec
==============================================================================
