------------------------------ MODULE Hyperslab ------------------------------
(***************************************************************************)
(* The arithmetic of a constraint expression: which elements of an array,  *)
(* stored row by row in a buffer, a file or a formula, a request gets and  *)
(* in which order.  A selection has one record [start, stride, stop] for   *)
(* each dimension, as libdap hands it out; an element is represented by    *)
(* its place in the whole array, counted from 0, so that what an operator  *)
(* returns tells where it has read.                                        *)
(*                                                                         *)
(* A definition called Mutant<D> is D with a plausible bug; no other       *)
(* definition uses it.                                                     *)
(***************************************************************************)
EXTENDS Integers, SequencesExt, Subsequences

Positive == Nat \ {0}

\* A dimension of a selection that format_constraint does not reject.
Legal(s) == s \in [start : Nat, stride : Positive, stop : Nat] /\ s.start <= s.stop

\* Such a selection, of an array whose dimensions are not empty; that it ends within
\* the array is what libdap checks of a constraint.
LegalSelection(dims, sel) ==
    /\ dims \in Seq(Positive) /\ sel \in Seq([start : Nat, stride : Positive, stop : Nat])
    /\ Len(sel) = Len(dims)
    /\ \A d \in 1..Len(dims) : Legal(sel[d]) /\ sel[d].stop < dims[d]

------------------------------------------------------------------------------
(***************************************************************************)
(* What the selection means, independently of the code.                    *)
(***************************************************************************)

\* The product of numbers, of none 1.
Product(numbers) ==
    LET upto[d \in 0..Len(numbers)] == IF d = 0 THEN 1 ELSE upto[d - 1] * numbers[d]
    IN upto[Len(numbers)]

\* The place in dimension d of element e.
Coordinate(dims, d, e) == (e \div Product([j \in DOMAIN dims |-> IF j > d THEN dims[j] ELSE 1])) % dims[d]

\* The sequence of all elements.
Elements(dims) == [i \in 1..Product(dims) |-> i - 1]

\* A selection selects an element when it does in every dimension.
Selects(dims, sel, e) ==
    \A d \in DOMAIN dims : LET p == Coordinate(dims, d, e) IN
        /\ p \in sel[d].start..sel[d].stop
        /\ (p - sel[d].start) % sel[d].stride = 0

\* All of them, and a sequence that has the members of a set of numbers in order.
Selection(dims, sel) == {e \in 0..(Product(dims) - 1) : Selects(dims, sel, e)}
Lists(s, S) == ToSet(s) = S /\ \A i, j \in DOMAIN s : i < j => s[i] < s[j]

\* The selected elements, in their order in the array.
Selected(dims, sel) ==
    LET all == Elements(dims) IN ElementsAt(all, {i \in DOMAIN all : Selects(dims, sel, all[i])})

------------------------------------------------------------------------------
(***************************************************************************)
(* The code.                                                               *)
(***************************************************************************)

Offset(sel) == [d \in DOMAIN sel |-> sel[d].start]
Step(sel)   == [d \in DOMAIN sel |-> sel[d].stride]

\* The number of elements in each dimension, and in all.
Count(sel) == [d \in DOMAIN sel |-> (sel[d].stop - sel[d].start) \div sel[d].stride + 1]
Nels(sel)  == Product(Count(sel))

\* The elements between two neighbours in dimension p.
Weight(dims, p) == Product([j \in DOMAIN dims |-> IF j > p THEN dims[j] ELSE 1])

INDEX_nD_TO_1D(dims, pos) ==
    LET sum[p \in 0..Len(pos)] == IF p = 0 THEN 0 ELSE sum[p - 1] + Weight(dims, p) * pos[p]
    IN sum[Len(pos)]

\* The positions the nested loops of subset visit: the loop of dimension r runs
\* edge[r] times for each turn of the loops around it.
Visited(start, stride, edge) ==
    LET upto[r \in 0..Len(start)] ==
          IF r = 0 THEN << <<>> >>
          ELSE [i \in 1..(Len(upto[r - 1]) * edge[r]) |->
                 Append(upto[r - 1][(i - 1) \div edge[r] + 1], start[r] + ((i - 1) % edge[r]) * stride[r])]
    IN upto[Len(start)]

\* subset reads beyond its buffer when the buffer is too short: 0 - 1 stands for
\* what it finds there.
At(buf, place) == IF place < Len(buf) THEN buf[place + 1] ELSE -1

subset(buf, dims, start, stride, edge) ==
    LET visited == Visited(start, stride, edge) IN
    [i \in DOMAIN visited |-> At(buf, INDEX_nD_TO_1D(dims, visited[i]))]

\* A request that finds the whole array in a memory cache.
FromMemory(dims, sel) == subset(Elements(dims), dims, Offset(sel), Step(sel), Count(sel))

MutantFromDisk(dims, sel) ==
    LET first == INDEX_nD_TO_1D(dims, Offset(sel))
        end   == [d \in DOMAIN sel |-> sel[d].start + (Count(sel)[d] - 1) * sel[d].stride]
        last  == INDEX_nD_TO_1D(dims, end)
        buf   == SubSeq(Elements(dims), first + 1, last + 1) IN
    IF Nels(sel) = last - first + 1
    THEN buf
    ELSE subset(buf, dims, Offset(sel), Step(sel), Count(sel))

\* A request that reads a cache file, from the first element it wants to the
\* last: all of that is what it wants, or the rest is dropped.
FromDisk(dims, sel) ==
    LET first == INDEX_nD_TO_1D(dims, Offset(sel))
        end   == [d \in DOMAIN sel |-> sel[d].start + (Count(sel)[d] - 1) * sel[d].stride]
        last  == INDEX_nD_TO_1D(dims, end)
        buf   == SubSeq(Elements(dims), first + 1, last + 1) IN
    IF Nels(sel) = last - first + 1
    THEN buf
    ELSE subset(buf, dims, [d \in DOMAIN sel |-> 0], Step(sel), Count(sel))

MutantFromLatLonFile(dims, sel, lon) ==
    LET n == Product(dims)
        value == [i \in 1..n |-> IF lon THEN n + i - 1 ELSE i - 1] IN
    IF Nels(sel) >= n - 1
    THEN value
    ELSE subset(value, dims, Offset(sel), Step(sel), Count(sel))

\* The latitude of a projected grid fills the first half of its cache file and
\* the longitude the second; a request for all of one skips subset.
FromLatLonFile(dims, sel, lon) ==
    LET n == Product(dims)
        value == [i \in 1..n |-> IF lon THEN n + i - 1 ELSE i - 1] IN
    IF Nels(sel) = n
    THEN value
    ELSE subset(value, dims, Offset(sel), Step(sel), Count(sel))

\* The natural numbers of a dimension without a coordinate variable.
NaturalNumbers(sel, tnumelm) ==
    IF Nels(sel) = tnumelm
    THEN [i \in 1..Nels(sel) |-> i - 1]
    ELSE [i \in 1..Nels(sel) |-> Offset(sel)[1] + Step(sel)[1] * (i - 1)]
==============================================================================
