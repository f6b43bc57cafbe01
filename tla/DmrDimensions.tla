---------------------------- MODULE DmrDimensions ----------------------------
(***************************************************************************)
(* The dimensions of a DMR of the default option.  breadth_first (h5dmr.cc)*)
(* goes through the groups of a file, in each first through the datasets.  *)
(* get_dataset_dmr (h5get.cc) writes the names and paths of a dataset's    *)
(* dimensions, which are datasets themselves, into dt_inst, a structure    *)
(* that lives as long as the BES process; read_objects makes the variable  *)
(* of them, and h5dims_transform_to_dap4 (HDF5Array.cc) finds or makes the *)
(* dimensions in the groups of the DMR.                                    *)
(*                                                                         *)
(* An action handles one dataset.  A path is the sequence of its names.    *)
(* Left out: the sizes, which dimensions of one file are taken to agree    *)
(* on; soft links; groups with two hard links (see GroupWalk); hdf5_hls,   *)
(* which only remembers, for a request, what shortest_hl is; and the       *)
(* memory cache of DMRs (see RequestHandler).  Handling dimensions is      *)
(* switched on.                                                            *)
(*                                                                         *)
(* A definition called Mutant<D> is D with a plausible bug; no other       *)
(* definition uses it.                                                     *)
(***************************************************************************)
EXTENDS Naturals, SequencesExt

CONSTANTS
    File,       \* the files that are served
    MaxLeft,    \* bound on the names left in dt_inst when a request comes
    None        \* no dataset, no request

(***************************************************************************)
(* links lists the hard links to datasets in the order of breadth_first,   *)
(* which comes to a group before it comes to the groups in it; the names   *)
(* in a group are different. A dataset has a rank; a DIMENSION_LIST, which *)
(* is empty or as long; a CLASS that may say DIMENSION_SCALE; marks, what  *)
(* attr_info_dimscale finds; and a type: of one value, compound or not, an *)
(* array, or one that the handler refuses.                                 *)
(***************************************************************************)
Dataset(address) ==
    [rank : Nat, listed : Seq(address \cup {None}), scale : BOOLEAN,
     marks : SUBSET {"REFERENCE_LIST", "pure", "named"}, type : {"value", "array", "refused"}]

ASSUME FileAssumption ==
    \A f \in File :
      /\ f.data \in [DOMAIN f.data -> Dataset(DOMAIN f.data)]
      /\ \A a \in DOMAIN f.data : f.data[a].listed = <<>> \/ Len(f.data[a].listed) = f.data[a].rank
      /\ f.links \in Seq([group : f.groups, name : STRING, to : DOMAIN f.data])
      /\ \A a \in DOMAIN f.data : \E i \in DOMAIN f.links : f.links[i].to = a
      /\ f.groups \subseteq Seq(STRING) /\ None \notin f.groups
      /\ \A i, j \in DOMAIN f.links :
           /\ f.links[i].group = f.links[j].group /\ f.links[i].name = f.links[j].name => i = j
           /\ IsStrictPrefix(f.links[i].group, f.links[j].group) => i < j
ASSUME BoundAssumption == MaxLeft \in Nat

VARIABLES
    dimnames, dimnames_path,    \* of dt_inst
    request,                    \* the last request, or None
    dims,                       \* the names of the dimensions of each D4Group
    variables                   \* of the DMR: a link and its dimensions

vars == <<dimnames, dimnames_path, request, dims, variables>>

\* The dimension of a variable that has only a size.
NoName == <<>>

------------------------------------------------------------------------------
(***************************************************************************)
(* What get_dataset_dmr finds out about a dataset.                         *)
(***************************************************************************)

\* Whether the file has dimension scales at all.
check_dimscale(f) == \E a \in DOMAIN f.data : f.data[a].rank = 1 /\ f.data[a].scale

Path(l) == Append(l.group, l.name)

IsDimscale(d) ==
    /\ d.rank = 1 /\ d.scale
    /\ \/ "REFERENCE_LIST" \in d.marks /\ "pure" \notin d.marks
       \/ "named" \in d.marks

IsPureDim(d) == d.rank = 1 /\ d.scale /\ ~IsDimscale(d) /\ "pure" \in d.marks

\* The links to a dataset.
LinksTo(f, a) == {i \in DOMAIN f.links : f.links[i].to = a}

\* Those in a group that is an ancestor of the groups of all of them.
Shortest(f, a) ==
    {i \in LinksTo(f, a) : \A j \in LinksTo(f, a) : IsPrefix(f.links[i].group, f.links[j].group)}

\* The path of a dimension: the shortest hard link, if it is above all others.
DimensionPath(f, a) == Path(f.links[Min(Shortest(f, a))])

\* obtain_dimnames throws at an entry that is missing or has no such path.
Obtainable(f, a) == a # None /\ Shortest(f, a) # {}

\* The paths that are added to dt_inst before anything is thrown.
Pushed(f, l) ==
    LET d == f.data[l.to] IN
    IF ~check_dimscale(f) \/ IsPureDim(d) THEN <<>>
    ELSE IF IsDimscale(d) THEN <<Path(l)>>
    ELSE LET good == {n \in 0..Len(d.listed) : \A k \in 1..n : Obtainable(f, d.listed[k])} IN
         [k \in good \ {0} |-> DimensionPath(f, d.listed[k])]

\* Whether obtain_dimnames gets to its end.
AllObtained(f, l) ==
    LET d == f.data[l.to] IN
    check_dimscale(f) /\ ~IsDimscale(d) /\ ~IsPureDim(d)
      => \A k \in DOMAIN d.listed : Obtainable(f, d.listed[k])

------------------------------------------------------------------------------
(***************************************************************************)
(* h5dims_transform_to_dap4: the dimensions of a variable of group grp.    *)
(* The loop goes up from grp until it comes to a group that is no ancestor *)
(* and no descendant of the dimension's, which it can only do at grp, or   *)
(* to the dimension's group if that has the name already.                  *)
(***************************************************************************)

Related(grp, path) == IsPrefix(Front(path), grp) \/ IsPrefix(grp, Front(path))

MutantFoundIn(made, grp, name, path) ==
    IF name \in ToSet(made[grp]) THEN grp ELSE IF name \in ToSet(made[Front(path)]) THEN Front(path) ELSE None

\* The group where the dimension is found.
FoundIn(made, grp, name, path) ==
    IF IsPrefix(Front(path), grp) /\ name \in ToSet(made[Front(path)]) THEN Front(path) ELSE None

\* The place of a name that is in a list.
FirstAt(list, name) == Min({k \in DOMAIN list : list[k] = name})

\* One turn of the loop over the dimensions.
Transform(so, grp, name, path) ==
    IF so.outcome # "ok" THEN so
    ELSE IF path = None THEN [so EXCEPT !.outcome = "undefined"]
    ELSE IF ~Related(grp, path) THEN [so EXCEPT !.outcome = "thrown"]
    ELSE LET g == FoundIn(so.dims, grp, name, path) IN
         IF g # None
         THEN [so EXCEPT !.at = Append(@, <<g, FirstAt(so.dims[g], name)>>)]
         ELSE [so EXCEPT !.dims[grp] = Append(@, name),
                         !.at = Append(@, <<grp, Len(so.dims[grp]) + 1>>)]

\* The dimensions are unnamed when dt_inst has more or fewer names than the array
\* has dimensions; a path beyond the end of dimnames_path is undefined.
h5dims_transform_to_dap4(made, grp, rank, names, paths) ==
    LET start == [outcome |-> "ok", dims |-> made, at |-> <<>>]
        turn[k \in 0..rank] ==
          IF k = 0 THEN start
          ELSE Transform(turn[k - 1], grp, names[k], IF k \in DOMAIN paths THEN paths[k] ELSE None) IN
    IF Len(names) = rank THEN turn[rank]
    ELSE [start EXCEPT !.at = [k \in 1..rank |-> NoName]]

------------------------------------------------------------------------------
(***************************************************************************)
(* The walk.                                                               *)
(***************************************************************************)

Walking  == request # None /\ request.status = "walking"
LinkLeft == Walking /\ request.next <= Len(request.file.links)
Link     == request.file.links[request.next]
Data     == request.file.data[Link.to]

Init ==
    /\ dimnames = <<>> /\ dimnames_path = <<>>
    /\ request = None
    /\ dims = <<>> /\ variables = <<>>

\* A request for the DMR of a file.
Request(f) ==
    /\ ~Walking
    /\ Len(dimnames) <= MaxLeft /\ Len(dimnames_path) <= MaxLeft
    /\ request' = [file |-> f, next |-> 1, status |-> "walking",
                   clean |-> dimnames = <<>> /\ dimnames_path = <<>>]
    /\ dims' = [g \in f.groups |-> <<>>]
    /\ variables' = <<>>
    /\ UNCHANGED <<dimnames, dimnames_path>>

Fail == request' = [request EXCEPT !.status = "failed"]
Next1 == request' = [request EXCEPT !.next = @ + 1]

LastOf(paths) == [k \in DOMAIN paths |-> Last(paths[k])]
Names == dimnames \o LastOf(Pushed(request.file, Link))
Paths == dimnames_path \o Pushed(request.file, Link)

\* The type of a dataset is looked at before its dimensions.
RefuseType ==
    /\ LinkLeft /\ Data.type = "refused"
    /\ Fail
    /\ UNCHANGED <<dimnames, dimnames_path, dims, variables>>

\* A dimension that is none of the variables goes into the group it is in.
PureDim ==
    /\ LinkLeft /\ Data.type # "refused" /\ check_dimscale(request.file) /\ IsPureDim(Data)
    /\ Next1
    /\ dims' = IF Link.name \in ToSet(dims[Link.group]) THEN dims
               ELSE [dims EXCEPT ![Link.group] = Append(@, Link.name)]
    /\ UNCHANGED <<dimnames, dimnames_path, variables>>

IsVariable == Data.type # "refused" /\ ~(check_dimscale(request.file) /\ IsPureDim(Data))

\* A dimension cannot be had, or the type is an array: the names that are in
\* dt_inst by then stay there.
NoVariable ==
    /\ LinkLeft /\ IsVariable
    /\ (Data.type = "array" \/ ~AllObtained(request.file, Link))
    /\ Fail
    /\ dimnames' = Names /\ dimnames_path' = Paths
    /\ UNCHANGED <<dims, variables>>

CanBeMade == LinkLeft /\ IsVariable /\ Data.type # "array" /\ AllObtained(request.file, Link)

\* A scalar has nothing to do with dt_inst.
Scalar ==
    /\ CanBeMade /\ Data.rank = 0
    /\ Next1
    /\ variables' = Append(variables, [link |-> Link, at |-> <<>>])
    /\ UNCHANGED <<dimnames, dimnames_path, dims>>

\* The names are cleared when they have been used.
LeftNames(rank) == IF Len(Names) = rank THEN <<>> ELSE Names

MutantLeftPaths == Paths

\* The paths are cleared when the dimensions have been made.
LeftPaths == <<>>

\* read_objects_base_type or read_objects_structure for an array.
Array ==
    /\ CanBeMade /\ Data.rank > 0
    /\ \E made \in {h5dims_transform_to_dap4(dims, Link.group, Data.rank, Names, Paths)} :
         /\ made.outcome = "ok"
         /\ dims' = made.dims
         /\ variables' = Append(variables, [link |-> Link, at |-> made.at])
    /\ dimnames' = LeftNames(Data.rank) /\ dimnames_path' = LeftPaths
    /\ Next1

\* The same for one that has a dimension on another path: the names have been
\* cleared, the paths have not.
ArrayThrows ==
    /\ CanBeMade /\ Data.rank > 0
    /\ h5dims_transform_to_dap4(dims, Link.group, Data.rank, Names, Paths).outcome = "thrown"
    /\ dimnames' = LeftNames(Data.rank) /\ dimnames_path' = Paths
    /\ Fail
    /\ UNCHANGED <<dims, variables>>

\* The same for one that has a name and no path: the process is taken to die, and
\* the BES to start another.
ArrayUndefined ==
    /\ CanBeMade /\ Data.rank > 0
    /\ h5dims_transform_to_dap4(dims, Link.group, Data.rank, Names, Paths).outcome = "undefined"
    /\ dimnames' = <<>> /\ dimnames_path' = <<>>
    /\ request' = None
    /\ dims' = <<>> /\ variables' = <<>>

\* The walk is through.
Respond ==
    /\ Walking /\ ~LinkLeft
    /\ request' = [request EXCEPT !.status = "done"]
    /\ UNCHANGED <<dimnames, dimnames_path, dims, variables>>

Handle ==
    \/ RefuseType \/ PureDim \/ NoVariable \/ Scalar
    \/ Array \/ ArrayThrows \/ ArrayUndefined \/ Respond

\* The BES ends a process between two requests and starts another.
NewProcess ==
    /\ ~Walking
    /\ dimnames' = <<>> /\ dimnames_path' = <<>>
    /\ request' = None
    /\ dims' = <<>> /\ variables' = <<>>

Next == Handle \/ NewProcess \/ \E f \in File : Request(f)

Spec == Init /\ [][Next]_vars

------------------------------------------------------------------------------
(***************************************************************************)
(* Properties.                                                             *)
(***************************************************************************)

\* A request that found dt_inst empty leaves it empty when it does not fail,
\* whichever datasets it went through (dt_inst, h5dmr.cc).
CleanAfterSuccess ==
    request # None /\ request.clean /\ request.status # "failed" => dimnames = <<>> /\ dimnames_path = <<>>

\* The data model of netCDF-4: dimensions have one dimension and are in the group
\* of a variable that has them or above.
FollowsNetCDF4(f) ==
    \A i \in DOMAIN f.links :
      LET d == f.data[f.links[i].to] IN
      ~IsDimscale(d) =>
        \A k \in DOMAIN d.listed :
          /\ Obtainable(f, d.listed[k])
          /\ (IsDimscale(f.data[d.listed[k]]) \/ IsPureDim(f.data[d.listed[k]]))
          /\ IsPrefix(Front(DimensionPath(f, d.listed[k])), f.links[i].group)

\* The dimensions that the variables of the DMR are to have: a variable, one of
\* its dimensions and the dataset that is that dimension.  Left out is a dimension
\* itself under another link than its shortest.
Wanted(f) ==
    {w \in UNION {{i} \X (1..f.data[variables[i].link.to].rank) \X DOMAIN f.data : i \in DOMAIN variables} :
       LET l == variables[w[1]].link
           d == f.data[l.to] IN
       \/ IsDimscale(d) /\ w[2] = 1 /\ w[3] = l.to /\ Path(l) = DimensionPath(f, l.to)
       \/ ~IsDimscale(d) /\ w[2] \in DOMAIN d.listed /\ w[3] = d.listed[w[2]]}

AtOf(w) == variables[w[1]].at[w[2]]

\* In the DMR of a file that follows the netCDF-4 model two dimensions are one
\* exactly when they are one in the file, in whichever order datasets and
\* dimensions come and wherever else there are dimensions of the same name; and
\* a group has no two dimensions of one name (h5dims_transform_to_dap4).
DimensionsShared ==
    request # None /\ request.status = "done" /\ request.clean /\ FollowsNetCDF4(request.file) =>
      /\ \A u, w \in Wanted(request.file) :
           /\ AtOf(u) # NoName
           /\ (AtOf(u) = AtOf(w)) <=> (u[3] = w[3])
      /\ \A g \in DOMAIN dims : IsInjective(dims[g])

\* What the README says (README:231): HDF5 dimensions that follow the netCDF-4 data
\* model are mapped to DAP4 dimensions.
DimensionsMapped ==
    request # None /\ request.status = "done" /\ FollowsNetCDF4(request.file) =>
      \A w \in Wanted(request.file) : AtOf(w) # NoName
==============================================================================
