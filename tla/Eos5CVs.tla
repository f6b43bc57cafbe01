------------------------------- MODULE Eos5CVs -------------------------------
(***************************************************************************)
(* Coordinate variables of an HDF-EOS5 file under the CF option            *)
(* (EOS5File::Handle_CVar): which variables of the file serve as           *)
(* coordinates of which dimension, which are made up, and which grids and  *)
(* swaths are given up.                                                    *)
(*                                                                         *)
(* The file is a record: objects (eos5cfgrids, eos5cfswaths, eos5cfzas),   *)
(* vars, cvars, multi (grids_multi_latloncvs), aura (aura_name, or "none") *)
(* and failed, whether a function has thrown.  A variable has path, type,  *)
(* newname, dims, coordinates, and, as a coordinate variable, role         *)
(* (its cvartype: "exist", "lat" and "lon" for CV_LAT_MISS and             *)
(* CV_LON_MISS, "miss" for CV_NONLATLON_MISS), cfdimname and ll2d          *)
(* (is_2dlatlon).  The vertical coordinate of TES swaths is left out.      *)
(***************************************************************************)
EXTENDS Eos5Dims

OfType(f, type) == SelectSeq(f.objects, LAMBDA o : o.type = type)
Grids(f) == OfType(f, "GRIDS")

\* The variable is in the group of the object itself, as augmentation puts it.
Check_Augmented_Var_Candidate(o, v) == Belongs(v, o) /\ Len(v.path) = 5

Check_Augmentation_Status(f) ==
    \A o \in Range(f.objects) : \E v \in Range(f.vars) : Check_Augmented_Var_Candidate(o, v)

\* The variables at these places become coordinate variables of a dimension,
\* that at place i of dim[i].
Promote(f, places, dim, ll2d) ==
    LET cv(i) == [f.vars[i] EXCEPT !.role = "exist", !.cfdimname = dim[i], !.ll2d = ll2d] IN
    [f EXCEPT !.cvars = @ \o [k \in DOMAIN places |-> cv(places[k])],
              !.vars = ElementsAt(@, DOMAIN @ \ Range(places))]

\* The places of variables, in order.
Places(vars, Test(_)) == SelectSeq([i \in DOMAIN vars |-> i], LAMBDA i : Test(vars[i]))
FirstOf(places) == SubSeq(places, 1, Min({1, Len(places)}))

Covered(f) == {c.cfdimname : c \in Range(f.cvars)}

\* A coordinate variable made for the object.
Added(o, name, role, dims, dimname) ==
    [path |-> << <<>>, <<"HDFEOS">>, <<o.type>>, o.name, name >>, type |-> "num",
     newname |-> DimPath(o, name), dims |-> dims, coordinates |-> <<>>,
     role |-> role, cfdimname |-> dimname, ll2d |-> FALSE]

\* The dimension of the object, as the coordinate variables made for it have it.
DimOf(o, path, alone) == [size |-> o.sizes[path], name |-> path, newname |-> ShortIf(alone, path)]

Create_Missing_CV(o, path, alone) == Added(o, Last(path), "miss", <<DimOf(o, path, alone)>>, path)

------------------------------------------------------------------------------
(***************************************************************************)
(* Augmented files: a variable with the name of each dimension.            *)
(***************************************************************************)

\* A dimension that some variable uses and that has none is an error.
Handle_Single_Augment_CVar(f, o) ==
    LET promote(g, path) ==
          Promote(g, Places(g.vars, LAMBDA v : Check_Augmented_Var_Candidate(o, v) /\ NameOf(v.path) = Last(path)),
                  [i \in DOMAIN g.vars |-> path], FALSE)
        checked(g) == [g EXCEPT !.failed = @ \/ ~(o.vardimnames \subseteq Covered(g))]
    IN checked(FoldLeft(promote, f, InOrder(o, o.vardimnames)))

------------------------------------------------------------------------------
(***************************************************************************)
(* Other files: fields with one dimension, and made up ones for the rest.  *)
(***************************************************************************)

\* The fields over one dimension, in the order of the dimensions that are left,
\* until as many are found as there are dimensions.
PromoteFields(f, o, left) ==
    LET order == InOrder(o, left \cap DOMAIN o.fields)
        fields == FlattenSeq([k \in DOMAIN order |->
          Places(f.vars, LAMBDA v : Get_Var_EOS5_Type(v) = o.type /\ v.newname = o.fields[order[k]])])
        owner == [i \in Range(fields) |-> OneOf({p \in DOMAIN o.fields : o.fields[p] = f.vars[i].newname})]
    IN Promote(f, SubSeq(fields, 1, Min({Len(fields), Cardinality(left)})), owner, FALSE)

WithMissing(f, o, missing, alone) ==
    [f EXCEPT !.cvars = @ \o [k \in DOMAIN missing |-> Create_Missing_CV(o, missing[k], alone)]]

\* Fields first; a dimension still without coordinate variable gets one made.
Handle_NonLatLon_CVar(f, o, left, alone) ==
    LET rest(g) == WithMissing(g, o, InOrder(o, left \ Covered(g)), alone)
    IN rest(PromoteFields(f, o, left))

------------------------------------------------------------------------------
(***************************************************************************)
(* Grids.                                                                  *)
(***************************************************************************)

\* Grids with 2-D fields for latitude and longitude are given up, but those of
\* OMI with a geographic projection lose the fields instead.
Remove_MultiDim_LatLon_EOS5CFGrid(f) ==
    LET two == {k \in DOMAIN f.objects : f.objects[k].type = "GRIDS" /\ f.objects[k].latlon = "2d"}
        redundant == {k \in two : f.aura = "OMI" /\ f.objects[k].proj = "GEO"}
        fields(k) == Places(f.vars, LAMBDA v : Belongs(v, f.objects[k]) /\ NameOf(v.path) \in {Latitude, Longitude})
        removed(k) == SubSeq(fields(k), 1, Min({2, Len(fields(k))}))
        gone == (two \ redundant) \cup {k \in DOMAIN f.objects : f.objects[k].type = "GRIDS" /\ f.objects[k].latlon = "g2d"}
        kept == [k \in DOMAIN f.objects |-> IF k \in redundant /\ Len(removed(k)) = 2
                                            THEN [f.objects[k] EXCEPT !.latlon = "no"] ELSE f.objects[k]]
    IN [f EXCEPT !.objects = ElementsAt(kept, DOMAIN @ \ gone),
                 !.vars = ElementsAt(@, DOMAIN @ \ UNION {Range(removed(k)) : k \in redundant})]

\* Latitude over YDim and Longitude over XDim, if the grid has them.
Handle_Single_Nonaugment_Grid_CVar_OwnLatLon(f, o) ==
    LET own(g, name, axis) ==
          FirstOf(Places(g.vars, LAMBDA v : Belongs(v, o) /\ NameOf(v.path) = name /\ Last(v.dims[1].name) = axis))
        over(g, axis) == [i \in DOMAIN g.vars |-> DimPath(o, axis)]
        lat == own(f, Latitude, YDim)
        lon(g) == Promote(g, own(g, Longitude, XDim), over(g, XDim), FALSE)
    IN [file |-> lon(Promote(f, lat, over(f, YDim), FALSE)),
        done |-> lat # <<>> /\ own(f, Longitude, XDim) # <<>>]

\* lat and lon computed from the projection: 1-D for a geographic one, 2-D for
\* the others.  A dimension that is not left is not known to the other one.
Handle_Single_Nonaugment_Grid_CVar_EOS5LatLon(f, o, left) ==
    LET x == DimPath(o, XDim)
        y == DimPath(o, YDim)
        alone == Len(Grids(f)) = 1
        dim(path) == IF path \in left THEN DimOf(o, path, alone)
                     ELSE [size |-> IF path \in DOMAIN o.sizes THEN o.sizes[path] ELSE 0, name |-> <<>>,
                           newname |-> IF alone THEN <<Last(path)>> ELSE <<>>]
        two == o.proj # "GEO"
        lon == Added(o, <<"lon">>, "lon", IF two THEN <<dim(y), dim(x)>> ELSE <<dim(x)>>, x)
        lat == Added(o, <<"lat">>, "lat", IF two THEN <<dim(y), dim(x)>> ELSE <<dim(y)>>, y)
    IN [file |-> [f EXCEPT !.cvars = @ \o (IF x \in left THEN <<lon>> ELSE <<>>)
                                       \o (IF y \in left THEN <<lat>> ELSE <<>>)],
        done |-> {x, y} \subseteq left]

\* The fields of the grid; if they do not do, computed ones; without either the
\* other dimensions get nothing.
Handle_LatLon_Grid_CVar(f, o, try_own) ==
    LET own == Handle_Single_Nonaugment_Grid_CVar_OwnLatLon(f, o)
        first == IF try_own THEN own ELSE [file |-> f, done |-> FALSE]
        computed(g) == Handle_Single_Nonaugment_Grid_CVar_EOS5LatLon(g, o, o.vardimnames \ Covered(g))
    IN IF first.done THEN first ELSE computed(first.file)

RestOfGrid(f, o) == Handle_NonLatLon_CVar(f, o, o.vardimnames \ Covered(f), Len(Grids(f)) = 1)

Handle_Single_Nonaugment_Grid_CVar(f, o) ==
    LET made == Handle_LatLon_Grid_CVar(f, o, o.latlon = "1d")
    IN IF made.done THEN RestOfGrid(made.file, o) ELSE made.file

\* The axes of all grids are those of the first one.
Adjust_EOS5GridDimNames(f, o) ==
    LET axes == {XDim, YDim}
        shared(d) == IF d.name # <<>> /\ Last(d.name) \in axes THEN [d EXCEPT !.name = DimPath(o, Last(@))] ELSE d
        adjusted(v) == [v EXCEPT !.dims = [i \in DOMAIN @ |-> shared(@[i])]]
    IN IF \A a \in axes : DimPath(o, a) \in o.vardimnames
       THEN [f EXCEPT !.vars = [i \in DOMAIN @ |-> IF Get_Var_EOS5_Type(@[i]) = "GRIDS" THEN adjusted(@[i]) ELSE @[i]]]
       ELSE [f EXCEPT !.failed = TRUE]

\* One latitude and one longitude for all grids, those of the first one.
Share(f) ==
    LET grids == Grids(f)
        made == Handle_LatLon_Grid_CVar(f, grids[1], grids[1].latlon = "1d")
        updated(o) == [o EXCEPT !.vardimnames = {p \in @ : Last(p) \notin {XDim, YDim}}]
        others(g) ==
          [g EXCEPT !.objects = [k \in DOMAIN @ |->
             IF @[k].type = "GRIDS" /\ @[k].name # grids[1].name THEN updated(@[k]) ELSE @[k]]]
    IN IF made.done
       THEN FoldLeft(LAMBDA g, o : RestOfGrid(g, updated(o)),
                     Adjust_EOS5GridDimNames(others(RestOfGrid(made.file, grids[1])), grids[1]), Tail(grids))
       ELSE made.file

\* Grids with one layout share their coordinates, unless only some of them have
\* fields for latitude and longitude.
Handle_Multi_Nonaugment_Grid_CVar(f) ==
    LET grids == Grids(f)
        own == {k \in DOMAIN grids : grids[k].latlon = "1d"}
    IN IF ~f.multi /\ (own = {} \/ (own = DOMAIN grids /\ f.aura # "none")) THEN Share(f)
       ELSE FoldLeft(Handle_Single_Nonaugment_Grid_CVar, [f EXCEPT !.multi = TRUE], grids)

Handle_Nonaugment_Grid_CVar(f) ==
    CASE Grids(f) = <<>> -> f
      [] Len(Grids(f)) = 1 -> Handle_Single_Nonaugment_Grid_CVar(f, Grids(f)[1])
      [] OTHER -> Handle_Multi_Nonaugment_Grid_CVar(f)

Handle_Grid_CVar(f, augmented) ==
    CASE Grids(f) = <<>> -> f
      [] Grids(f) # <<>> /\ augmented -> FoldLeft(Handle_Single_Augment_CVar, f, Grids(f))
      [] OTHER -> Handle_Nonaugment_Grid_CVar(Remove_MultiDim_LatLon_EOS5CFGrid(f))

------------------------------------------------------------------------------
(***************************************************************************)
(* Swaths and zonal averages.                                              *)
(***************************************************************************)

\* The variables that augmentation has put into the group of the swath go.
WithoutAugmented(f, o, augmented) ==
    IF augmented THEN [f EXCEPT !.vars = SelectSeq(@, LAMBDA v : ~Check_Augmented_Var_Candidate(o, v))] ELSE f

\* A 1-D latitude is the coordinate of its dimension; 2-D fields are those of
\* their first and their second dimension.
Handle_Single_LatLon_Swath_CVar(f, o, augmented) ==
    LET ll == Places(f.vars, LAMBDA v : Belongs(v, o) /\ NameOf(v.path) \in {Latitude, Longitude})
        name(i) == NameOf(f.vars[i].path)
        both(k) == {Latitude, Longitude} \subseteq {name(ll[j]) : j \in 1..(k - 1)}
        chosen == IF o.latlon = "1d" THEN FirstOf(SelectSeq(ll, LAMBDA i : name(i) = Latitude))
                  ELSE ElementsAt(ll, {k \in DOMAIN ll : ~both(k)})
        dim == [i \in DOMAIN f.vars |->
          IF i \notin Range(ll) THEN <<>> ELSE f.vars[i].dims[IF name(i) = Latitude THEN 1 ELSE 2].name]
        rest(g) == Handle_NonLatLon_CVar(g, o, o.vardimnames \ {c.cfdimname : c \in
                     {d \in Range(g.cvars) : NameOf(d.path) \in {Latitude, Longitude}}}, Len(OfType(f, "SWATHS")) = 1)
    IN WithoutAugmented(rest(Promote(f, chosen, [i \in Range(chosen) |-> dim[i]], o.latlon = "2d")), o, augmented)

\* A swath without both is given up, and is not counted any more.
Handle_Swath_CVar(f, augmented) ==
    FoldLeft(LAMBDA g, o :
               IF o.latlon \in {"1d", "2d"} THEN Handle_Single_LatLon_Swath_CVar(g, o, augmented)
               ELSE [g EXCEPT !.objects = SelectSeq(@, LAMBDA p : ~(p.type = "SWATHS" /\ p.name = o.name))],
             f, OfType(f, "SWATHS"))

Handle_Za_CVar(f, augmented) ==
    IF augmented THEN FoldLeft(Handle_Single_Augment_CVar, f, OfType(f, "ZAS")) ELSE f

Handle_CVar(f) ==
    LET augmented == Check_Augmentation_Status(f)
        grids == Handle_Grid_CVar(f, augmented)
    IN Handle_Za_CVar(Handle_Swath_CVar(grids, augmented), augmented)

=============================================================================
