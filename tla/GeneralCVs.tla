----------------------------- MODULE GeneralCVs -----------------------------
(***************************************************************************)
(* General HDF5 products under the CF option (GMFile): which kind of       *)
(* product a file is, the names of the dimensions of its variables and     *)
(* which variables become coordinate variables.                            *)
(*                                                                         *)
(* A variable is a record: path; dims, a sequence of records [size,        *)
(* unlimited, name, newname]; scale, what the attributes CLASS, NAME and   *)
(* _Netcdf4Dimid make of it ("none", "class" a dimension scale, "netcdf"   *)
(* one with all three, "dimension" a netCDF dimension that is not a        *)
(* variable); dimlist, the paths the attribute DIMENSION_LIST refers to    *)
(* (<<>> without the attribute, NoScale for an empty reference); units     *)
(* ("lat" degrees_north, "lon" degrees_east, "none"); type; coordinates,   *)
(* the names in that attribute; addpath (coord_attr_add_path), whether no   *)
(* stage has written that attribute; newname; role ("var", or the cvartype  *)
(* of a coordinate variable: "exist", "fill" for CV_FILLINDEX, "miss" for  *)
(* CV_NONLATLON_MISS) and cfdimname.                                       *)
(*                                                                         *)
(* A definition called Mutant<D> is D with a plausible bug; no other       *)
(* definition uses it.                                                     *)
(***************************************************************************)
EXTENDS CFNames

CONSTANTS NameOrder     \* the names dimensions can get, in the order of their strings

ASSUME NameOrderAssumption == NameOrder \in Seq(Paths)

NoScale == <<>>

Rank(v) == Len(v.dims)
Size(v, i) == v.dims[i].size

\* A set of names of dimensions, in the order std::set keeps.
InOrder(names) == Those(NameOrder, LAMBDA n : n \in names)

LatNames == {<<"lat">>, <<"latitude">>, <<"Latitude">>}
LonNames == {<<"lon">>, <<"longitude">>, <<"Longitude">>}

\* A latitude, a longitude, by name or by units.
IsLat(v) == NameOf(v.path) \in LatNames \/ v.units = "lat"
IsLon(v) == NameOf(v.path) \in LonNames \/ v.units = "lon"

------------------------------------------------------------------------------
(***************************************************************************)
(* The pattern of a product.                                               *)
(***************************************************************************)

\* Dimension scales as netCDF-4 writes them: used by a variable, or one that
\* carries all three attributes.
Check_Dimscale_General_Product_Pattern(vars) ==
    /\ \E v \in Range(vars) : v.scale # "none"
    /\ \/ \E v \in Range(vars) : v.dimlist # <<>>
       \/ \E v \in Range(vars) : v.scale \in {"netcdf", "dimension"}

\* The sizes of the variables of this name and rank in the group.
SizesIn(vars, name, group, rank) ==
    {[i \in 1..rank |-> Size(v, i)] :
       v \in {w \in Range(vars) : NameOf(w.path) = name /\ GroupOf(w.path) = group /\ Rank(w) = rank}}

Geolocation == << <<>>, <<"Geolocation">> >>
GeolocationData == << <<>>, <<"GeolocationData">> >>

\* Both in the root group or both in /Geolocation, but not in both groups; or
\* else both in /GeolocationData; with the same sizes.
Check_LatLon2D_General_Product_Pattern_Name_Size(vars, latname, lonname) ==
    LET lat(g) == SizesIn(vars, latname, g, 2)
        lon(g) == SizesIn(vars, lonname, g, 2)
        both(g) == lat(g) # {} /\ lon(g) # {}
        none(g) == lat(g) = {} /\ lon(g) = {}
        same(g) == lat(g) = lon(g) IN
    \/ both(Root) /\ none(Geolocation) /\ same(Root)
    \/ none(Root) /\ both(Geolocation) /\ same(Geolocation)
    \/ /\ ~(both(Root) /\ none(Geolocation))
       /\ ~(none(Root) /\ both(Geolocation))
       /\ both(GeolocationData) /\ same(GeolocationData)

\* The first two variables with one of the names in the two groups; when their
\* sizes agree, a variable with two dimensions of that size must exist.
Check_LatLon1D_General_Product_Pattern_Name_Size(vars, latname, lonname) ==
    LET found == SelectSeq(vars, LAMBDA v : /\ Rank(v) = 1
                                            /\ NameOf(v.path) \in {latname, lonname}
                                            /\ GroupOf(v.path) \in {Root, Geolocation})
        size(name) == LET at == {i \in 1..2 : NameOf(found[i].path) = name}
                      IN IF at = {} THEN 0 ELSE Size(found[Max(at)], 1) IN
    /\ Len(found) >= 2
    /\ \/ size(latname) # size(lonname)
       \/ \E v \in Range(vars) :
            /\ Rank(v) >= 2
            /\ Cardinality({i \in DOMAIN v.dims : Size(v, i) = size(latname)}) >= 2

LatLonNames == << << <<"latitude">>, <<"longitude">> >>, << <<"Latitude">>, <<"Longitude">> >>,
                  << <<"lat">>, <<"lon">> >>, << <<"cell_lat">>, <<"cell_lon">> >> >>

\* A pattern: its kind, the names of the latitude and the longitude of a file
\* without dimension scales, and their pairs when attributes name them.
PatternOf(kind) == [kind |-> kind, lat |-> <<>>, lon |-> <<>>, pairs |-> <<>>]
DIMSCALE == PatternOf("DIMSCALE")
OTHERGMS == PatternOf("OTHERGMS")

\* The first of the names of latitudes and longitudes that are found.
WithFirst(kind, found) ==
    IF found = {} THEN OTHERGMS
    ELSE [PatternOf(kind) EXCEPT !.lat = LatLonNames[Min(found)][1], !.lon = LatLonNames[Min(found)][2]]

Check_LatLon2D_General_Product_Pattern(vars) ==
    WithFirst("LATLON2D", {i \in DOMAIN LatLonNames :
        Check_LatLon2D_General_Product_Pattern_Name_Size(vars, LatLonNames[i][1], LatLonNames[i][2])})

Check_LatLon1D_General_Product_Pattern(vars) ==
    WithFirst("LATLON1D", {i \in DOMAIN LatLonNames :
        Check_LatLon1D_General_Product_Pattern_Name_Size(vars, LatLonNames[i][1], LatLonNames[i][2])})

------------------------------------------------------------------------------
(***************************************************************************)
(* Dimension names.  The result is a record [book, vars].                  *)
(***************************************************************************)

\* All variables, one after the other, each by the given operator.
NameDims(book, vars, Name(_, _)) ==
    LET done[i \in 0..Len(vars)] ==
          IF i = 0 THEN [book |-> book, dims |-> <<>>] ELSE Name(done[i - 1].book, vars[i])
    IN [book |-> done[Len(vars)].book,
        vars |-> [i \in DOMAIN vars |-> [vars[i] EXCEPT !.dims = done[i].dims]]]

\* The names the references give, in the order of the dimensions; each is
\* entered with the size it has here.
Add_UseDimscale_Var_Dim_Names(book, v) ==
    LET entered[i \in 0..Rank(v)] ==
          IF i = 0 THEN book
          ELSE IF v.dimlist[i] = NoScale THEN [entered[i - 1] EXCEPT !.failed = TRUE]
          ELSE Enter(entered[i - 1], v.dimlist[i], v.dims[i])
    IN [book |-> entered[Rank(v)],
        dims |-> [i \in DOMAIN v.dims |-> [v.dims[i] EXCEPT !.name = v.dimlist[i], !.newname = v.dimlist[i]]]]

\* By references; after itself, for a dimension scale; or made up.
Handle_UseDimscale_Var_Dim_Names(book, v) ==
    CASE v.dimlist # <<>> -> Add_UseDimscale_Var_Dim_Names(book, v)
      [] v.dimlist = <<>> /\ v.scale # "none" /\ Rank(v) # 1 ->
           [book |-> [book EXCEPT !.failed = TRUE], dims |-> v.dims]
      [] v.dimlist = <<>> /\ v.scale # "none" /\ Rank(v) = 1 ->
           [book |-> Enter(book, v.path, v.dims[1]),
            dims |-> <<[v.dims[1] EXCEPT !.name = v.path, !.newname = v.path]>>]
      [] OTHER -> Add_FakeDim_Names(book, v.dims)

\* A product without any dimension name is refused.
Add_Dim_Name_Dimscale_General_Product(book, vars) ==
    LET named == NameDims(book, vars, Handle_UseDimscale_Var_Dim_Names) IN
    [named EXCEPT !.book.failed = @ \/ named.book.dimnamelist = {}]

Add_Dim_Name_LatLon1D_Or_CoordAttr(book, vars) ==
    NameDims(book, vars, LAMBDA b, v : Add_FakeDim_Names(b, v.dims))

\* The first two dimensions, in order, with the sizes of the latitude.
LatDimsOf(v, size0, size1) ==
    LET pairs == {p \in (DOMAIN v.dims) \X (DOMAIN v.dims) :
                    p[1] < p[2] /\ Size(v, p[1]) = size0 /\ Size(v, p[2]) = size1}
    IN IF pairs = {} THEN <<>>
       ELSE CHOOSE p \in pairs : \A q \in pairs : p[1] < q[1] \/ (p[1] = q[1] /\ p[2] <= q[2])

\* Those dimensions get the names of the dimensions of the latitude.
ShareLatDims(vars, lat) ==
    LET shared(v, at) ==
          IF at = <<>> THEN v
          ELSE [v EXCEPT !.dims[at[1]].name = lat.dims[1].name, !.dims[at[2]].name = lat.dims[2].name]
    IN [i \in DOMAIN vars |-> shared(vars[i], LatDimsOf(vars[i], Size(lat, 1), Size(lat, 2)))]

\* The names in use are numbered from 0 without gaps.
NumberDims(vars, inuse) ==
    LET final(name) == FakeDim((CHOOSE i \in DOMAIN inuse : inuse[i] = name) - 1)
        numbered(d) == [d EXCEPT !.name = final(d.name), !.newname = final(d.name)]
    IN [i \in DOMAIN vars |->
          [vars[i] EXCEPT !.dims = [j \in DOMAIN @ |-> numbered(@[j])]]]

\* The first dimension of a name gives it its size.
EnterDims(book, vars) ==
    FoldLeft(LAMBDA b, d : Enter(b, d.name, d), book,
             FlattenSeq([i \in DOMAIN vars |-> vars[i].dims]))

\* A latitude that does not have two dimensions is an error.
Add_Dim_Name_LatLon2D_General_Product(book, vars, latname) ==
    LET lats == {i \in DOMAIN vars : NameOf(vars[i].path) = latname}
        inuse(vs) == InOrder(UNION {{d.name : d \in Range(v.dims)} : v \in Range(vs)})
        number(vs) == NumberDims(vs, inuse(vs))
        entered(b, vs) ==
          [book |-> EnterDims([b EXCEPT !.dimnamelist = {}, !.size = <<>>, !.unlimited = <<>>], vs),
           vars |-> vs]
        named(fake) == entered(fake.book, number(ShareLatDims(fake.vars, fake.vars[Max(lats)])))
    IN IF \E i \in lats : Rank(vars[i]) # 2
       THEN [book |-> [book EXCEPT !.failed = TRUE], vars |-> vars]
       ELSE named(Add_Dim_Name_LatLon1D_Or_CoordAttr(book, vars))

------------------------------------------------------------------------------
(***************************************************************************)
(* Coordinate variables.                                                   *)
(***************************************************************************)

\* The variable becomes the coordinate variable of a dimension, or what was one
\* a variable again.
CVOf(v, role, dimname) == [v EXCEPT !.role = role, !.cfdimname = dimname, !.addpath = FALSE]

\* A coordinate variable made for a dimension without one.
Create_Missing_CV(book, dimname) ==
    [path |-> dimname, scale |-> "none", dimlist |-> <<>>, units |-> "none", type |-> "num",
     coordinates |-> <<>>, addpath |-> TRUE, newname |-> dimname, dimnames |-> <<>>, role |-> "miss", cfdimname |-> dimname,
     dims |-> <<[size |-> book.size[dimname], unlimited |-> book.unlimited[dimname],
                 name |-> dimname, newname |-> dimname]>>]

MissingCVs(book, names) ==
    LET order == InOrder(names) IN [i \in DOMAIN order |-> Create_Missing_CV(book, order[i])]

\* The 1-D coordinate variables of the file with these units.
Obtain_1DLatLon_CVs(cvars, units) == {c \in Range(cvars) : c.role = "exist" /\ c.units = units}

\* The file has only 1-D latitudes and longitudes: there is a latitude and
\* no longitude; or both, and nothing says that 2-D ones exist too.
Check_1DGeolocation_Dimscale(vars, cvars, grouped) ==
    LET lats == SelectSeq(cvars, LAMBDA c : c.role = "exist" /\ c.units = "lat")
        lons == SelectSeq(cvars, LAMBDA c : c.role = "exist" /\ c.units = "lon")
        lat == Last(lats).dims[1]
        lon == Last(lons).dims[1]
        two == {v \in Range(vars) : Rank(v) = 2}
        uses(v, d) == \E i \in DOMAIN v.dims : v.dims[i].name = d.name
        pair(Lat(_), Lon(_)) == (\E v \in two : Lat(v)) /\ (\E v \in two : Lon(v)) IN
    /\ lats # <<>>
    /\ CASE lons = <<>> -> TRUE
         [] lons # <<>> /\ ~grouped ->
              lat.size = lon.size =>
                \E v \in Range(vars) : Rank(v) >= 2 /\ uses(v, lat) /\ uses(v, lon) /\ lat.name # lon.name
         [] OTHER ->
              /\ ~pair(LAMBDA v : NameOf(v.path) \in LatNames, LAMBDA v : NameOf(v.path) \in LonNames)
              /\ ~pair(LAMBDA v : v.units = "lat", LAMBDA v : v.units = "lon")

\* The 2-D latitudes and longitudes that do not use a dimension of a 1-D one.
Obtain_2DLLVars_With_Dims_not_1DLLCVars(vars, cvars, units, Is(_)) ==
    Those(vars, LAMBDA v :
      /\ Rank(v) = 2 /\ Is(v)
      /\ \A c \in Obtain_1DLatLon_CVs(cvars, units), i \in 1..2 :
           ~(v.dims[i].name = c.dims[1].name /\ v.dims[i].size = c.dims[1].size))

SameDims(v, w) == \A i \in 1..2 : v.dims[i].name = w.dims[i].name /\ v.dims[i].size = w.dims[i].size

\* Those among others in the group of v with its dimensions.
Partners(v, others) ==
    {w \in Range(others) : GroupOf(w.path) = GroupOf(v.path) /\ SameDims(v, w)}

SharesADim(v, w) == \E i, j \in 1..2 : v.dims[i].name = w.dims[j].name

\* Two candidates share a dimension: only one in a group that encloses the
\* group of the other stays a candidate.
MutantUnique(ll) == {v \in Range(ll) : \E w \in Range(ll) \ {v} :
                       SharesADim(v, w) /\ ~IsPrefix(GroupOf(v.path), GroupOf(w.path))}

Obtain_unique_2dCV(ll) ==
    {v \in Range(ll) : \E w \in Range(ll) \ {v} :
       SharesADim(v, w) /\ ~IsStrictPrefix(GroupOf(v.path), GroupOf(w.path))}

HavingOnePartner(ll, others) == Those(ll, LAMBDA v : Cardinality(Partners(v, others)) = 1)
HavingMany(ll, others) == {v \in Range(ll) : Cardinality(Partners(v, others)) > 1}

\* The final candidates, and the groups where 2-D coordinates were given up.
\* A number of latitudes that is not that of the longitudes is an error.
Obtain_2DLLCVar_Candidate(lats, lons) ==
    LET keep(ll, shared) == Those(ll, LAMBDA v : v \notin shared)
        final(ll1, ll2, given_up) ==
          [lats |-> ll1, lons |-> ll2, failed |-> Len(ll1) # Len(ll2),
           groups |-> {GroupOf(v.path) : v \in given_up}]
        unique(lat, lon, shared) ==
          final(keep(lat, shared), keep(lon, shared),
                HavingMany(lats, lons) \cup HavingMany(lons, lat) \cup shared)
        pairs(lat, lon) == unique(lat, lon, Obtain_unique_2dCV(lat) \cup Obtain_unique_2dCV(lon))
        partners(lat) == pairs(lat, HavingOnePartner(lons, lat))
    IN partners(HavingOnePartner(lats, lons))

MutantReplace(vars, cvars, two, new) ==
    [vars |-> Those(vars, LAMBDA v : v \notin Range(two.lats) \cup Range(two.lons)),
     cvars |-> Those(cvars, LAMBDA c : c.cfdimname \notin {d.cfdimname : d \in Range(new)}) \o new,
     coards |-> two.lats = <<>>, failed |-> two.failed, groups |-> two.groups]

\* The 2-D candidates leave the variables and become coordinate variables;
\* the 1-D coordinate variables of their dimensions go back to the variables,
\* those made for a netCDF dimension disappear.
Replace1DCVs(vars, cvars, two, new) ==
    LET dims2d == {c.cfdimname : c \in Range(new)}
        kept == Those(vars, LAMBDA v : v \notin Range(two.lats) \cup Range(two.lons))
        replaced == Those(cvars, LAMBDA c : c.cfdimname \in dims2d /\ c.role = "exist")
    IN [vars |-> kept \o [i \in DOMAIN replaced |-> CVOf(replaced[i], "var", <<>>)],
        cvars |-> Those(cvars, LAMBDA c : c.cfdimname \notin dims2d) \o new,
        coards |-> two.lats = <<>>, failed |-> two.failed, groups |-> two.groups]

\* A latitude is the coordinate variable of its first dimension, a longitude
\* that of its second.  The coordinate variables that are made for dimensions
\* without a variable are not there yet.
Update_M2DLatLon_Dimscale_CVs(vars, cvars, grouped) ==
    LET lats == Obtain_2DLLVars_With_Dims_not_1DLLCVars(vars, cvars, "lat", IsLat)
        lons == Obtain_2DLLVars_With_Dims_not_1DLLCVars(vars, cvars, "lon", LAMBDA v : IsLon(v) /\ ~IsLat(v))
        new(ll, axis) == [i \in DOMAIN ll |-> CVOf(ll[i], "exist", ll[i].dims[axis].name)]
        replace(two) == Replace1DCVs(vars, cvars, two, new(two.lats, 1) \o new(two.lons, 2))
    IN IF Check_1DGeolocation_Dimscale(vars, cvars, grouped)
       THEN [vars |-> vars, cvars |-> cvars, coards |-> TRUE, failed |-> FALSE, groups |-> {}]
       ELSE replace(Obtain_2DLLCVar_Candidate(lats, lons))

\* Dimension scales become coordinate variables, in the order of the names;
\* then the 2-D ones; then one is made for every name without a variable.
Handle_CVar_Dimscale_General_Product(book, vars, grouped) ==
    LET isScale(v) == v.path \in book.dimnamelist
        scales == {v.path : v \in {w \in Range(vars) : isScale(w)}}
        order == InOrder(scales)
        variable(p) == CHOOSE v \in Range(vars) : v.path = p
        cvs == [i \in DOMAIN order |->
                  CVOf(variable(order[i]),
                       IF variable(order[i]).scale = "dimension" THEN "fill" ELSE "exist", order[i])]
        two == Update_M2DLatLon_Dimscale_CVs(Those(vars, LAMBDA v : ~isScale(v)), cvs, grouped)
    IN [two EXCEPT !.cvars = @ \o MissingCVs(book, book.dimnamelist \ scales),
                   !.failed = @ \/ \E p \in scales : Rank(variable(p)) # 1]

\* The first variable named like the latitude, then the first named like the
\* longitude, wherever they are.
Handle_CVar_LatLon_General_Product(book, vars, pattern) ==
    LET first(vs, name) == {i \in DOMAIN vs : /\ NameOf(vs[i].path) = name
                                              /\ \A j \in 1..(i - 1) : NameOf(vs[j].path) # name}
        lat == first(vars, pattern.lat)
        rest == ElementsAt(vars, DOMAIN vars \ lat)
        lon == first(rest, pattern.lon)
        axis == IF pattern.kind = "LATLON2D" THEN 2 ELSE 1
        lats == ElementsAt(vars, lat)
        lons == ElementsAt(rest, lon)
        cvs == [i \in DOMAIN lats |-> CVOf(lats[i], "exist", lats[i].dims[1].name)]
                 \o [i \in DOMAIN lons |-> CVOf(lons[i], "exist", lons[i].dims[axis].name)]
    IN [vars |-> ElementsAt(rest, DOMAIN rest \ lon), groups |-> {}, failed |-> FALSE,
        coards |-> pattern.kind = "LATLON1D",
        cvars |-> cvs \o MissingCVs(book, book.dimnamelist \ {c.cfdimname : c \in Range(cvs)})]

=============================================================================
