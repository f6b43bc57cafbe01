--------------------------- MODULE NamedProducts ---------------------------
(***************************************************************************)
(* The products of NASA that are recognised by their metadata              *)
(* (check_product), and what is done for them instead of the general       *)
(* treatment: names of dimensions, coordinate variables, special           *)
(* variables, names of variables, the attribute coordinates.               *)
(*                                                                         *)
(* Variables are those of GeneralCVs, with the attribute DimensionNames    *)
(* (dimnames, <<>> without it; an empty name in it is <<>> too).  The      *)
(* metadata of a file are a record: root and the attributes of groups,     *)
(* functions from names of attributes to records [words, vlen] (the value, *)
(* and whether the string is of variable length), grp, a function from     *)
(* paths to such functions; and project, such a record for the dataset     *)
(* /Metadata/ProjectId, with no words without it.                          *)
(***************************************************************************)
EXTENDS LatLonPairs

Products == {"General_Product", "GPM_L1", "GPMS_L3", "GPMM_L3", "GPM_L3_New", "Mea_SeaWiFS_L2",
             "Mea_SeaWiFS_L3", "Mea_Ozone", "Aqu_L3", "OBPG_L3", "ACOS_L2S_OR_OCO2_L1B", "OSMAPL2S"}

NoMetadata == [root |-> <<>>, grp |-> <<>>, project |-> [words |-> <<>>, vlen |-> FALSE]]

\* Strings of variable length are read and then dropped.
obtain_gm_attr_value(attr) == IF attr.vlen THEN <<>> ELSE attr.words

\* The values of these attributes of the root group, <<>> for one it lacks.
RootValue(meta, name) ==
    IF name \in DOMAIN meta.root THEN obtain_gm_attr_value(meta.root[name]) ELSE <<>>

Attrs(meta, path) == IF path \in DOMAIN meta.grp THEN DOMAIN meta.grp[path] ELSE {}

GroupsIn(meta, path) == {g \in DOMAIN meta.grp : Len(g) = Len(path) + 1 /\ GroupOf(g) = path}

\* An attribute of a group whose name has SwathHeader in it.
SwathHeaders == {"SwathHeader", "S1_SwathHeader"}
check_gpm_l1(meta) ==
    /\ "FileHeader" \in DOMAIN meta.root
    /\ \E g \in GroupsIn(meta, Root) : Attrs(meta, g) \cap SwathHeaders # {}

\* GridHeader in the group Grid, or in GRID when there is no Grid.
check_gpms_l3(meta) ==
    LET grid == IF << <<>>, <<"Grid">> >> \in DOMAIN meta.grp THEN << <<>>, <<"Grid">> >>
                ELSE << <<>>, <<"GRID">> >> IN
    "FileHeader" \in DOMAIN meta.root /\ "GridHeader" \in Attrs(meta, grid)

\* GridHeader, or a name with it inside, in a group of the group Grids.
GridHeaders == {"GridHeader", "G1_GridHeader"}
check_gpmm_l3(meta) ==
    /\ "FileHeader" \in DOMAIN meta.root
    /\ \E g \in GroupsIn(meta, << <<>>, <<"Grids">> >>) : Attrs(meta, g) \cap GridHeaders # {}

\* The level, by the long name or else the short name; 0 when it is none.
check_measure_seawifs(meta) ==
    LET long == RootValue(meta, "long_name")
        short == RootValue(meta, "short_name")
        is(word, name) ==
          /\ RootValue(meta, "instrument_short_name") = <<"SeaWiFS">>
          /\ {"long_name", "short_name"} \subseteq DOMAIN meta.root
          /\ \/ long # <<>> /\ Head(long) = "SeaWiFS" /\ word \in Range(long)
             \/ short # <<>> /\ Head(short) = name
    IN CASE is("Level 2", "SWDB_L2") -> 2
         [] ~is("Level 2", "SWDB_L2") /\ is("Level 3", "SWDB_L3") -> 3
         [] OTHER -> 0

check_aquarius(meta) ==
    RootValue(meta, "Sensor") = <<"Aquarius">> /\ "Level-3" \in Range(RootValue(meta, "Title"))

check_obpg(meta) ==
    RootValue(meta, "processing_level") = <<"L3 Mapped">> /\ RootValue(meta, "cdm_data_type") = <<"grid">>

check_measure_ozone(meta) ==
    /\ RootValue(meta, "ProductType") \in {<<"L3 Monthly Zonal Means">>, <<"L2 Daily Trajectory">>}
    /\ RootValue(meta, "ParameterName") = <<"Nadir Profile and Total Column Ozone">>

Metadata == << <<>>, <<"Metadata">> >>

\* An attribute of the group Metadata; or its dataset ProjectId, where OCO-2
\* counts only as a string of variable length.
check_osmapl2s(meta) ==
    /\ "ProjectID" \in Attrs(meta, Metadata)
    /\ obtain_gm_attr_value(meta.grp[Metadata]["ProjectID"]) = <<"SMAP">>
check_acosl2s_oco2l1b(meta) ==
    /\ Metadata \in DOMAIN meta.grp
    /\ meta.project.words \in ({<<"ACOS">>, <<"OCO2">>} \cup IF meta.project.vlen THEN {<<"OCO-2">>} ELSE {})

\* The first product whose marks the file has.
check_product(meta) ==
    LET marks == << <<check_gpm_l1(meta), "GPM_L1">>, <<check_gpms_l3(meta), "GPMS_L3">>,
                    <<check_gpmm_l3(meta), "GPMM_L3">>,
                    <<check_measure_seawifs(meta) = 2, "Mea_SeaWiFS_L2">>,
                    <<check_measure_seawifs(meta) = 3, "Mea_SeaWiFS_L3">>,
                    <<check_aquarius(meta), "Aqu_L3">>, <<check_obpg(meta), "OBPG_L3">>,
                    <<check_measure_ozone(meta), "Mea_Ozone">>, <<check_osmapl2s(meta), "OSMAPL2S">>,
                    <<check_acosl2s_oco2l1b(meta), "ACOS_L2S_OR_OCO2_L1B">>,
                    <<TRUE, "General_Product">> >>
    IN marks[Min({i \in DOMAIN marks : marks[i][1]})][2]

\* A general product is a new GPM level 3 product if one of at most five of its
\* variables, at equal distances, has DimensionNames, and a group GridHeader.
Check_And_Update_New_GPM_L3(meta, vars) ==
    LET step == IF Len(vars) \div 5 = 0 THEN 1 ELSE Len(vars) \div 5
        looked == {i \in DOMAIN vars : (i - 1) % step = 0 /\ (step > 1 => i <= 5 * step)} IN
    /\ \E i \in looked : vars[i].dimnames # <<>>
    /\ \E g \in DOMAIN meta.grp : Attrs(meta, g) \cap GridHeaders # {}

\* The first pattern the file has; in between, new GPM level 3 products.
Check_General_Product_Pattern(meta, vars) ==
    LET attr(pairs) ==
          IF Check_LatLon_With_Coordinate_Attr_General_Product_Pattern(vars, pairs)
          THEN [PatternOf("COOR_ATTR") EXCEPT !.pairs = pairs] ELSE OTHERGMS
        tried == << IF Check_Dimscale_General_Product_Pattern(vars) THEN DIMSCALE ELSE OTHERGMS,
                    IF Check_And_Update_New_GPM_L3(meta, vars) THEN PatternOf("GPM") ELSE OTHERGMS,
                    Check_LatLon2D_General_Product_Pattern(vars), Check_LatLon1D_General_Product_Pattern(vars),
                    attr(latloncv_candidate_pairs(vars)) >>
        matched == {i \in DOMAIN tried : tried[i] # OTHERGMS}
    IN IF matched = {} THEN OTHERGMS ELSE tried[Min(matched)]

------------------------------------------------------------------------------
(***************************************************************************)
(* Dimension names.                                                        *)
(***************************************************************************)

Named(d, name) == [d EXCEPT !.name = name, !.newname = name]

\* The paths of the dimension scales some variable refers to (these have the
\* attribute REFERENCE_LIST).
Referenced(vars) == UNION {Range(v.dimlist) : v \in Range(vars)}

\* A dimension scale that nothing refers to gets made-up names.
Handle_UseDimscale_Var_Dim_Names_Mea_SeaWiFS_Ozone(book, v, referenced) ==
    IF v.dimlist = <<>> /\ v.path \notin referenced THEN Add_FakeDim_Names(book, v.dims)
    ELSE Handle_UseDimscale_Var_Dim_Names(book, v)

Add_Dim_Name_Mea_SeaWiFS(book, vars) ==
    LET named == NameDims(book, vars, LAMBDA b, v :
                   Handle_UseDimscale_Var_Dim_Names_Mea_SeaWiFS_Ozone(b, v, Referenced(vars)))
    IN [named EXCEPT !.book.failed = @ \/ named.book.dimnamelist = {}]

\* Each dimension gets the first name for its size that this variable does not
\* use yet, or a made-up one.
NameBySize(book, v, names) ==
    LET free(done, size) == SelectSeq(names, LAMBDA n : n.size = size /\ n.name \notin done.used)
        known(done, i, name) ==
          [done EXCEPT !.book = Enter(@, name, v.dims[i]), !.used = @ \cup {name},
                       !.dims[i] = Named(@, name)]
        given(done, i, fake) ==
          [done EXCEPT !.book = fake.book, !.dims[i] = Named(@, fake.name), !.faked = @ \cup {Size(v, i)}]
        made(done, i, fake) ==
          given(done, i, IF Size(v, i) \in done.faked THEN Adjust_Duplicate_FakeDim_Name(fake.book, v.dims[i])
                         ELSE fake)
        step(done, i) ==
          IF free(done, Size(v, i)) # <<>> THEN known(done, i, Head(free(done, Size(v, i))).name)
          ELSE made(done, i, Add_One_FakeDim_Name(done.book, v.dims[i]))
        all == FoldLeftDomain(step, [book |-> book, dims |-> v.dims, used |-> {}, faked |-> {}], v.dims)
    IN [book |-> all.book, dims |-> all.dims]

NamesBySize(book, vars, names) == NameDims(book, vars, LAMBDA b, v : NameBySize(b, v, names))

Dimensions == << <<>>, <<"Dimensions">> >>

OzoneCVs == {<<"Latitude">>, <<"Time">>, <<"MixingRatioPressureLevels">>, <<"ProfilePressureLevels">>,
             <<"Wavelength">>}
check_cv(v) == NameOf(v.path) \in OzoneCVs

\* The file has a group Dimensions, or dimension scales that are used.
UsesDimscale(vars, groups) ==
    \/ Dimensions \in Range(groups)
    \/ Referenced(vars) # {} /\ \E v \in Range(vars) : v.scale # "none"

\* By references; or by size, after the variables with these five names.
Add_Dim_Name_Mea_Ozonel3z(book, vars, groups) ==
    LET cvs == SelectSeq(vars, check_cv) IN
    CASE UsesDimscale(vars, groups) -> Add_Dim_Name_Mea_SeaWiFS(book, vars)
      [] ~UsesDimscale(vars, groups) /\ \E v \in Range(cvs) : Rank(v) # 1 ->
           [book |-> [book EXCEPT !.failed = TRUE], vars |-> vars]
      [] OTHER -> NamesBySize(book, vars, [i \in DOMAIN cvs |-> [size |-> Size(cvs[i], 1), name |-> cvs[i].path]])

\* The names the attribute DimensionNames gives, one for each dimension; a name
\* has one size.
NameByAttribute(book, v) ==
    LET entered(b, name, d) ==
          [Enter(b, name, d) EXCEPT !.failed = @ \/ (name \in b.dimnamelist /\ b.size[name] # d.size)]
        given(done, i, fake) == [book |-> fake.book, dims |-> [done.dims EXCEPT ![i] = Named(@, fake.name)]]
        step(done, i) ==
          IF v.dimnames[i] = <<>> THEN given(done, i, Add_One_FakeDim_Name(done.book, v.dims[i]))
          ELSE [book |-> entered(done.book, v.dimnames[i], v.dims[i]),
                dims |-> [done.dims EXCEPT ![i] = Named(@, v.dimnames[i])]]
    IN CASE v.dimnames = <<>> -> [book |-> book, dims |-> v.dims]
         [] v.dimnames # <<>> /\ Len(v.dimnames) # Rank(v) ->
              [book |-> [book EXCEPT !.failed = TRUE], dims |-> v.dims]
         [] OTHER -> FoldLeftDomain(step, [book |-> book, dims |-> v.dims], v.dims)

Add_Dim_Name_GPM(book, vars) == NameDims(book, vars, NameByAttribute)

l3m_data == <<"l3m_data">>

\* The first two dimensions of the first variable l3m_data; the names are not
\* entered.
Add_Dim_Name_Aqu_L3(book, vars) ==
    LET first == {i \in DOMAIN vars : /\ NameOf(vars[i].path) = l3m_data
                                      /\ \A j \in 1..(i - 1) : NameOf(vars[j].path) # l3m_data}
        lat(d) == [d EXCEPT ![1] = Named(@, << <<"lat">> >>), ![2] = Named(@, << <<"lon">> >>)]
    IN [book |-> book,
        vars |-> [i \in DOMAIN vars |-> IF i \in first THEN [vars[i] EXCEPT !.dims = lat(@)] ELSE vars[i]]]

\* A name that ends in _lat or _lon.
Suffixed(v, word) == Len(NameOf(v.path)) > 1 /\ Last(NameOf(v.path)) = word

YDim == << <<"YDim">> >>
XDim == << <<"XDim">> >>

\* By size, after the two dimensions of the first latitude.
Add_Dim_Name_OSMAPL2S(book, vars) ==
    LET lats == SelectSeq(vars, LAMBDA v : Suffixed(v, "lat")) IN
    CASE lats = <<>> -> NamesBySize(book, vars, <<>>)
      [] lats # <<>> /\ Rank(Head(lats)) # 2 -> [book |-> [book EXCEPT !.failed = TRUE], vars |-> vars]
      [] OTHER -> NamesBySize(book, vars, <<[size |-> Size(Head(lats), 1), name |-> YDim],
                                            [size |-> Size(Head(lats), 2), name |-> XDim]>>)

\* ACOS level 2 and OCO2 level 1: made-up names.
Add_Dim_Name_ACOS_L2S_OCO2_L1B(book, vars) == Add_Dim_Name_LatLon1D_Or_CoordAttr(book, vars)

------------------------------------------------------------------------------
(***************************************************************************)
(* Coordinate variables.  The result has the variables, the coordinate     *)
(* variables and whether the function has thrown.                          *)
(***************************************************************************)

MadeCV(book, dimname, role) == [Create_Missing_CV(book, dimname) EXCEPT !.role = role]

Made(vars, cvars, failed) == [vars |-> vars, cvars |-> cvars, failed |-> failed]

Is2D(v, name) == Rank(v) = 2 /\ NameOf(v.path) = <<name>>

\* In the group of the variable, a name of its own for one of its dimensions.
GroupDim(v, axis) == GroupOf(v.path) \o v.dims[axis].name

\* 2-D latitudes and longitudes become coordinate variables.  The variable
\* after a latitude is only tested for a longitude.
LatLonOfSwaths(vars) ==
    LET lats[i \in 0..Len(vars)] ==
          IF i = 0 THEN {}
          ELSE IF Is2D(vars[i], "Latitude") /\ i - 1 \notin lats[i - 1] THEN lats[i - 1] \cup {i} ELSE lats[i - 1]
        found == lats[Len(vars)] \cup {i \in DOMAIN vars : Is2D(vars[i], "Longitude")}
        axis(v) == IF Is2D(v, "Longitude") THEN 2 ELSE 1
        lls == ElementsAt(vars, found)
    IN [vars |-> ElementsAt(vars, DOMAIN vars \ found),
        cvars |-> [i \in DOMAIN lls |-> CVOf(lls[i], "exist", GroupDim(lls[i], axis(lls[i])))],
        names |-> {v.dims[axis(v)].name : v \in Range(lls)}]

\* The dimensions of their names get no other coordinate variable.
Handle_CVar_GPM_L1(book, vars) ==
    LET swaths == LatLonOfSwaths(vars) IN
    Made(swaths.vars, swaths.cvars \o MissingCVs(book, DOMAIN book.size \ swaths.names), FALSE)

GPMLat == {<<<<"nlat">>>>, <<<<"ltH">>>>, <<<<"ltL">>>>}
GPMLon == {<<<<"nlon">>>>, <<<<"lnH">>>>, <<<<"lnL">>>>}
GPMHeights == {<< <<<<"nlayer">>>>, 28>>, << <<<<"nlayer">>>>, 19>>, << <<<<"hgt">>>>, 5>>, << <<<<"nalt">>>>, 5>>}

\* A coordinate variable of every dimension: of the latitude, the longitude or
\* the height when it is known by its name.
Handle_CVar_GPM_L3(book, vars) ==
    LET role(n) == CASE n \in GPMLat -> "latmiss"
                     [] n \in GPMLon -> "lonmiss"
                     [] <<n, book.size[n]>> \in GPMHeights -> "special"
                     [] OTHER -> "miss"
        order == InOrder(DOMAIN book.size)
    IN Made(vars, [i \in DOMAIN order |-> MadeCV(book, order[i], role(order[i]))], FALSE)

natrack == << <<>>, <<"natrack">> >>
nxtrack == << <<>>, <<"nxtrack">> >>

\* The variable for a dimension: its scale; at level 2 the latitude for the
\* dimension along the track and the longitude for the one across.
VariableFor(name, coards) ==
    CASE name = natrack /\ ~coards -> << <<>>, <<"latitude">> >>
      [] name = nxtrack /\ ~coards -> << <<>>, <<"longitude">> >>
      [] OTHER -> name

\* In the order of the names; then one is made for every name without one.
Handle_CVar_Mea(book, vars, coards) ==
    LET path(n) == VariableFor(n, coards)
        paths == {v.path : v \in Range(vars)}
        names == {n \in book.dimnamelist : path(n) \in paths}
        order == InOrder(names)
        variable(p) == CHOOSE v \in Range(vars) : v.path = p
        kept == Those(vars, LAMBDA v : \A n \in names : v.path # path(n))
        cvs == [i \in DOMAIN order |-> CVOf(variable(path(order[i])), "exist", order[i])]
    IN Made(kept, cvs \o MissingCVs(book, book.dimnamelist \ names),
            \E n \in names : path(n) = n /\ Rank(variable(n)) # 1)

Handle_CVar_Mea_SeaWiFS(book, vars, coards) == Handle_CVar_Mea(book, vars, coards)
Handle_CVar_Mea_Ozone(book, vars) == Handle_CVar_Mea(book, vars, TRUE)

\* Latitudes and longitudes up to the place where one of each has been found;
\* their names lose the path.
Handle_CVar_OSMAPL2S(book, vars) ==
    LET at(word) == {i \in DOMAIN vars : Suffixed(vars[i], word)}
        end == IF at("lat") = {} \/ at("lon") = {} THEN Len(vars) ELSE Max({Min(at("lat")), Min(at("lon"))})
        found == {i \in at("lat") \cup at("lon") : i <= end}
        dim(v) == IF Suffixed(v, "lat") THEN YDim ELSE XDim
        lls == ElementsAt(vars, found)
        dims == {dim(v) : v \in Range(lls)}
    IN Made(ElementsAt(vars, DOMAIN vars \ found),
            [i \in DOMAIN lls |-> [CVOf(lls[i], "exist", dim(lls[i])) EXCEPT !.newname = <<NameOf(lls[i].path)>>]]
              \o MissingCVs(book, book.dimnamelist \ dims),
            ~(dims \subseteq book.dimnamelist))

\* A coordinate variable for every dimension of every l3m_data.
Handle_CVar_Aqu_L3(vars) ==
    LET dims == FlattenSeq([i \in DOMAIN vars |-> IF NameOf(vars[i].path) = l3m_data THEN vars[i].dims ELSE <<>>])
        role(name) == CASE name = << <<"lat">> >> -> "latmiss" [] name = << <<"lon">> >> -> "lonmiss"
                        [] OTHER -> "none"
        book(d) == [NoNames EXCEPT !.size = [n \in {d.name} |-> d.size], !.unlimited = [n \in {d.name} |-> FALSE]]
    IN Made(vars, [i \in DOMAIN dims |-> MadeCV(book(dims[i]), dims[i].name, role(dims[i].name))], FALSE)

GeophysicalData == << <<>>, <<"geophsical_data">> >>

\* Of the first two-dimensional variable of floats, or of the data group (so
\* spelled): the longer dimension is that of the longitude.
LatLonDims(v) ==
    IF Size(v, 1) > Size(v, 2) THEN [lat |-> v.dims[2], lon |-> v.dims[1]]
    ELSE [lat |-> v.dims[1], lon |-> v.dims[2]]

\* The coordinate variables of its dimensions that have only an index become
\* latitude and longitude.
Handle_CVar_OBPG_L3(made) ==
    LET grids == SelectSeq(made.vars, LAMBDA v : Rank(v) = 2 /\ (IsPrefix(GeophysicalData, v.path) \/ v.type = "float"))
        is(c, d) == c.role = "fill" /\ c.dims[1].size = d.size /\ c.dims[1].name = d.name
        role(c, ll) == CASE is(c, ll.lat) -> "latmiss"
                         [] ~is(c, ll.lat) /\ is(c, ll.lon) -> "lonmiss"
                         [] OTHER -> c.role
        updated(ll) == [made EXCEPT !.cvars = [i \in DOMAIN @ |-> [@[i] EXCEPT !.role = role(made.cvars[i], ll)]]]
    IN IF grids = <<>> THEN made ELSE updated(LatLonDims(Head(grids)))

------------------------------------------------------------------------------
(***************************************************************************)
(* Special variables and names.                                            *)
(***************************************************************************)

GPMInputs == {<<"InputFileNames">>, <<"InputAlgorithmVersions">>, <<"InputGenerationDateTimes">>}

\* Two variables of 32 bits instead of one of 64 bits: the time and the date.
Halves(v) ==
    LET half(word) == [v EXCEPT !.role = "special", !.type = "num", !.newname = Front(@) \o <<Append(Last(@), word)>>]
    IN <<half("Time"), half("Date")>>

MutantSpVar(type, vars) ==
    IF type \in {"GPMM_L3", "GPMS_L3", "GPM_L3_New"}
    THEN [vars |-> Those(vars, LAMBDA v : NameOf(v.path) \notin GPMInputs), spvars |-> <<>>]
    ELSE [vars |-> Those(vars, LAMBDA v : v.type # "int64"), spvars |-> <<>>]

\* 64-bit integers of ACOS and OCO2 are split; variables of GPM that only tell
\* how the file was made are removed, at level 1 the first one of that name.
Handle_SpVar(type, vars) ==
    LET runtime == {i \in DOMAIN vars : NameOf(vars[i].path) = <<"AlgorithmRuntimeInfo">>}
        longs == Those(vars, LAMBDA v : v.type = "int64") IN
    CASE type = "ACOS_L2S_OR_OCO2_L1B" ->
           [vars |-> Those(vars, LAMBDA v : v.type # "int64"),
            spvars |-> FlattenSeq([i \in DOMAIN longs |-> Halves(longs[i])])]
      [] type = "GPM_L1" ->
           [vars |-> ElementsAt(vars, {i \in DOMAIN vars : i \in runtime => \E j \in runtime : j < i}), spvars |-> <<>>]
      [] type \in {"GPMM_L3", "GPMS_L3", "GPM_L3_New"} ->
           [vars |-> Those(vars, LAMBDA v : NameOf(v.path) \notin GPMInputs), spvars |-> <<>>]
      [] OTHER -> [vars |-> vars, spvars |-> <<>>]

ByLastName(vars) == [i \in DOMAIN vars |-> [vars[i] EXCEPT !.newname = <<Last(@)>>]]

\* A file with one group names variables by their last name; with more, by what
\* comes after the group of the grid.
Adjust_GPM_L3_Obj_Name(vars, groups) ==
    LET after(path) == IF Len(path) < 3 THEN <<Last(path)>> ELSE SubSeq(path, 3, Len(path)) IN
    IF Len(groups) <= 1 THEN ByLastName(vars)
    ELSE [i \in DOMAIN vars |-> [vars[i] EXCEPT !.newname = after(@)]]

Adjust_Mea_Ozone_Obj_Name(vars, cvars) == [vars |-> ByLastName(vars), cvars |-> ByLastName(cvars)]

\* Some products do without paths.
Adjust_Obj_Name(type, vars, cvars, groups) ==
    CASE type = "Mea_Ozone" -> Adjust_Mea_Ozone_Obj_Name(vars, cvars)
      [] type \in {"GPMS_L3", "GPMM_L3"} -> [vars |-> Adjust_GPM_L3_Obj_Name(vars, groups), cvars |-> cvars]
      [] OTHER -> [vars |-> vars, cvars |-> cvars]

------------------------------------------------------------------------------
(***************************************************************************)
(* The attribute coordinates of GPM level 1.                               *)
(***************************************************************************)

\* The string of a group's path is found inside that of another group.
FoundIn(group, other) ==
    group = Root \/ \E i, j \in DOMAIN other : i > 1 /\ SubSeq(other, i, j) = Tail(group)

\* Which of these coordinate variables are those of dimensions of v, in the order
\* of their dimensions' names.
CoordinatesBy(v, swaths) ==
    FlattenSeq([i \in DOMAIN swaths |->
      LET uses == SelectSeq(v.dims, LAMBDA d : <<Last(swaths[i].cfdimname)>> = d.name)
      IN [k \in DOMAIN uses |-> [cv |-> swaths[i].newname, dim |-> uses[k].name]]])

MutantSwath(v, found) == [v EXCEPT !.coordinates = @ \o << <<found[1].cv>> >>, !.addpath = FALSE]

\* The latitude, the longitude and the other dimensions.
WithSwath(v, found) ==
    LET others == SelectSeq(v.dims, LAMBDA d : \A k \in DOMAIN found : found[k].dim # d.name) IN
    [v EXCEPT !.coordinates = @ \o <<<<found[1].cv>>, <<found[2].cv>>>>
                                \o (IF Rank(v) > 2 THEN [k \in DOMAIN others |-> <<others[k].newname>>] ELSE <<>>),
              !.addpath = FALSE]

\* By the coordinate variables of the group of the variable; unless these are
\* two, by those of all groups on its path, of which there must be two then.
\* What the first search has found stays in the list.
GPM_l1_Coordinates(v, swaths) ==
    LET dims == UNION {{d.name : d \in Range(c.dims)} : c \in Range(swaths)}
        mine == CoordinatesBy(v, SelectSeq(swaths, LAMBDA c : GroupOf(c.cfdimname) = GroupOf(v.path)))
        near == CoordinatesBy(v, SelectSeq(swaths, LAMBDA c : FoundIn(GroupOf(c.cfdimname), GroupOf(v.path)))) IN
    CASE Cardinality({i \in DOMAIN v.dims : v.dims[i].name \in dims}) < 2 -> v
      [] Cardinality({i \in DOMAIN v.dims : v.dims[i].name \in dims}) >= 2 /\ Len(mine) = 2 -> WithSwath(v, mine)
      [] /\ Cardinality({i \in DOMAIN v.dims : v.dims[i].name \in dims}) >= 2
         /\ Len(mine) # 2 /\ Len(near) = 2 -> WithSwath(v, mine \o near)
      [] OTHER -> v

\* Two of these coordinate variables for one dimension are an error.
Handle_GPM_l1_Coor_Attr(vars, cvars) ==
    LET two == SelectSeq(cvars, LAMBDA c : Rank(c) = 2)
        dims == {c.cfdimname : c \in Range(two)}
        order == InOrder(dims)
        swaths == [i \in DOMAIN order |-> CHOOSE c \in Range(two) : c.cfdimname = order[i]]
        made(v) == IF Rank(v) < 2 THEN v ELSE GPM_l1_Coordinates(v, swaths)
    IN [failed |-> Cardinality(dims) # Len(two), vars |-> [i \in DOMAIN vars |-> made(vars[i])]]

=============================================================================
