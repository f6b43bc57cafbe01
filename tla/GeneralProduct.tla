--------------------------- MODULE GeneralProduct ---------------------------
(***************************************************************************)
(* The answers for one general HDF5 product under the CF option            *)
(* (map_gmh5_cfdds, map_gmh5_cfdas and map_gmh5_cfdmr).  Each request      *)
(* makes a GMFile of its own and runs it through the stages of its         *)
(* mapping function; the DDS, the DAS and the DMR of one file have to fit  *)
(* together although no stage sees what another request has done.  The one *)
(* thing kept between requests is FILE_ATTR_TABLE_NAME: a static variable  *)
(* in a header, of which HDF5CF.cc, which renames it, and h5gmcfdap.cc,    *)
(* which uses it, have a copy each.                                        *)
(*                                                                         *)
(* Of the attributes of variables only coordinates, units, DimensionNames  *)
(* and those of dimension scales are kept, and of the others those that    *)
(* tell a product.                                                         *)
(*                                                                         *)
(* A definition called Mutant<D> is D with a plausible bug; no other       *)
(* definition uses it.                                                     *)
(***************************************************************************)
EXTENDS NamedProducts

CONSTANTS
    Files,          \* the files: [vars |-> sequence of variables, groups |-> sequence of paths,
                    \* meta |-> metadata, omps |-> its name starts with OMPS-NPP]
    Configs         \* the settings of the BES keys the process may run under: which are true

Keys == {"CheckNameClashing", "DMR64bitInt", "ForceFlattenNDCoorAttr", "CoorattrAddPath"}

ASSUME ConfigsAssumption == Configs \subseteq SUBSET Keys

ASSUME FilesAssumption ==
    \A f \in Files :
      /\ f.vars \in Seq(Range(f.vars)) /\ f.groups \in Seq(Paths)
      /\ \A v \in Range(f.vars) : v.path \in Paths /\ v.dims \in Seq([size : Nat, unlimited : BOOLEAN])

VARIABLES
    cfg,            \* the keys that are true
    file,           \* the file
    view,           \* the request being answered: DDS, DAS, DMR
    todo,           \* its stages still to run
    product_type,   \* the GMFile's
    book, vars, cvars, spvars,  \* its dimension names, variables, coordinate and special variables
    groups,         \* newname of its groups
    pattern,        \* gproduct_pattern, gp_latname, gp_lonname, latloncv_candidate_pairs
    iscoard, grp_cv_paths, have_nc4_non_coord,  \* members of the same names
    table,          \* FILE_ATTR_TABLE_NAME as HDF5CF.cc has it
    answers         \* what has been answered to each request

gmfile == <<product_type, book, vars, cvars, spvars, groups, pattern, iscoard, grp_cv_paths, have_nc4_non_coord>>
all == <<cfg, file, view, todo, gmfile, table, answers>>

\* Names of all products are made unique; 64-bit integers are in DAP2 responses too;
\* attributes coordinates are flattened before they are looked at; they get paths.
CheckNameClashing == "CheckNameClashing" \in cfg
DmrLongInt        == "DMR64bitInt" \in cfg
ForceFlatten      == "ForceFlattenNDCoorAttr" \in cfg
CoorattrAddPath   == "CoorattrAddPath" \in cfg

Views == {"DDS", "DAS", "DMR"}
None == <<>>
Failed == <<"failed">>

FILE_ATTR_TABLE_NAME == <<"HDF5_GLOBAL">>

------------------------------------------------------------------------------
(***************************************************************************)
(* The stages of the three mapping functions.  The DAS does not look for   *)
(* equal dimension names.                                                  *)
(***************************************************************************)

Common == <<"Update_Product_Type", "Remove_Unneeded_Objects", "Add_Dim_Name", "Handle_CVar", "Handle_SpVar",
            "Handle_Unsupported_Dtype", "Handle_Unsupported_Dspace", "Adjust_Obj_Name",
            "Flatten_Obj_Name", "Handle_Obj_NameClashing">>
Ending == <<"Remove_Unused_FakeDimVars", "Rename_NC4_NonCoordVars">>
WithPaths == <<"Add_Path_Coord_Attr", "gen">>

map_gmh5_cfdds == Common \o <<"Adjust_Dim_Name", "Handle_DimNameClashing", "Handle_Hybrid_EOS5">> \o Ending \o <<"gen">>
map_gmh5_cfdas == Common \o <<"Adjust_Dim_Name", "Handle_Coor_Attr", "Handle_Hybrid_EOS5">> \o Ending \o WithPaths
map_gmh5_cfdmr == Common \o <<"Adjust_Dim_Name", "Handle_DimNameClashing", "Handle_Coor_Attr",
                              "Handle_Hybrid_EOS5">> \o Ending \o WithPaths

Stages(v) == CASE v = "DDS" -> map_gmh5_cfdds [] v = "DAS" -> map_gmh5_cfdas [] v = "DMR" -> map_gmh5_cfdmr

At(stage) == todo # <<>> /\ Head(todo) = stage

\* On to the next stage, or out of the mapping function with an error.
Continue == todo' = Tail(todo) /\ UNCHANGED <<cfg, file, view, answers>>
Throw == todo' = <<>> /\ answers' = [answers EXCEPT ![view] = Failed] /\ UNCHANGED <<cfg, file, view>>
ContinueUnless(failed) == IF failed THEN Throw ELSE Continue

\* cf_strict_support_type.
Supported(type) == type \in {"num", "float", "nospace"} \/ (type = "int64" /\ (view = "DMR" \/ DmrLongInt))

Init ==
    /\ cfg \in Configs
    /\ file \in Files
    /\ view = "DDS" /\ todo = <<>>
    /\ product_type = "General_Product" /\ spvars = <<>>
    /\ book = NoNames /\ vars = <<>> /\ cvars = <<>> /\ groups = <<>>
    /\ pattern = OTHERGMS
    /\ iscoard = FALSE /\ grp_cv_paths = {} /\ have_nc4_non_coord = FALSE
    /\ table = FILE_ATTR_TABLE_NAME
    /\ answers = [v \in Views |-> None]

\* A variable of the file as Retrieve_H5_Info leaves it: no names for its
\* dimensions, and its path for its name.
Retrieved(v) ==
    [path |-> v.path, scale |-> v.scale, dimlist |-> v.dimlist, units |-> v.units,
     type |-> v.type, coordinates |-> v.coordinates, addpath |-> TRUE, dimnames |-> v.dimnames, newname |-> v.path,
     role |-> "var", cfdimname |-> <<>>,
     dims |-> [i \in DOMAIN v.dims |-> [size |-> v.dims[i].size, unlimited |-> v.dims[i].unlimited,
                                        name |-> <<>>, newname |-> <<>>]]]

\* A request starts with a new GMFile and what the file holds.
Retrieve_H5_Info(v) ==
    /\ todo = <<>> /\ answers[v] = None
    /\ view' = v /\ todo' = Stages(v)
    /\ product_type' = check_product(file.meta) /\ spvars' = <<>>
    /\ book' = NoNames
    /\ vars' = [i \in DOMAIN file.vars |-> Retrieved(file.vars[i])]
    /\ cvars' = <<>> /\ groups' = file.groups
    /\ pattern' = OTHERGMS
    /\ iscoard' = FALSE /\ grp_cv_paths' = {} /\ have_nc4_non_coord' = FALSE
    /\ UNCHANGED <<cfg, file, table, answers>>

\* A GPM level 3 file with dimension scales is a general product; with one grid
\* its variables are named by their last names.
Update_Product_Type ==
    LET gpm == product_type \in {"GPMS_L3", "GPMM_L3"} /\ Check_Dimscale_General_Product_Pattern(vars) IN
    /\ At("Update_Product_Type")
    /\ \E found \in {IF product_type = "General_Product" THEN Check_General_Product_Pattern(file.meta, vars)
                      ELSE IF gpm THEN DIMSCALE ELSE OTHERGMS} :
         /\ pattern' = found
         /\ product_type' = CASE gpm -> "General_Product" [] found.kind = "GPM" -> "GPM_L3_New" [] OTHER -> product_type
    /\ vars' = IF gpm /\ product_type = "GPMS_L3" THEN ByLastName(vars) ELSE vars
    /\ Continue
    /\ UNCHANGED <<book, cvars, spvars, groups, iscoard, grp_cv_paths, have_nc4_non_coord, table>>

NC4 == "_nc4_non_coord_"
IsNonCoord(v) == Head(NameOf(v.path)) = NC4

InputPointers == << <<>>, <<"InputPointers">> >>
Kept(path) == ~(file.omps /\ product_type = "General_Product" /\ IsPrefix(InputPointers, path))

\* netCDF-4 gives a variable that is named like a dimension it does not use
\* this prefix; the scale that has its name goes, and so does every other
\* variable of that name, in whichever group.  OMPS-NPP files lose their input
\* pointers, and new GPM files the groups without attributes.
Remove_Unneeded_Objects ==
    LET kept == Those(vars, LAMBDA v : Kept(v.path))
        general == product_type = "General_Product" /\ pattern.kind = "DIMSCALE"
        names == {Tail(NameOf(v.path)) : v \in {w \in Range(kept) : general /\ IsNonCoord(w)}}
        bare(g) == product_type = "GPM_L3_New" /\ Attrs(file.meta, g) = {} IN
    /\ At("Remove_Unneeded_Objects")
    /\ vars' = Those(kept, LAMBDA v : NameOf(v.path) \notin names)
    /\ groups' = Those(groups, LAMBDA g : Kept(g) /\ ~bare(g))
    /\ have_nc4_non_coord' = (names # {})
    /\ Continue
    /\ UNCHANGED <<product_type, book, cvars, spvars, pattern, iscoard, grp_cv_paths, table>>

Add_Dim_Name_General_Product(p) ==
    CASE p.kind = "DIMSCALE" -> Add_Dim_Name_Dimscale_General_Product(book, vars)
      [] p.kind = "LATLON2D" -> Add_Dim_Name_LatLon2D_General_Product(book, vars, p.lat)
      [] p.kind \in {"LATLON1D", "COOR_ATTR"} -> Add_Dim_Name_LatLon1D_Or_CoordAttr(book, vars)
      [] OTHER -> [book |-> book, vars |-> vars]

\* What is done for this product; OBPG files look for the pattern here.
DimsNamed(type, p) ==
    CASE type \in {"Mea_SeaWiFS_L2", "Mea_SeaWiFS_L3"} -> Add_Dim_Name_Mea_SeaWiFS(book, vars)
      [] type = "Aqu_L3" -> Add_Dim_Name_Aqu_L3(book, vars)
      [] type = "OSMAPL2S" -> Add_Dim_Name_OSMAPL2S(book, vars)
      [] type = "ACOS_L2S_OR_OCO2_L1B" -> Add_Dim_Name_ACOS_L2S_OCO2_L1B(book, vars)
      [] type = "Mea_Ozone" -> Add_Dim_Name_Mea_Ozonel3z(book, vars, groups)
      [] type \in {"GPMS_L3", "GPMM_L3", "GPM_L1", "GPM_L3_New"} -> Add_Dim_Name_GPM(book, vars)
      [] OTHER -> Add_Dim_Name_General_Product(p)

Add_Dim_Name ==
    /\ At("Add_Dim_Name")
    /\ \E p \in {IF product_type = "OBPG_L3" THEN Check_General_Product_Pattern(file.meta, vars) ELSE pattern} :
       \E named \in {DimsNamed(product_type, p)} :
         /\ product_type' = IF p.kind = "GPM" THEN "GPM_L3_New" ELSE product_type
         /\ pattern' = p
         /\ book' = named.book /\ vars' = named.vars
         /\ ContinueUnless(named.book.failed)
         /\ UNCHANGED <<cvars, spvars, groups, iscoard, grp_cv_paths, have_nc4_non_coord, table>>

General(made, coards) ==
    [vars |-> made.vars, cvars |-> made.cvars, failed |-> made.failed, coards |-> coards, groups |-> {}]

Handle_CVar_General_Product ==
    CASE pattern.kind = "DIMSCALE" -> Handle_CVar_Dimscale_General_Product(book, vars, groups # <<>>)
      [] pattern.kind \in {"LATLON1D", "LATLON2D"} -> Handle_CVar_LatLon_General_Product(book, vars, pattern)
      [] OTHER -> General(Made(vars, cvars, FALSE), FALSE)

CVarsMade(type) ==
    CASE type \in {"Mea_SeaWiFS_L2", "Mea_SeaWiFS_L3"} ->
           General(Handle_CVar_Mea_SeaWiFS(book, vars, type = "Mea_SeaWiFS_L3"), type = "Mea_SeaWiFS_L3")
      [] type = "Aqu_L3" -> General(Handle_CVar_Aqu_L3(vars), TRUE)
      [] type = "OBPG_L3" -> Handle_CVar_OBPG_L3(Handle_CVar_General_Product)
      [] type = "OSMAPL2S" -> General(Handle_CVar_OSMAPL2S(book, vars), FALSE)
      [] type = "Mea_Ozone" -> General(Handle_CVar_Mea_Ozone(book, vars), TRUE)
      [] type \in {"GPMS_L3", "GPMM_L3", "GPM_L3_New"} -> General(Handle_CVar_GPM_L3(book, vars), TRUE)
      [] type = "GPM_L1" -> General(Handle_CVar_GPM_L1(book, vars), FALSE)
      [] OTHER -> Handle_CVar_General_Product

Handle_CVar ==
    /\ At("Handle_CVar")
    /\ \E made \in {CVarsMade(product_type)} :
         /\ vars' = made.vars /\ cvars' = made.cvars
         /\ iscoard' = made.coards /\ grp_cv_paths' = made.groups
         /\ ContinueUnless(made.failed)
         /\ UNCHANGED <<product_type, book, spvars, groups, pattern, have_nc4_non_coord, table>>

SpVar ==
    /\ At("Handle_SpVar")
    /\ \E made \in {Handle_SpVar(product_type, vars)} :
         vars' = made.vars /\ spvars' = made.spvars
    /\ Continue
    /\ UNCHANGED <<product_type, book, cvars, groups, pattern, iscoard, grp_cv_paths, have_nc4_non_coord, table>>

\* Variables of a type that has no DAP counterpart leave both lists.
Handle_Unsupported_Dtype ==
    /\ At("Handle_Unsupported_Dtype")
    /\ vars' = Those(vars, LAMBDA v : Supported(v.type))
    /\ cvars' = Those(cvars, LAMBDA v : Supported(v.type))
    /\ spvars' = Those(spvars, LAMBDA v : Supported(v.type))
    /\ Continue
    /\ UNCHANGED <<product_type, book, groups, pattern, iscoard, grp_cv_paths, have_nc4_non_coord, table>>

\* So do variables without elements.
Handle_Unsupported_Dspace ==
    /\ At("Handle_Unsupported_Dspace")
    /\ vars' = Those(vars, LAMBDA v : v.type # "nospace")
    /\ cvars' = Those(cvars, LAMBDA v : v.type # "nospace")
    /\ spvars' = Those(spvars, LAMBDA v : v.type # "nospace")
    /\ Continue
    /\ UNCHANGED <<product_type, book, groups, pattern, iscoard, grp_cv_paths, have_nc4_non_coord, table>>

------------------------------------------------------------------------------
(***************************************************************************)
(* Names.                                                                  *)
(***************************************************************************)

ShorterNames ==
    /\ At("Adjust_Obj_Name")
    /\ \E made \in {Adjust_Obj_Name(product_type, vars, cvars, groups)} :
         vars' = made.vars /\ cvars' = made.cvars
    /\ Continue
    /\ UNCHANGED <<product_type, book, spvars, groups, pattern, iscoard, grp_cv_paths, have_nc4_non_coord, table>>

\* Only the DAS and the DMR look at the groups.
Flatten_Obj_Name ==
    /\ At("Flatten_Obj_Name")
    /\ vars' = [i \in DOMAIN vars |-> Flat(vars[i])]
    /\ cvars' = [i \in DOMAIN cvars |-> Flat(cvars[i])]
    /\ spvars' = [i \in DOMAIN spvars |-> Flat(spvars[i])]
    /\ groups' = IF view = "DDS" THEN groups ELSE [i \in DOMAIN groups |-> get_CF_string(groups[i])]
    /\ Continue
    /\ UNCHANGED <<product_type, book, pattern, iscoard, grp_cv_paths, have_nc4_non_coord, table>>

\* The names of a product recognised by its metadata are only made unique on
\* demand.
Clashes == check_product(file.meta) = "General_Product" \/ CheckNameClashing

MutantObjNames ==
    /\ At("Handle_Obj_NameClashing")
    /\ \E gs \in {IF view = "DDS" THEN [taken |-> {}, names |-> groups]
                   ELSE Handle_General_NameClashing({table}, groups)} :
       \E cvs \in {Handle_General_NameClashing(gs.taken, NewNames(cvars))} :
         /\ cvars' = Renamed(cvars, cvs.names)
         /\ vars' = Renamed(vars, Handle_General_NameClashing(cvs.taken, NewNames(vars)).names)
         /\ groups' = gs.names
    /\ Continue
    /\ UNCHANGED <<product_type, book, spvars, pattern, iscoard, grp_cv_paths, have_nc4_non_coord, table>>

\* Coordinate variables keep their names against special variables, these
\* against variables, and all against the attribute tables of the file and of
\* groups.
Handle_Obj_NameClashing ==
    /\ At("Handle_Obj_NameClashing")
    /\ \/ ~Clashes /\ UNCHANGED <<cvars, spvars, vars, groups, table>>
       \/ /\ Clashes
          /\ \E cvs \in {Handle_General_NameClashing({}, NewNames(cvars))} :
             \E sps \in {Handle_General_NameClashing(cvs.taken, NewNames(spvars))} :
             \E vs \in {Handle_General_NameClashing(sps.taken, NewNames(vars))} :
             \E tab \in {IF table \in vs.taken THEN gen_unique_name(table, vs.taken) ELSE table} :
               /\ cvars' = Renamed(cvars, cvs.names)
               /\ spvars' = Renamed(spvars, sps.names)
               /\ vars' = Renamed(vars, vs.names)
               /\ IF view = "DDS" THEN UNCHANGED <<groups, table>>
                  ELSE /\ table' = tab
                       /\ groups' = Handle_General_NameClashing(vs.taken \cup {tab}, groups).names
    /\ Continue
    /\ UNCHANGED <<product_type, book, pattern, iscoard, grp_cv_paths, have_nc4_non_coord>>

HaveUnlimitedDim == \E v \in Range(file.vars) : \E d \in Range(v.dims) : d.unlimited

\* COARDS: a dimension gets the name of its coordinate variable, in every
\* variable; for the DAS only if the file has an unlimited dimension.
Adjust_Dim_Name ==
    /\ At("Adjust_Dim_Name")
    /\ IF iscoard /\ (view = "DAS" => HaveUnlimitedDim)
       THEN /\ ContinueUnless(\E c \in Range(cvars) : Rank(c) # 1)
            /\ vars' = [i \in DOMAIN vars |-> WithDims(vars[i], CVNames(cvars))]
            /\ cvars' = [i \in DOMAIN cvars |-> NamedByItself(cvars[i])]
       ELSE Continue /\ UNCHANGED <<vars, cvars>>
    /\ UNCHANGED <<product_type, book, spvars, groups, pattern, iscoard, grp_cv_paths, have_nc4_non_coord, table>>

MutantDimClash ==
    /\ At("Handle_DimNameClashing")
    /\ \E newname \in {NamesOf(FirstDims(cvars, vars), NewNames(FirstDims(cvars, vars)))} :
         /\ vars' = [i \in DOMAIN vars |-> WithDims(vars[i], newname)]
         /\ cvars' = [i \in DOMAIN cvars |-> WithDims(cvars[i], newname)]
         /\ Continue
         /\ UNCHANGED <<product_type, book, spvars, groups, pattern, iscoard, grp_cv_paths, have_nc4_non_coord, table>>

\* Dimensions of different names get different newnames, in the same products but
\* not in ACOS and OCO2.
Handle_DimNameClashing ==
    /\ At("Handle_DimNameClashing")
    /\ \E dims \in {IF Clashes /\ product_type # "ACOS_L2S_OR_OCO2_L1B" THEN FirstDims(cvars, vars) ELSE <<>>} :
       \E newname \in {NamesOf(dims, Handle_General_NameClashing({}, NewNames(dims)).names)} :
         /\ vars' = [i \in DOMAIN vars |-> WithDims(vars[i], newname)]
         /\ cvars' = [i \in DOMAIN cvars |-> WithDims(cvars[i], newname)]
         /\ Continue
         /\ UNCHANGED <<product_type, book, spvars, groups, pattern, iscoard, grp_cv_paths, have_nc4_non_coord, table>>

------------------------------------------------------------------------------
(***************************************************************************)
(* The attribute coordinates.                                              *)
(***************************************************************************)

\* The variable does not have the two dimensions of a 2-D coordinate variable,
\* each once and in their order.
Check_Var_2D_CVars(v) ==
    LET at(name) == {i \in DOMAIN v.dims : v.dims[i].name = name} IN
    ~ \E c \in Range(cvars) :
        /\ Rank(c) = 2 /\ c.dims[1].name # c.dims[2].name
        /\ Cardinality(at(c.dims[1].name)) = 1 /\ Cardinality(at(c.dims[2].name)) = 1
        /\ Min(at(c.dims[1].name)) < Min(at(c.dims[2].name))

MutantCoordinates(v) ==
    FlattenSeq([i \in DOMAIN v.dims |->
      LET cvs == SelectSeq(cvars, LAMBDA c : c.cfdimname = v.dims[i].name)
      IN [j \in DOMAIN cvs |-> <<get_CF_string(cvs[j].path)>>]])

\* The coordinate variables of the dimensions of the variable.
CoordinatesOf(v) ==
    FlattenSeq([i \in DOMAIN v.dims |->
      LET cvs == SelectSeq(cvars, LAMBDA c : c.cfdimname = v.dims[i].name)
      IN [j \in DOMAIN cvs |-> <<cvs[j].newname>>]])

\* Where 2-D coordinates were given up, the attribute of the file is kept.
GivenUp(v) == GroupOf(v.path) \in grp_cv_paths
KeptFlat(v) == IF GivenUp(v) THEN Flatten_VarPath_In_Coordinates_Attr(v) ELSE v

\* The first 2-D coordinate variable has names for both dimensions.
HasLL2D ==
    LET two == SelectSeq(cvars, LAMBDA c : Rank(c) = 2) IN
    \/ product_type = "General_Product" /\ pattern.kind = "DIMSCALE"
    \/ two # <<>> /\ \A d \in Range(Head(two).dims) : d.name # <<>>

\* A variable over the dimensions of 2-D coordinate variables gets the
\* attribute anew.
With2D(v) ==
    LET has2d == \E w \in Range(vars) : Rank(w) >= 2 /\ w.coordinates # <<>> IN
    CASE ForceFlatten /\ v.coordinates # <<>> -> Flatten_VarPath_In_Coordinates_Attr(v)
      [] /\ ~(ForceFlatten /\ v.coordinates # <<>>)
         /\ Rank(v) >= 2 /\ ~(has2d /\ ForceFlatten) /\ product_type # "OSMAPL2S"
         /\ ~GivenUp(v) /\ ~Check_Var_2D_CVars(v) ->
           [v EXCEPT !.coordinates = CoordinatesOf(v), !.addpath = FALSE]
      [] OTHER -> v

\* By product and pattern; COARDS products need no attribute.
CoorAttr(v) ==
    CASE product_type = "Mea_SeaWiFS_L2" -> v
      [] product_type = "General_Product" /\ pattern.kind = "COOR_ATTR" ->
           Handle_LatLon_With_CoordinateAttr_Coor_Attr(v, pattern.pairs)
      [] /\ product_type # "Mea_SeaWiFS_L2" /\ ~(product_type = "General_Product" /\ pattern.kind = "COOR_ATTR")
         /\ ~iscoard /\ HasLL2D -> With2D(KeptFlat(v))
      [] OTHER -> KeptFlat(v)

Handle_Coor_Attr ==
    /\ At("Handle_Coor_Attr")
    /\ IF product_type = "GPM_L1"
       THEN \E made \in {Handle_GPM_l1_Coor_Attr(vars, cvars)} : vars' = made.vars /\ ContinueUnless(made.failed)
       ELSE vars' = [i \in DOMAIN vars |-> CoorAttr(vars[i])] /\ Continue
    /\ UNCHANGED <<product_type, book, spvars, cvars, groups, pattern, iscoard, grp_cv_paths, have_nc4_non_coord, table>>

------------------------------------------------------------------------------
(***************************************************************************)
(* What is changed after names were made unique.                           *)
(***************************************************************************)

Has(name, word) == word \in Range(name)

\* The name without the first of these words.
Drop(name, word) ==
    IF ~Has(name, word) THEN name
    ELSE RemoveAt(name, Min({i \in DOMAIN name : name[i] = word}))

Before(name, word, other) == \E i, j \in DOMAIN name : i < j /\ name[i] = word /\ name[j] = other

\* The field of a grid, a zonal average or a swath without the group names of
\* HDF-EOS5; other names without HDFEOS and what follows it.
Remove_EOS5_Strings(name) ==
    LET rest == Drop(name, "HDFEOS")
        kinds == SelectSeq(<< <<"GRIDS", "Data_Fields">>, <<"ZAS", "Data_Fields">>,
                              <<"SWATHS", "Data_Fields">>, <<"SWATHS", "Geolocation_Fields">> >>,
                           LAMBDA k : Before(rest, k[1], k[2])) IN
    CASE Has(name, "HDFEOS") /\ kinds # <<>> -> Drop(Drop(rest, kinds[1][1]), kinds[1][2])
      [] Has(name, "HDFEOS") /\ kinds = <<>> ->
           IF rest # <<>> /\ Head(rest) \in {"GRIDS", "SWATHS", "ZAS"} THEN Tail(rest) ELSE rest
      [] OTHER -> Drop(name, "HDFEOS_INFORMATION")

\* An attribute that starts with HDFEOS loses the words of the first kind found
\* in it; names of both fields of a swath keep Geolocation_Fields.  A path does not
\* start with HDFEOS_.
EOS5Coordinates(coordinates) ==
    LET words == UNION {Range(p[1]) : p \in Range(coordinates)}
        flat == \A p \in Range(coordinates) : Len(p) = 1
        kind == CASE "GRIDS" \in words -> "GRIDS"
                  [] "GRIDS" \notin words /\ "ZAS" \in words -> "ZAS"
                  [] OTHER -> "SWATHS"
        fields == IF kind = "SWATHS" /\ "Data_Fields" \notin words THEN "Geolocation_Fields" ELSE "Data_Fields"
    IN IF /\ coordinates # <<>> /\ flat
          /\ Head(coordinates[1][1]) = "HDFEOS" /\ kind \in words /\ fields \in words
       THEN [i \in DOMAIN coordinates |->
               <<SelectSeq(coordinates[i][1], LAMBDA w : w \notin {"HDFEOS", kind, fields})>>]
       ELSE coordinates

WithoutEOS5(v) ==
    [v EXCEPT !.newname = Remove_EOS5_Strings(@),
              !.dims = [i \in DOMAIN @ |-> [@[i] EXCEPT !.newname = Remove_EOS5_Strings(@)]]]

WithEOS5Coordinates(v) ==
    IF EOS5Coordinates(v.coordinates) = v.coordinates THEN v
    ELSE [v EXCEPT !.coordinates = EOS5Coordinates(@), !.addpath = FALSE]

Handle_Hybrid_EOS5 ==
    /\ At("Handle_Hybrid_EOS5")
    /\ vars' = [i \in DOMAIN vars |-> WithEOS5Coordinates(WithoutEOS5(vars[i]))]
    /\ cvars' = [i \in DOMAIN cvars |-> WithoutEOS5(cvars[i])]
    /\ Continue
    /\ UNCHANGED <<product_type, book, spvars, groups, pattern, iscoard, grp_cv_paths, have_nc4_non_coord, table>>

\* If the file has a variable of an unsupported type, dimensions made up for
\* it have no variable left and lose their coordinate variable.
Remove_Unused_FakeDimVars ==
    LET used == UNION {{d.newname : d \in Range(v.dims)} : v \in Range(vars)} IN
    /\ At("Remove_Unused_FakeDimVars")
    /\ cvars' = IF \E v \in Range(file.vars) : ~Supported(v.type)
                THEN Those(cvars, LAMBDA c : IsFakeDim(c.newname) => c.newname \in used)
                ELSE cvars
    /\ Continue
    /\ UNCHANGED <<product_type, book, spvars, vars, groups, pattern, iscoard, grp_cv_paths, have_nc4_non_coord, table>>

\* The name without as many characters as the prefix has: the prefix, or, for
\* a variable in a group, the name of the group and a part of the prefix.  The
\* groups of such variables have names of one length.
CutNC4(name) ==
    LET at == Min({i \in DOMAIN name : name[i] = NC4}) IN
    IF at = 1 THEN Tail(name) ELSE <<"nc4", ToString(at)>> \o SubSeq(name, at + 1, Len(name))

Restored(v) == IF IsNonCoord(v) THEN [v EXCEPT !.newname = CutNC4(@)] ELSE v

Rename_NC4_NonCoordVars ==
    /\ At("Rename_NC4_NonCoordVars")
    /\ IF have_nc4_non_coord
       THEN /\ vars' = [i \in DOMAIN vars |-> Restored(vars[i])]
            /\ cvars' = [i \in DOMAIN cvars |-> Restored(cvars[i])]
       ELSE UNCHANGED <<vars, cvars>>
    /\ Continue
    /\ UNCHANGED <<product_type, book, spvars, groups, pattern, iscoard, grp_cv_paths, have_nc4_non_coord, table>>

\* In a DAS and a DMR the attribute coordinates that no stage has written.
Add_Path_Coord_Attr ==
    /\ At("Add_Path_Coord_Attr")
    /\ IF CoorattrAddPath THEN vars' = [i \in DOMAIN vars |-> WithPathCoord(vars[i])] ELSE UNCHANGED vars
    /\ Continue
    /\ UNCHANGED <<product_type, book, spvars, cvars, groups, pattern, iscoard, grp_cv_paths, have_nc4_non_coord, table>>

\* Names listed so far and one more, unless it is found somewhere in them.
Listed(names, name) ==
    IF \E n \in Range(names) : \E i, j \in 1..Len(n) : SubSeq(n, i, j) = name THEN names
    ELSE Append(names, name)

\* Variables, then coordinate and special variables.  The DAS puts the file's attributes
\* into the table of the name that h5gmcfdap.cc has, and lists the unlimited
\* dimensions of coordinate variables.
gen_gmh5_cf ==
    LET udims == SelectSeq(FlattenSeq([i \in DOMAIN cvars |-> cvars[i].dims]), LAMBDA d : d.unlimited) IN
    /\ At("gen")
    /\ todo' = <<>>
    /\ answers' = [answers EXCEPT ![view] =
         <<"given", [vars |-> vars \o cvars \o spvars, cvars |-> cvars, coards |-> iscoard,
                     names |-> book.dimnamelist, tables |-> <<FILE_ATTR_TABLE_NAME>> \o groups,
                     unlimited |-> FoldLeft(LAMBDA ns, d : Listed(ns, d.newname), <<>>, udims)]>>]
    /\ UNCHANGED <<cfg, file, view, gmfile, table>>

Next ==
    \/ \E v \in Views : Retrieve_H5_Info(v)
    \/ Update_Product_Type \/ Remove_Unneeded_Objects \/ Add_Dim_Name \/ Handle_CVar
    \/ SpVar \/ Handle_Unsupported_Dtype \/ Handle_Unsupported_Dspace \/ ShorterNames
    \/ Flatten_Obj_Name \/ Handle_Obj_NameClashing
    \/ Adjust_Dim_Name \/ Handle_DimNameClashing \/ Handle_Coor_Attr \/ Handle_Hybrid_EOS5
    \/ Remove_Unused_FakeDimVars \/ Rename_NC4_NonCoordVars \/ Add_Path_Coord_Attr \/ gen_gmh5_cf

Spec == Init /\ [][Next]_all

------------------------------------------------------------------------------
(***************************************************************************)
(* Properties.                                                             *)
(***************************************************************************)

\* Between requests, which is when answers have changed.
Given(v) == todo = <<>> /\ answers[v] # None /\ answers[v] # Failed
Answer(v) == answers[v][2]

HadNoCoordinates(path) == \A a \in Range(file.vars) : a.path = path => a.coordinates = <<>>

\* The name of the variable is none that is changed after names were made unique.
KeepsName(a) ==
    ~IsNonCoord(a) /\ \A word \in {"HDFEOS", "HDFEOS_INFORMATION"} : ~Has(get_CF_string(a.path), word)

\* No name of the file is one of these.
Plain == \A v \in Range(file.vars) : KeepsName(v)

\* The variables of an answer that keep their names have different ones, and in a
\* DAS and a DMR no group has the name of one of them or of another group.
NamesApart(v) ==
    LET as == Answer(v).vars
        kept == {i \in DOMAIN as : KeepsName(as[i])}
        tables == Tail(Answer(v).tables) IN
    /\ \A i, j \in kept : as[i].newname = as[j].newname => i = j
    /\ v # "DDS" => IsInjective(tables) /\ \A i \in kept : as[i].newname \notin Range(tables)

\* No two variables of a DDS, a DAS or a DMR have the same name, whatever the
\* paths of the file look like after flattening, and no variable that of the
\* table of a group (Handle_Obj_NameClashing: all object names are unique), where
\* names are made unique; names that are changed later may equal another.
UniqueNames == \A v \in Views : Given(v) /\ Clashes => NamesApart(v)

NamesFor(v, path) == {a.newname : a \in {b \in Range(Answer(v).vars) : b.path = path}}

\* The three answers give a variable the same name, so that a client finds the
\* attributes of what it reads; also one that is split in two.
SameNames ==
    \A v, w \in Views : Given(v) /\ Given(w) =>
      \A path \in {a.path : a \in Range(Answer(v).vars)} :
        NamesFor(w, path) # {} => NamesFor(v, path) = NamesFor(w, path)

\* In a DDS and a DMR two dimensions have one name exactly if they are the same
\* dimension of the file, in every variable that uses them.
DimensionsKeepTheirIdentity ==
    \A v \in {"DDS", "DMR"} : Given(v) /\ Clashes =>
      LET dims == UNION {Range(a.dims) : a \in Range(Answer(v).vars)} IN
      \A d, e \in dims : d.name = e.name <=> d.newname = e.newname

\* Variables that only tell how a file was made.
AboutTheFile(a) == NameOf(a.path) \in GPMInputs \cup {<<"AlgorithmRuntimeInfo">>} \/ ~Kept(a.path)

\* Every variable of the file whose type is supported is answered once, and a
\* 64-bit integer of ACOS and OCO2 in two halves, moved to the coordinate
\* variables or back or not; only netCDF dimensions may go.
NothingLost ==
    \A v \in Views : Given(v) /\ Plain =>
      LET split(a) == check_product(file.meta) = "ACOS_L2S_OR_OCO2_L1B" /\ a.type = "int64"
          answered(a) == Cardinality({i \in DOMAIN Answer(v).vars : Answer(v).vars[i].path = a.path}) IN
      \A a \in Range(file.vars) :
        /\ answered(a) <= IF split(a) THEN 2 ELSE 1
        /\ a.scale # "dimension" /\ ~AboutTheFile(a) =>
             CASE split(a) -> answered(a) = 2
               [] ~split(a) /\ (a.type \in {"num", "float"} \/ (a.type = "int64" /\ v = "DMR")) -> answered(a) = 1
               [] OTHER -> answered(a) <= 1

\* A dimension that has a scale in the file has at most one coordinate
\* variable, so never a 1-D and a 2-D latitude (Update_M2DLatLon_Dimscale_CVs);
\* a latitude and a longitude over one dimension, twice, both get it.
OneCVPerDimension ==
    \A v \in Views : Given(v) =>
      \A i, j \in DOMAIN Answer(v).cvars :
        LET c == Answer(v).cvars[i]
            d == Answer(v).cvars[j]
            square(a) == Rank(a) = 2 /\ a.dims[1].name = a.dims[2].name IN
        i # j /\ c.cfdimname = d.cfdimname =>
          square(c) \/ square(d) \/ c.cfdimname \notin {a.path : a \in Range(file.vars)}

\* No two paths of the file have one DAP name.
Distinct == \A a, b \in Range(file.vars) : get_CF_string(a.path) = get_CF_string(b.path) => a.path = b.path

\* The path in the file that a coordinate of the variable with this path means.
Meant(path, co) ==
    LET ups == Cardinality({i \in DOMAIN co : co[i] = Up}) IN
    CASE co[1] = <<>>                              -> co
      [] Len(co) = 1                               -> GroupOf(path) \o co
      [] co[1] = Up /\ ups < Len(path)             -> SubSeq(path, 1, Len(path) - 1 - ups) \o SubSeq(co, ups + 1, Len(co))
      [] OTHER                                     -> Root \o co

\* Each coordinate of the file's variable b that means a variable of the answer is
\* called in a, which is b in the answer, what that variable is called.
Consistent(v, b, a) ==
    \A p \in Range(b.coordinates) : \A t \in Range(Answer(v).vars) :
      t.path = Meant(b.path, p) => <<t.newname>> \in Range(a.coordinates)

\* Bare names only, or paths without Up only.
OfOneKind(coordinates) ==
    \/ \A p \in Range(coordinates) : Len(p) = 1
    \/ \A p \in Range(coordinates) : Len(p) > 1 /\ p[1] # Up

\* A variable of a general product has a coordinate that the file gives it, as a
\* path or as a bare name in its group, by the name the answer gives to what it
\* means, whichever of the stages that may flatten the attribute has done so
\* (Add_Path_Coord_Attr), with both keys as they are by default.  An attribute that
\* is flattened before its bare names and its paths that go up are resolved is
\* excepted if it has these among others.
CoordinatesKept ==
    \A v \in {"DAS", "DMR"} :
      Given(v) /\ CoorattrAddPath /\ ForceFlatten
      /\ check_product(file.meta) = "General_Product" /\ Distinct /\ Plain =>
        \A a \in Range(Answer(v).vars), b \in Range(file.vars) :
          a.role = "var" /\ a.path = b.path /\ (a.addpath \/ OfOneKind(b.coordinates)) => Consistent(v, b, a)

\* The attribute coordinates that is made for a variable names coordinate
\* variables of its dimensions, by the names they have in this answer and in
\* the DDS, whatever was renamed (Handle_Coor_Attr); at GPM level 1 those of the
\* swath the variable is in.
CoordinatesFound ==
    \A v \in {"DAS", "DMR"} : Given(v) /\ ~Answer(v).coards /\ Plain =>
      \A a \in Range(Answer(v).vars) :
        a.role = "var" /\ a.coordinates # <<>> /\ HadNoCoordinates(a.path) =>
          \A w \in {u \in {v, "DDS"} : Given(u)} : \A p \in Range(a.coordinates) :
            \E c \in Range(Answer(w).cvars) :
              /\ c.newname = p[1]
              /\ \E d \in Range(a.dims) :
                   \/ d.name = c.cfdimname
                   \/ d.name = <<Last(c.cfdimname)>> /\ Encloses(GroupOf(c.path), GroupOf(a.path))

=============================================================================
