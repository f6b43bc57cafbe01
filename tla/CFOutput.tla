------------------------------ MODULE CFOutput ------------------------------
(***************************************************************************)
(* From the objects of a file to its DDS, DAS and DMR (CF option).         *)
(*                                                                         *)
(* A file is [vars, cvars, spvars, groups, attributes, unlimited, product],*)
(* product being "EOS5", "GPM" or "general".  A variable is [name, path,   *)
(* type, dims, attributes] and, when it is a coordinate variable, [cvtype, *)
(* proj, params] too; a dimension is [name, size, unlimited], a group      *)
(* [name, attributes], an attribute [name, type, values].  proj is "none"  *)
(* but in grids of HDF-EOS5, whose params count from 1.  A DAP name is a   *)
(* sequence of pieces that no step cuts; the value of a text is a sequence *)
(* of them, the empty one being the empty text; other values are integers. *)
(* A floating-point fill value is counted in tenths.                       *)
(*                                                                         *)
(* What a function adds is a sequence; <<>> stands for nothing added.      *)
(***************************************************************************)
EXTENDS Integers, SequencesExt

------------------------------------------------------------------------------
(***************************************************************************)
(* Types.                                                                  *)
(***************************************************************************)

\* DAP2 has no signed byte and no 64-bit integer.
DDSType == [H5FLOAT32 |-> "Float32", H5FLOAT64 |-> "Float64", H5CHAR |-> "Int16", H5UCHAR |-> "Byte",
            H5INT16 |-> "Int16", H5UINT16 |-> "UInt16", H5INT32 |-> "Int32", H5UINT32 |-> "UInt32",
            H5FSTRING |-> "String", H5VSTRING |-> "String"]
DMRType == [DDSType EXCEPT !.H5CHAR = "Int8"] @@ [H5INT64 |-> "Int64", H5UINT64 |-> "UInt64"]

\* Special variables are two halves of a 64-bit integer, in DAP4 too.
SpecialDMRType == [DDSType EXCEPT !.H5CHAR = "Byte"]

Is64Bit(x) == x.type \in {"H5INT64", "H5UINT64"}
IsText(x)  == x.type \in {"H5FSTRING", "H5VSTRING"}

\* The type of an attribute in a DAS, where unsigned types are spelled as DAP2 does.
print_type(type) ==
    CASE type = "H5UINT16" -> "Uint16"
      [] type = "H5UINT32" -> "Uint32"
      [] type \in {"H5INT64", "H5UINT64"} -> DMRType[type]
      [] OTHER -> IF type \in DOMAIN DDSType THEN DDSType[type] ELSE "Unsupported"

print_type_dap4(type) == IF type \in DOMAIN DMRType THEN DMRType[type] ELSE "null"

\* Back to a type of DAP4, which is spelled otherwise.
daptype_strrep_to_dap4_attrtype(s) == IF s \in {"Uint16", "Uint32", "Unsupported"} THEN "null" ELSE s

------------------------------------------------------------------------------
(***************************************************************************)
(* Attributes of a DAS: a table is [name, attributes].                     *)
(***************************************************************************)

\* The table of a name, which is added when there is none (AttrTable).
TableAt(das, name) == SelectInSeq(das, LAMBDA t : t.name = name)
WithTable(das, name) == IF TableAt(das, name) = 0 THEN Append(das, [name |-> name, attributes |-> <<>>]) ELSE das

\* An attribute that is there gets the values appended (append_attr).
append_attr(attributes, a) ==
    LET i == SelectInSeq(attributes, LAMBDA b : b.name = a.name) IN
    CASE a.values = <<>>             -> attributes
      [] a.values # <<>> /\ i = 0    -> Append(attributes, a)
      [] OTHER                       -> [attributes EXCEPT ![i].values = @ \o a.values]

AppendAll(das, name, attributes) ==
    LET tables == WithTable(das, name) IN
    [tables EXCEPT ![TableAt(tables, name)].attributes = FoldLeft(append_attr, @, attributes)]

need_special_attribute_handling(a, v) == a.name = <<"_FillValue">> /\ v.type # a.type

\* Which fill values are found to be out of the range of the variable's type.
is_fvalue_valid(type, a) ==
    LET value == a.values[1] IN
    CASE a.type = "H5CHAR"   -> ~(type = "H5UCHAR" /\ value < 0)
      [] a.type = "H5INT16"  -> ~(type = "H5UCHAR" /\ value \notin 0..255) /\ ~(type = "H5UINT16" /\ value < 0)
      [] a.type = "H5UINT16" -> ~(type = "H5UCHAR" /\ value > 255) /\ ~(type = "H5INT16" /\ value > 32767)
      [] OTHER               -> TRUE

\* A text loses its empty strings.
gen_dap_str_attr(a) == [name |-> a.name, type |-> "String", values |-> SelectSeq(a.values, LAMBDA s : s # <<>>)]
Printed(a, type)    == [name |-> a.name, type |-> print_type(type), values |-> a.values]

\* A fill value takes the type of its variable.
gen_dap_special_oneobj_das(a, v) == Printed(a, v.type)

\* It throws when it has several values or, if that is checked, one out of range.
SpecialThrows(a, v, check) == Len(a.values) # 1 \/ (check /\ ~is_fvalue_valid(v.type, a))

\* The attribute that a DAS gets for one of a file, a group or a variable; a 64-bit
\* integer gets none.
MutantOneObj(a, v) ==
    CASE Is64Bit(a) -> <<>>
      [] IsText(a)  -> <<gen_dap_str_attr(a)>>
      [] OTHER      -> <<Printed(a, a.type)>>
gen_dap_oneobj_das(a, v) ==
    CASE Is64Bit(a) -> <<>>
      [] IsText(a)  -> <<gen_dap_str_attr(a)>>
      [] OTHER      -> IF need_special_attribute_handling(a, v) THEN <<gen_dap_special_oneobj_das(a, v)>>
                       ELSE <<Printed(a, a.type)>>

\* What is no variable converts no fill value.
NoVariable(a) == [type |-> a.type]

OfNone(attributes)    == FlattenSeq([i \in DOMAIN attributes |-> gen_dap_oneobj_das(attributes[i], NoVariable(attributes[i]))])
OfVariable(v)         == FlattenSeq([i \in DOMAIN v.attributes |-> gen_dap_oneobj_das(v.attributes[i], v)])
VariableThrows(v, check) ==
    \E i \in DOMAIN v.attributes :
      LET a == v.attributes[i] IN
      ~Is64Bit(a) /\ ~IsText(a) /\ need_special_attribute_handling(a, v) /\ SpecialThrows(a, v, check)

\* The variables that have attributes and are not 64-bit integers get their tables.
WithVariable(das, v) ==
    IF v.attributes = <<>> \/ Is64Bit(v) THEN das ELSE AppendAll(das, v.name, OfVariable(v))
WithSpecial(das, s) == IF s.attributes = <<>> THEN das ELSE AppendAll(das, s.name, OfVariable(s))

------------------------------------------------------------------------------
(***************************************************************************)
(* Attributes of a DMR.                                                    *)
(***************************************************************************)

\* No type is changed, so a fill value keeps its own.
gen_dap4_attr(a) ==
    [name |-> a.name, type |-> print_type_dap4(a.type),
     values |-> IF IsText(a) THEN SelectSeq(a.values, LAMBDA s : s # <<>>) ELSE a.values]
map_cfh5_var_attrs_to_dap4(v) == [i \in DOMAIN v.attributes |-> gen_dap4_attr(v.attributes[i])]

\* A coordinate is found from the group of the variable: by its name alone, or by
\* a path that starts with "..".  A path that starts with "/" has an empty first
\* element, a path is a sequence.
cha_co(co, path) ==
    LET ups == {i \in DOMAIN co : co[i] = ".."} IN
    CASE Len(path) = 1                  -> co
      [] Len(path) > 1 /\ Len(co) = 1   -> Front(path) \o co
      [] OTHER -> IF co[1] = ".." /\ Cardinality(ups) < Len(path)
                  THEN SubSeq(path, 1, Len(path) - 1 - Cardinality(ups)) \o SubSeq(co, Max(ups) + 1, Len(co))
                  ELSE co

\* A path is flattened to a name without the leading slash.
get_cf_string(path) == SelectSeq(path, LAMBDA e : e # "")

handle_coor_attr_for_int64_var(a, path, addpath) ==
    [i \in DOMAIN a.values |-> IF addpath THEN get_cf_string(cha_co(a.values[i], path)) ELSE a.values[i]]

\* The attributes of a 64-bit variable go by way of the DAP2 type.
map_cfh5_var_attrs_to_dap4_int64(v, addpath) ==
    [i \in DOMAIN v.attributes |->
       LET a == v.attributes[i] IN
       [name |-> a.name, type |-> daptype_strrep_to_dap4_attrtype(print_type(a.type)),
        values |-> CASE a.name = <<"coordinates">> /\ IsText(a) -> handle_coor_attr_for_int64_var(a, v.path, addpath)
                     [] a.name # <<"coordinates">> /\ IsText(a) -> SelectSeq(a.values, LAMBDA s : s # <<>>)
                     [] OTHER                                   -> a.values]]
    \o <<[name |-> <<"origname">>, type |-> "String", values |-> <<<<Last(v.path)>>>>],
         [name |-> <<"fullnamepath">>, type |-> "String", values |-> <<v.path>>]>>

\* The 64-bit attributes of the file and of its groups, in a container of their own.
check_update_int64_attr(file) ==
    LET of(name, attributes) == LET long == SelectSeq(attributes, Is64Bit) IN
          [i \in DOMAIN long |-> [group |-> name, name |-> long[i].name,
                                  type |-> daptype_strrep_to_dap4_attrtype(print_type(long[i].type)),
                                  values |-> long[i].values]] IN
    of(<<>>, file.attributes)
    \o FlattenSeq([g \in DOMAIN file.groups |-> of(file.groups[g].name, file.groups[g].attributes)])

------------------------------------------------------------------------------
(***************************************************************************)
(* Variables of a DDS and a DMR: [name, type, dims], with the attributes   *)
(* in a DMR.                                                               *)
(***************************************************************************)

Shape(v) == [i \in DOMAIN v.dims |-> [name |-> v.dims[i].name, size |-> v.dims[i].size]]
Declared(v, types) == [name |-> v.name, type |-> types[v.type], dims |-> Shape(v)]
DMRVariable(v, types, attributes) ==
    [name |-> v.name, type |-> types[v.type], dims |-> Shape(v), attributes |-> attributes]

\* Variables of other types are refused.
Refused(v, types) == v.type \notin DOMAIN types

\* A 64-bit variable is in no DDS; when a DMR is made from the DDS it goes straight
\* to the DMR.
gen_dap_onevar_dds(v) == IF Is64Bit(v) THEN <<>> ELSE <<Declared(v, DDSType)>>
Int64Variable(v, addpath) ==
    IF Is64Bit(v) THEN <<DMRVariable(v, DMRType, map_cfh5_var_attrs_to_dap4_int64(v, addpath))>> ELSE <<>>
gen_dap_onevar_dmr(v) == DMRVariable(v, DMRType, map_cfh5_var_attrs_to_dap4(v))

\* The kinds of coordinate variables that have values of their own; those but latitude
\* and longitude have one dimension.
LinearKinds(product) ==
    {"CV_NONLATLON_MISS", "CV_SPECIAL"} \cup (IF product = "EOS5" THEN {} ELSE {"CV_FILLINDEX"})

\* A coordinate variable is an array of a kind that the product has.
CVRefused(c, product) ==
    \/ c.dims = <<>>
    \/ c.cvtype \notin {"CV_EXIST", "CV_LAT_MISS", "CV_LON_MISS"} \cup LinearKinds(product)
    \/ c.cvtype \in LinearKinds(product) /\ Len(c.dims) # 1

\* A 64-bit one is in no DDS and, this way, in no DMR.
gen_dap_onecvar_dds(c) == gen_dap_onevar_dds(c)

\* Latitudes and longitudes of the azimuthal projection may lie outside of it.
add_ll_valid_range(type, cvtype) ==
    LET limit == IF cvtype = "CV_LAT_MISS" THEN 90 ELSE 180 IN
    <<[name |-> <<"valid_min">>, type |-> type, values |-> <<-limit>>],
      [name |-> <<"valid_max">>, type |-> type, values |-> <<limit>>]>>
HasRange(c) == c.proj = "LAMAZ" /\ c.cvtype \in {"CV_LAT_MISS", "CV_LON_MISS"}

gen_dap_onegmcvar_dmr(c) == DMRVariable(c, DMRType, map_cfh5_var_attrs_to_dap4(c))
gen_dap_oneeos5cvar_dmr(c) ==
    [gen_dap_onegmcvar_dmr(c) EXCEPT
       !.attributes = IF HasRange(c) THEN @ \o add_ll_valid_range("Float64", c.cvtype) ELSE @]

gen_dap_onegmspvar_dmr(s) == DMRVariable(s, SpecialDMRType, map_cfh5_var_attrs_to_dap4(s))
SPRefused(s) == Refused(s, DDSType) \/ s.dims = <<>>

------------------------------------------------------------------------------
(***************************************************************************)
(* Projected grids of HDF-EOS5: each missing latitude stands for a grid.   *)
(***************************************************************************)

Grids(file) == SelectSeq(file.cvars, LAMBDA c : c.cvtype = "CV_LAT_MISS" /\ c.proj # "GEO")

\* All sinusoidal grids share a variable, the others have one each.
ProjectionName(proj, suffix) ==
    IF proj = "SNSOID" THEN <<"eos_cf_projection">> ELSE <<"eos_cf_projection", ToString(suffix)>>

\* The shared variable is only made for the first of all projected grids.
MutantHasProjectionVar(proj, suffix) == proj # "SNSOID"
HasProjectionVar(proj, suffix) == proj = "SNSOID" => suffix = 1

add_cf_grid_mapinfo_var(proj, suffix) ==
    IF HasProjectionVar(proj, suffix) THEN <<[name |-> ProjectionName(proj, suffix), type |-> "Byte", dims |-> <<>>]>>
    ELSE <<>>

\* A coordinate variable for either dimension, the first being the y axis.
Axis(c, i) == [name |-> c.dims[i].name, type |-> "Float64", dims |-> <<Shape(c)[i]>>]
add_cf_grid_cvs(c) == <<Axis(c, 1), Axis(c, 2)>>

AxisAttributes(i) ==
    [k \in 1..4 |-> [name |-> << <<"standard_name", "long_name", "units", "_CoordinateAxisType">>[k] >>, type |-> "String",
                     values |-> << << <<IF i = 1 THEN "projection_y_coordinate" ELSE "projection_x_coordinate",
                                        IF i = 1 THEN "y coordinate of projection" ELSE "x coordinate of projection",
                                        "meter", IF i = 1 THEN "GeoY" ELSE "GeoX">>[k] >> >>]]

\* Whole degrees of a packed angle (HE5_EHconvAng).
Degrees(packed) == IF packed < 0 THEN -((-packed) \div 1000000) ELSE packed \div 1000000

\* The description of a projection from its parameters, counted from 0 in the code.
ProjectionAttributes(proj, params) ==
    LET text(name, value)   == [name |-> <<name>>, type |-> "String", values |-> <<<<value>>>>]
        number(name, value) == [name |-> <<name>>, type |-> "Float64", values |-> <<value>>]
        false_origin == <<number("false_easting", params[7]), number("false_northing", params[8])>>
        axes == <<text("_CoordinateAxisTypes", "GeoX GeoY")>> IN
    CASE proj = "SNSOID" ->
           <<text("grid_mapping_name", "sinusoidal"), number("longitude_of_central_meridian", 0),
             number("earth_radius", 6371007)>> \o axes
      [] proj = "PS" ->
           <<text("grid_mapping_name", "polar_stereographic"),
             number("straight_vertical_longitude_from_pole", Degrees(params[5])),
             number("standard_parallel", Degrees(params[6]))>> \o false_origin
           \o <<number("latitude_of_projection_origin", IF Degrees(params[6]) > 0 THEN 90 ELSE -90)>> \o axes
      [] proj = "LAMAZ" ->
           <<text("grid_mapping_name", "lambert_azimuthal_equal_area"),
             number("longitude_of_projection_origin", Degrees(params[5])),
             number("latitude_of_projection_origin", Degrees(params[6]))>> \o false_origin \o axes

\* They are only written to a table that is new.
add_cf_projection_attrs(das, c, suffix) ==
    LET name == ProjectionName(c.proj, suffix) IN
    IF TableAt(das, name) # 0 THEN das ELSE AppendAll(das, name, ProjectionAttributes(c.proj, c.params))

\* A variable on the grid has both of its dimensions; a dimension that is the first
\* one is not compared with the second.
OnGrid(c, dims) ==
    /\ Len(dims) > 1
    /\ \E i \in DOMAIN dims : dims[i] = Shape(c)[1]
    /\ \E i \in DOMAIN dims : dims[i] = Shape(c)[2] /\ dims[i] # Shape(c)[1]

GridMapping(c, suffix) ==
    [name |-> <<"grid_mapping">>, type |-> "String", values |-> <<ProjectionName(c.proj, suffix)>>]

add_cf_grid_mapping_attr(das, vars, c, suffix) ==
    FoldLeft(LAMBDA d, v : IF OnGrid(c, Shape(v)) THEN AppendAll(d, v.name, <<GridMapping(c, suffix)>>) ELSE d, das, vars)

add_cf_grid_cv_attrs(das, vars, c, suffix) ==
    LET axes == AppendAll(AppendAll(das, c.dims[1].name, AxisAttributes(1)), c.dims[2].name, AxisAttributes(2)) IN
    add_cf_grid_mapping_attr(add_cf_projection_attrs(axes, c, suffix), vars, c, suffix)

\* In a DMR the variables of the file that are already there get the attribute.
gen_gm_oneproj_var(dmr, c, suffix) ==
    LET name == ProjectionName(c.proj, suffix)
        made == IF HasProjectionVar(c.proj, suffix)
                THEN <<[name |-> name, type |-> "Byte", dims |-> <<>>, attributes |-> ProjectionAttributes(c.proj, c.params)]>>
                ELSE <<>>
        vars == dmr \o made IN
    [i \in DOMAIN vars |-> IF OnGrid(c, vars[i].dims) THEN [vars[i] EXCEPT !.attributes = Append(@, GridMapping(c, suffix))]
                           ELSE vars[i]]

Spcv(c, i) ==
    [name |-> c.dims[i].name, type |-> "Float64", dims |-> <<Shape(c)[i]>>, attributes |-> AxisAttributes(i)]
MutantSpcvs(c)  == <<Spcv(c, 1)>>
add_gm_spcvs(c) == <<Spcv(c, 1), Spcv(c, 2)>>

------------------------------------------------------------------------------
(***************************************************************************)
(* Special cases.                                                          *)
(***************************************************************************)

\* GPM files have no fill values: they are added as their document says.
GpmFill == [H5FLOAT32 |-> -99999, H5FLOAT64 |-> -99999, H5INT16 |-> -9999, H5CHAR |-> -99]
update_GPM_special_attrs(das, v, is_cvar) ==
    IF v.type \notin DOMAIN GpmFill THEN das
    ELSE LET tables == WithTable(das, v.name)
             has == \E i \in DOMAIN tables[TableAt(tables, v.name)].attributes :
                      tables[TableAt(tables, v.name)].attributes[i].name = <<"_FillValue">> IN
         IF is_cvar \/ has THEN tables
         ELSE AppendAll(tables, v.name,
                        <<[name |-> <<"_FillValue">>, type |-> print_type(v.type), values |-> <<GpmFill[v.type]>>]>>)

\* Unlimited dimensions are told from the coordinate variables: each name once, but
\* for one that is part of the text of those before it.
PartOf(name, text) == \E i \in 0..(Len(text) - Len(name)) : SubSeq(text, i + 1, i + Len(name)) = name
UnlimitedNames(cvars) ==
    LET dims == SelectSeq(FlattenSeq([i \in DOMAIN cvars |-> cvars[i].dims]), LAMBDA d : d.unlimited) IN
    FoldLeft(LAMBDA u, d :
               CASE u.text = <<>>                          -> [text |-> d.name, names |-> Append(u.names, d.name)]
                 [] u.text # <<>> /\ PartOf(d.name, u.text) -> u
                 [] OTHER -> [text |-> u.text \o <<" ">> \o d.name, names |-> Append(u.names, d.name)],
             [text |-> <<>>, names |-> <<>>], dims)

------------------------------------------------------------------------------
(***************************************************************************)
(* The responses: [ok, ...].                                               *)
(***************************************************************************)

Failed == [ok |-> FALSE]

\* What a DDS has of a variable's attributes: those of a supported type, and none
\* when it is an HDF-EOS5 file's, which is read without them.
Supported(v, product) ==
    [v EXCEPT !.attributes = IF product = "EOS5" THEN <<>> ELSE SelectSeq(@, LAMBDA a : a.type \in DOMAIN DMRType)]

\* DDS: the variables, with the 64-bit ones that go to the DMR when one is made
\* from it.
GridsRefused(file) == file.product = "EOS5" /\ \E i \in DOMAIN Grids(file) : Len(Grids(file)[i].dims) # 2
DDSRefused(file) ==
    \/ \E v \in ToSet(file.vars) : Refused(v, DMRType)
    \/ \E c \in ToSet(file.cvars) : ~Is64Bit(c) /\ (Refused(c, DDSType) \/ CVRefused(c, file.product))
    \/ \E s \in ToSet(file.spvars) : SPRefused(s)
    \/ GridsRefused(file)

gen_gmh5_cfdds(file) ==
    FlattenSeq([i \in DOMAIN file.vars |-> gen_dap_onevar_dds(file.vars[i])])
    \o FlattenSeq([i \in DOMAIN file.cvars |-> gen_dap_onecvar_dds(file.cvars[i])])
    \o FlattenSeq([i \in DOMAIN file.spvars |-> gen_dap_onevar_dds(file.spvars[i])])
gen_eos5_cfdds(file) ==
    FlattenSeq([i \in DOMAIN file.vars |-> gen_dap_onevar_dds(file.vars[i])])
    \o FlattenSeq([i \in DOMAIN file.cvars |-> gen_dap_onecvar_dds(file.cvars[i])])
    \o FlattenSeq([i \in DOMAIN Grids(file) |-> add_cf_grid_cvs(Grids(file)[i]) \o add_cf_grid_mapinfo_var(Grids(file)[i].proj, i)])

gen_cfdds(file, dmr, addpath) ==
    IF DDSRefused(file) THEN Failed
    ELSE [ok |-> TRUE,
          vars |-> IF file.product = "EOS5" THEN gen_eos5_cfdds(file) ELSE gen_gmh5_cfdds(file),
          root |-> IF dmr THEN FlattenSeq([i \in DOMAIN file.vars |-> Int64Variable(Supported(file.vars[i], file.product), addpath)])
                   ELSE <<>>]

\* DAS of a general product.
gen_gmh5_cfdas(file) ==
    LET start  == IF file.attributes = <<>> THEN <<>> ELSE AppendAll(<<>>, <<"HDF5_GLOBAL">>, OfNone(file.attributes))
        groups == FoldLeft(LAMBDA d, g : AppendAll(d, g.name, OfNone(g.attributes)), start, file.groups)
        gpm(d, v, is_cvar) == IF file.product = "GPM" THEN update_GPM_special_attrs(d, v, is_cvar) ELSE d
        vars   == FoldLeft(LAMBDA d, v : gpm(WithVariable(d, v), v, FALSE), groups, file.vars)
        cvars  == FoldLeft(LAMBDA d, v : gpm(WithVariable(d, v), v, TRUE), vars, file.cvars)
        spvars == FoldLeft(WithSpecial, cvars, file.spvars)
        names  == UnlimitedNames(file.cvars).names IN
    IF file.unlimited /\ names # <<>>
    THEN AppendAll(spvars, <<"DODS_EXTRA">>, <<[name |-> <<"Unlimited_Dimension">>, type |-> "String", values |-> names]>>)
    ELSE spvars

\* The attribute Conventions of the additional file attributes may be moved to the
\* attributes of the file.
EosGroup(das, g, conventions) ==
    LET moved(a) == a.name = <<"Conventions">> /\ g.name = <<"HDFEOS_ADDITIONAL_FILE_ATTRIBUTES">> /\ conventions IN
    FoldLeft(LAMBDA d, a : IF moved(a) THEN AppendAll(d, <<"HDF5_GLOBAL">>, OfNone(<<a>>)) ELSE AppendAll(d, g.name, OfNone(<<a>>)),
             WithTable(das, g.name), g.attributes)

\* DAS of an HDF-EOS5 product, but for the tables of its metadata.
gen_eos5_cfdas(file, conventions) ==
    LET start  == IF file.attributes = <<>> THEN <<>> ELSE AppendAll(<<>>, <<"HDF5_GLOBAL">>, OfNone(file.attributes))
        groups == FoldLeft(LAMBDA d, g : EosGroup(d, g, conventions), start, file.groups)
        vars   == FoldLeft(WithVariable, FoldLeft(WithVariable, groups, file.vars), file.cvars)
        grids  == Grids(file)
        mapped == FoldLeftDomain(LAMBDA d, i : add_cf_grid_cv_attrs(d, file.vars, grids[i], i), vars, grids)
        ranged == FoldLeft(LAMBDA d, c : IF HasRange(c) THEN AppendAll(d, c.name, add_ll_valid_range("Float64", c.cvtype)) ELSE d,
                           mapped, file.cvars) IN
    IF file.unlimited
    THEN AppendAll(ranged, <<"DODS_EXTRA">>, <<[name |-> <<"Unlimited_Dimension">>, type |-> "String",
                                                values |-> UnlimitedNames(file.cvars).names]>>)
    ELSE ranged

gen_cfdas(file, check, conventions) ==
    IF \/ \E v \in ToSet(file.vars) \cup ToSet(file.cvars) : ~Is64Bit(v) /\ VariableThrows(v, check)
       \/ \E s \in ToSet(file.spvars) : VariableThrows(s, check)
       \/ GridsRefused(file)
    THEN Failed
    ELSE [ok |-> TRUE, tables |-> IF file.product = "EOS5" THEN gen_eos5_cfdas(file, conventions) ELSE gen_gmh5_cfdas(file)]

\* DMR made straight from the file: the coordinate variables come after the
\* variables, in an HDF-EOS5 file with those of projected grids between them.
gen_gmh5_cfdmr(file) ==
    [i \in DOMAIN file.vars |-> gen_dap_onevar_dmr(file.vars[i])]
    \o [i \in DOMAIN file.cvars |-> gen_dap_onegmcvar_dmr(file.cvars[i])]
    \o [i \in DOMAIN file.spvars |-> gen_dap_onegmspvar_dmr(file.spvars[i])]
gen_eos5_cfdmr(file) ==
    FoldLeftDomain(LAMBDA d, i : gen_gm_oneproj_var(d, Grids(file)[i], i),
                   [i \in DOMAIN file.vars |-> gen_dap_onevar_dmr(file.vars[i])], Grids(file))
    \o FlattenSeq([i \in DOMAIN Grids(file) |-> add_gm_spcvs(Grids(file)[i])])
    \o [i \in DOMAIN file.cvars |-> gen_dap_oneeos5cvar_dmr(file.cvars[i])]

\* An HDF-EOS5 file with an unlimited dimension that no coordinate variable has is
\* refused.
DMRRefused(file) ==
    \/ \E v \in ToSet(file.vars) : Refused(v, DMRType)
    \/ \E c \in ToSet(file.cvars) : Refused(c, DMRType) \/ CVRefused(c, file.product)
    \/ \E s \in ToSet(file.spvars) : SPRefused(s)
    \/ GridsRefused(file)
    \/ file.unlimited /\ UnlimitedNames(file.cvars).text = <<>> /\ file.product = "EOS5"

gen_cfdmr(file) ==
    IF DMRRefused(file) THEN Failed
    ELSE [ok |-> TRUE,
          vars |-> IF file.product = "EOS5" THEN gen_eos5_cfdmr(file) ELSE gen_gmh5_cfdmr(file),
          attributes |-> [i \in DOMAIN file.attributes |-> gen_dap4_attr(file.attributes[i])],
          groups |-> [g \in DOMAIN file.groups |->
                        [name |-> file.groups[g].name,
                         attributes |-> [i \in DOMAIN file.groups[g].attributes |-> gen_dap4_attr(file.groups[g].attributes[i])]]],
          unlimited |-> IF file.unlimited THEN UnlimitedNames(file.cvars).text ELSE <<>>]
=============================================================================
