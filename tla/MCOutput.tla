------------------------------- MODULE MCOutput -------------------------------
(***************************************************************************)
(* Small files for CFOutput, and what their responses have in common.      *)
(***************************************************************************)
EXTENDS CFOutput

Dim(name, size, unlimited) == [name |-> name, size |-> size, unlimited |-> unlimited]
Attr(name, type, values)   == [name |-> <<name>>, type |-> type, values |-> values]
Var(path, type, dims, attributes) ==
    [name |-> path, path |-> path, type |-> type, dims |-> dims, attributes |-> attributes]
CV(var, cvtype, proj)      ==
    [cvtype |-> cvtype, proj |-> proj, params |-> [i \in 1..13 |-> IF i = 6 THEN -70000000 ELSE 0]] @@ var
File(product, vars, cvars, unlimited) ==
    [product |-> product, vars |-> vars, cvars |-> cvars, spvars |-> <<>>, groups |-> <<>>, attributes |-> <<>>,
     unlimited |-> unlimited]

X == Dim(<<"x">>, 2, FALSE)
Y == Dim(<<"y">>, 3, FALSE)

(* Fill values: a variable, a coordinate variable and a special variable. *)

FillTypes == {"H5CHAR", "H5UCHAR", "H5INT16", "H5UINT16", "H5INT32", "H5FLOAT32", "H5INT64"}
Values(type) ==
    CASE type = "H5CHAR"   -> {-1, 5}
      [] type = "H5UCHAR"  -> {5, 200}
      [] type = "H5INT16"  -> {-1, 200, 300}
      [] type = "H5UINT16" -> {200, 300, 40000}
      [] OTHER             -> {-1, 70000}
Fills == {Attr("_FillValue", t, v) :
            t \in FillTypes, v \in {<<n>> : n \in UNION {Values(t) : t \in FillTypes}} \cup {<<5, 5>>}}
FillValues == {f \in Fills : f.values # <<5, 5>> => f.values[1] \in Values(f.type)}
                \cup {Attr("_FillValue", "H5VSTRING", << <<"text">> >>)}
FillFiles ==
    {File(p, <<Var(<<"v">>, t, <<X>>, <<f>>)>>, <<CV(Var(<<"x">>, "H5INT16", <<X>>, c), "CV_EXIST", "none")>>, FALSE) :
       p \in {"EOS5", "GPM", "general"}, t \in FillTypes \cup {"H5VSTRING"}, f \in FillValues,
       c \in {<<>>, <<Attr("_FillValue", "H5UINT16", <<300>>)>>}}
    \cup {[File("general", <<>>, <<>>, FALSE) EXCEPT !.spvars = <<Var(<<"s">>, "H5INT32", <<X>>, <<f>>)>>] : f \in FillValues}
    \cup {File("GPM", <<Var(<<"v">>, t, <<X>>, a)>>, <<CV(Var(<<"x">>, t, <<X>>, <<>>), "CV_EXIST", "none")>>, FALSE) :
            t \in FillTypes, a \in {<<>>, <<Attr("units", "H5VSTRING", << <<"m">>, <<>> >>)>>}}

(* Grids of HDF-EOS5, one or two, and a vertical dimension that may be unlimited. *)

GridY(i) == Dim(<<"YDim", ToString(i)>>, 2, FALSE)
GridX(i) == Dim(<<"XDim", ToString(i)>>, 3, FALSE)
GridCVs(i, proj) ==
    LET dims(d) == IF proj = "GEO" THEN <<d>> ELSE <<GridY(i), GridX(i)>> IN
    <<CV(Var(<<"lat", ToString(i)>>, "H5FLOAT32", dims(GridY(i)), <<Attr("units", "H5VSTRING", << <<"degrees">> >>)>>), "CV_LAT_MISS", proj),
      CV(Var(<<"lon", ToString(i)>>, "H5FLOAT32", dims(GridX(i)), <<>>), "CV_LON_MISS", proj)>>
GridVars(i, type) ==
    <<Var(<<"grid", ToString(i), "v">>, type, <<GridY(i), GridX(i)>>, <<>>),
      Var(<<"grid", ToString(i), "w">>, "H5CHAR", <<Dim(<<"z">>, 4, FALSE), GridX(i), GridY(i)>>, <<Attr("long_name", "H5VSTRING", << <<"w">> >>)>>),
      Var(<<"grid", ToString(i), "y">>, "H5INT64", <<GridY(i)>>, <<>>)>>
Vertical(unlimited, cvtype, type) ==
    CV(Var(<<"z">>, type, <<Dim(<<"z">>, 4, unlimited)>>, <<>>), cvtype, "none")
Projections == {"SNSOID", "PS", "LAMAZ", "GEO"}
GridFiles ==
    UNION {{File("EOS5", FlattenSeq([i \in DOMAIN proj |-> GridVars(i, t)]),
                 FlattenSeq([i \in DOMAIN proj |-> GridCVs(i, proj[i])]) \o z, u) :
              t \in {"H5FLOAT32", "H5INT64"}, u \in BOOLEAN,
              z \in {<<>>, <<Vertical(TRUE, "CV_NONLATLON_MISS", "H5INT32")>>, <<Vertical(FALSE, "CV_FILLINDEX", "H5FLOAT64")>>,
                     <<Vertical(FALSE, "CV_SPECIAL", "H5INT64")>>}} :
           proj \in [1..1 -> Projections] \cup [1..2 -> Projections]}
GridFile == UNION {{[f EXCEPT !.cvars[1].dims = d] : d \in {f.cvars[1].dims, <<>>, <<X, Y, X>>}} : f \in GridFiles}

(* Groups, 64-bit integers and their coordinates, unlimited dimensions of which one
   has a name that is part of another's. *)

Coordinates ==
    {Attr("coordinates", "H5VSTRING", c) :
       c \in {<< <<"lat">> >>, << <<"..", "lat">>, <<"lon">> >>, << <<"..", "..", "q", "lat">> >>, << <<"", "g", "lat">> >>}}
Long(path) == {Var(path, t, d, <<Attr("long_name", "H5FSTRING", << <<"v">>, <<>> >>), c, Attr("n", "H5UINT64", <<7>>)>>) :
                 t \in {"H5INT64", "H5UINT64", "H5INT32"}, d \in {<<>>, <<X>>}, c \in Coordinates}
Unlimited(names, types) ==
    [i \in DOMAIN names |-> CV(Var(names[i], types[i], <<Dim(names[i], 2, TRUE)>>, <<>>), "CV_EXIST", "none")]
GroupFiles ==
    {[File(p, <<v>>, cvs, u) EXCEPT !.groups = g, !.attributes = a] :
       p \in {"general", "EOS5"}, v \in Long(<<"g", "h", "v">>), u \in BOOLEAN,
       cvs \in {<<>>, Unlimited(<< <<"t">>, <<"u">> >>, <<"H5INT32", "H5INT64">>),
                Unlimited(<< <<"t", "1">>, <<"t">>, <<"u">> >>, <<"H5FLOAT64", "H5INT16", "H5UCHAR">>)},
       g \in {<<>>, <<[name |-> <<"HDFEOS_ADDITIONAL_FILE_ATTRIBUTES">>,
                       attributes |-> <<Attr("Conventions", "H5VSTRING", << <<"CF">> >>), Attr("n", "H5INT64", <<7>>)>>]>>},
       a \in {<<>>, <<Attr("m", "H5UINT16", <<7, 8>>), Attr("n", "H5INT64", <<7>>)>>}}

OutputFiles == FillFiles \cup GridFile \cup GroupFiles

------------------------------------------------------------------------------

\* The values of the attributes of a name, in tables as in variables of a DMR.
ValuesOf(attributes, name) ==
    FlattenSeq([i \in DOMAIN attributes |-> IF attributes[i].name = <<name>> THEN attributes[i].values ELSE <<>>])
ThatIs(s, name)  == {s[i] : i \in {i \in DOMAIN s : s[i].name = name}}
AttributesOf(s, name) == UNION {ToSet(t.attributes) : t \in ThatIs(s, name)}
Mapping(s, name) == {a.values : a \in {a \in AttributesOf(s, name) : a.name = <<"grid_mapping">>}}

Plain(v) == [name |-> v.name, type |-> IF v.type = "Int8" THEN "Int16" ELSE v.type, dims |-> v.dims]
IsLong(v) == v.type \in {"Int64", "UInt64"}

\* A DMR is refused where a DDS is not: a 64-bit coordinate variable is not looked
\* at there, and nor are unlimited dimensions.
OnlyDMRRefuses(file) ==
    \/ \E c \in ToSet(file.cvars) : Is64Bit(c) /\ CVRefused(c, file.product)
    \/ file.unlimited /\ file.product = "EOS5" /\ UnlimitedNames(file.cvars).text = <<>>

\* The same variables, dimensions, grids and unlimited dimensions in all responses.
Agree(file, dds, das, dmr) ==
    /\ dmr.ok => dds.ok
    /\ dds.ok => dmr.ok \/ OnlyDMRRefuses(file)
    /\ (dds.ok /\ dmr.ok) =>
         /\ ToSet(dds.vars) = {Plain(v) : v \in {v \in ToSet(dmr.vars) : ~IsLong(v)}}
         /\ {Plain(v) : v \in ToSet(dds.root)} =
            {Plain(v) : v \in {v \in ToSet(dmr.vars) : IsLong(v) /\ \E w \in ToSet(file.vars) : w.name = v.name}}
         /\ das.ok =>
              /\ \A v \in ToSet(dds.vars) : Mapping(das.tables, v.name) = Mapping(dmr.vars, v.name)
              /\ \A extra \in ThatIs(das.tables, <<"DODS_EXTRA">>) :
                   \E names \in {ValuesOf(extra.attributes, "Unlimited_Dimension")} :
                     dmr.unlimited = FlattenSeq([i \in DOMAIN names |-> IF i = 1 THEN names[i] ELSE <<" ">> \o names[i]])
              /\ dmr.unlimited # <<>> => ThatIs(das.tables, <<"DODS_EXTRA">>) # {}

\* A sinusoidal grid has its variable when the first projected grid is one.
SharedProjectionMade(file) ==
    (\E c \in ToSet(Grids(file)) : c.proj = "SNSOID") => Grids(file)[1].proj = "SNSOID"

\* Each grid mapping is a variable that describes a projection.
Resolve(s, vars) ==
    \A t \in ToSet(s) : \A m \in Mapping(s, t.name) : \A i \in DOMAIN m :
      /\ ThatIs(vars, m[i]) # {}
      /\ \E a \in AttributesOf(s, m[i]) : a.name = <<"grid_mapping_name">>

Range8or16(type) ==
    CASE type = "Byte"   -> 0..255
      [] type = "Int16"  -> -32768..32767
      [] type = "Uint16" -> 0..65535
Small == {"H5CHAR", "H5UCHAR", "H5INT16", "H5UINT16"}

\* Pairs of an attribute's type and a variable's whose values are not compared.
Unchecked == {<<"H5CHAR", "H5UINT16">>, <<"H5UINT16", "H5CHAR">>}

\* A numeric fill value is of the type of its variable and, when that is checked, a
\* value of it.
FillsFit(v, tables, check) ==
    \A a \in ToSet(v.attributes) :
      (a.name = <<"_FillValue">> /\ ~IsText(a) /\ ~Is64Bit(a)) =>
        \A b \in AttributesOf(tables, v.name) :
          b.name = a.name =>
            /\ b.type = print_type(v.type)
            /\ (check /\ {a.type, v.type} \subseteq Small /\ <<a.type, v.type>> \notin Unchecked) =>
                 ToSet(b.values) \subseteq Range8or16(b.type)

\* Tables are those of variables of the DDS, of the file and its groups, or of 64-bit
\* variables on a grid, and of sinusoidal projections.
TablesFit(file, dds, tables) ==
    \A t \in ToSet(tables) :
      \/ ThatIs(dds.vars, t.name) # {}
      \/ t.name \in {<<"HDF5_GLOBAL">>, <<"DODS_EXTRA">>} \cup {g.name : g \in ToSet(file.groups)}
      \/ ~SharedProjectionMade(file) /\ t.name = <<"eos_cf_projection">>
      \/ /\ \E v \in ToSet(file.vars) : v.name = t.name /\ Is64Bit(v)
         /\ \A a \in ToSet(t.attributes) : a.name = <<"grid_mapping">>

\* Where a coordinate leads from the group of its variable.
Walk(group, co) ==
    FoldLeft(LAMBDA at, e : CASE e = ".." -> Front(at) [] e = "" -> <<>> [] OTHER -> Append(at, e), group, co)

\* With the paths added, the coordinates of a 64-bit variable lead where its paths do.
CoordinatesFit(file, root) ==
    \A v \in ToSet(file.vars) : \A r \in ThatIs(root, v.name) :
      \A a \in {a \in ToSet(v.attributes) : a.name = <<"coordinates">>} :
        ValuesOf(r.attributes, "coordinates") =
          IF file.product = "EOS5" THEN <<>> ELSE [i \in DOMAIN a.values |-> Walk(Front(v.path), a.values[i])]
===============================================================================
