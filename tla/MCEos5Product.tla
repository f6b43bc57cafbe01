---------------------------- MODULE MCEos5Product ----------------------------
(***************************************************************************)
(* Small HDF-EOS5 files for Eos5Product: every combination of the entries  *)
(* of four pools that is a file.  An entry is an object of the metadata    *)
(* with its fields, or variables that the metadata does not list.          *)
(***************************************************************************)
EXTENDS Eos5Product

x == <<"x">>
y == <<"y">>
z == <<"z">>
s == <<"s">>
g == <<"g">>

MCDimOrder == << <<"FakeDim", "0">>, <<"FakeDim", "1">>, XDim, <<"XDim", "1">>, <<"XDim", "2">>, YDim, <<"YDim", "1">>,
                 <<"x">>, <<"x", "1">>, <<"x", "2">>, <<"x", "y">>, <<"y">>, <<"y", "1">>, <<"z">>, <<"z", "1">> >>

D(name, size) == [name |-> name, size |-> size]

\* A field over dimensions, whose sizes are those of the object.
F(name, dims) == [name |-> name, dims |-> [i \in DOMAIN dims |-> D(dims[i], 0)]]

Object(type, name, dims, geo, data, proj) ==
    [type |-> type, name |-> name, dims |-> dims, geo |-> geo, data |-> data, proj |-> proj,
     corners |-> "a", dups |-> <<>>, failed |-> FALSE]

Swath(name, dims, geo, data) == Object("SWATHS", name, dims, geo, data, "none")
Grid(name, dims, data, proj) == Object("GRIDS", name, dims, <<>>, data, proj)

V(type, name, group, var, sizes) ==
    [path |-> << <<>>, <<"HDFEOS">>, <<type>>, name, <<group>>, var >>, dims |-> sizes, type |-> "num"]

\* What augmentation adds to the group of an object.
Aug(type, name, var, size) ==
    [path |-> << <<>>, <<"HDFEOS">>, <<type>>, name, var >>, dims |-> <<size>>, type |-> "num"]

Other(name, size) == [path |-> << <<>>, name >>, dims |-> <<size>>, type |-> "num"]

SizeIn(h, name) == LET at == {d \in Range(h.dims) : d.name = name} IN IF at = {} THEN 1 ELSE OneOf(at).size

\* The variables of the fields of an object, as HDF5 has them.
Stored(h) ==
    LET of(field, group) == V(h.type, h.name, group, field.name,
                              [i \in DOMAIN field.dims |-> SizeIn(h, field.dims[i].name)])
    IN [i \in DOMAIN h.geo |-> of(h.geo[i], "Geolocation Fields")] \o [i \in DOMAIN h.data |-> of(h.data[i], "Data Fields")]

Whole(h) == [objects |-> <<h>>, vars |-> Stored(h)]
Extra(v) == [objects |-> <<>>, vars |-> v]

LatLon(dims, londims) == <<F(Latitude, dims), F(Longitude, londims)>>

xy == <<D(x, 2), D(y, 3)>>
XY == <<D(XDim, 2), D(YDim, 3)>>

\* Swaths with 1-D, 2-D and no fields for latitude and longitude; dimensions
\* that a field has twice; one name for a field of either kind; variables that
\* the metadata does not list.
SwathPool == <<
    Whole(Swath(s, xy, LatLon(<<x>>, <<x>>) \o <<F(<<"p">>, <<y>>)>>, <<F(<<"v">>, <<x, x>>), F(<<"u">>, <<x, y>>)>>)),
    Whole(Swath(<<"s", "x">>, <<D(y, 4), D(x, 2), D(z, 2)>>, LatLon(<<x, z>>, <<x, z>>), <<F(<<"v">>, <<x, z, y>>), F(<<"t">>, <<z, z>>)>>)),
    Whole(Swath(<<"t">>, <<D(x, 2)>>, <<>>, <<F(<<"v">>, <<x>>)>>)),
    Whole(Swath(<<"r">>, <<D(<<"x", "y">>, 3), D(x, -1)>>, LatLon(<<<<"x", "y">>>>, <<<<"x", "y">>>>),
                <<F(<<"v">>, <<<<"x", "y">>>>)>>)),
    Extra(<<V("SWATHS", s, "Data Fields", <<"p">>, <<3>>)>>),
    Extra(<<V("SWATHS", s, "Data Fields", <<"w">>, <<2, 2, 5>>)>>),
    Extra(<<[V("SWATHS", s, "Data Fields", <<"i">>, <<3, 3>>) EXCEPT !.type = "int64"]>>),
    Extra(<<Other(<<"x">>, 3), Other(<<"s", "p">>, 3)>>) >>

\* Grids of one layout or of several, geographic or projected, with fields for
\* latitude and longitude or without.
GridPool == <<
    Whole(Grid(g, <<D(<<"Xdim">>, 2), D(YDim, 3), D(XDim, 2), D(z, 4)>>, <<F(<<"v">>, <<YDim, XDim>>), F(<<"p">>, <<z>>)>>, "GEO")),
    Whole(Grid(<<"h">>, XY \o <<D(z, 4)>>, <<F(<<"v">>, <<z, YDim, XDim>>)>>, "GEO")),
    Whole(Grid(<<"k">>, XY, <<F(<<"v">>, <<YDim, XDim>>), F(<<"u">>, <<XDim, XDim>>)>>, "PS")),
    Whole(Grid(<<"l">>, XY, <<F(<<"v">>, <<YDim, XDim>>)>>, "PS")),
    Whole(Grid(<<"m">>, XY, LatLon(<<YDim>>, <<XDim>>) \o <<F(<<"v">>, <<YDim, XDim>>)>>, "GEO")),
    Whole(Grid(<<"n">>, XY, LatLon(<<YDim, XDim>>, <<YDim, XDim>>) \o <<F(<<"v">>, <<YDim, XDim>>)>>, "GEO")),
    Whole(Grid(<<"o">>, XY, LatLon(<<YDim>>, <<XDim>>) \o <<F(<<"v">>, <<YDim, XDim>>)>>, "GEO")),
    Extra(<<Other(<<"lat">>, 3), Other(<<"h", "v">>, 3)>>),
    Extra(<<V("GRIDS", g, "Data Fields", <<"w">>, <<3, 2, 2>>)>>) >>

\* Files with objects of several types, and augmented ones.
MixedPool == <<
    Whole(Swath(s, xy, LatLon(<<x>>, <<x>>), <<F(<<"v">>, <<x, x>>), F(<<"u">>, <<y, x>>)>>)),
    Whole(Swath(<<"t">>, xy, LatLon(<<x, y>>, <<x, y>>), <<F(<<"v">>, <<x, y>>)>>)),
    Whole(Grid(g, XY, <<F(<<"v">>, <<YDim, XDim>>)>>, "GEO")),
    Whole(Grid(<<"n">>, XY, LatLon(<<YDim, XDim, XDim>>, <<YDim, XDim, XDim>>), "GEO")),
    Whole(Object("ZAS", <<"a">>, <<D(x, 2), D(z, 4)>>, <<>>, <<F(<<"v">>, <<x, z>>)>>, "none")),
    Extra(<<Aug("SWATHS", s, x, 2), Aug("SWATHS", s, y, 3), Aug("SWATHS", <<"t">>, x, 2)>>),
    Extra(<<Aug("GRIDS", g, XDim, 2), Aug("GRIDS", g, YDim, 3)>>),
    Extra(<<Aug("ZAS", <<"a">>, x, 2), Aug("ZAS", <<"a">>, z, 4)>>) >>

\* Metadata that cannot be used: a projection code or a dimension is missing,
\* two dimensions have one name, a field has another rank; and unlimited
\* dimensions, whose sizes in the metadata are not those of the variables.
BrokenPool == <<
    Whole(Grid(g, XY, <<F(<<"v">>, <<YDim, XDim>>)>>, "missing")),
    Whole(Swath(s, xy, LatLon(<<x>>, <<x>>), <<F(<<"v">>, <<z>>)>>)),
    Whole(Swath(<<"t">>, <<D(x, 2), D(<<"x", "1">>, 3)>>, LatLon(<<x>>, <<x>>), <<F(<<"v">>, <<x, x>>)>>)),
    [objects |-> <<Swath(<<"r">>, <<D(x, 9), D(y, 3)>>, LatLon(<<x>>, <<x>>), <<F(<<"v">>, <<x, y>>)>>)>>,
     vars |-> <<V("SWATHS", <<"r">>, "Geolocation Fields", Latitude, <<2>>),
                V("SWATHS", <<"r">>, "Geolocation Fields", Longitude, <<2>>),
                V("SWATHS", <<"r">>, "Data Fields", <<"v">>, <<2, 3>>)>>],
    [objects |-> <<Swath(<<"q">>, xy, LatLon(<<x>>, <<x>>), <<F(<<"v">>, <<x, y>>)>>)>>,
     vars |-> <<V("SWATHS", <<"q">>, "Data Fields", <<"v">>, <<2>>)>>] >>

\* The parts of a pool in which no object has its name twice and every variable
\* of an object has one.
FilesOf(pool, udims, auras) ==
    LET parts == {ElementsAt(pool, S) : S \in SUBSET (DOMAIN pool) \ {{}}}
        objects(p) == FlattenSeq([i \in DOMAIN p |-> p[i].objects])
        vars(p) == FlattenSeq([i \in DOMAIN p |-> p[i].vars])
        types == <<"GRIDS", "SWATHS", "ZAS">>
        sorted(p) == FlattenSeq([t \in 1..3 |-> SelectSeq(objects(p), LAMBDA o : o.type = types[t])])
    IN {[metadata |-> sorted(p), vars |-> vars(p), udim |-> u, aura |-> a] :
          p \in {q \in parts : \A v \in Range(vars(q)) :
                   Get_Var_EOS5_Type(v) # "OTHERVARS" => \E o \in Range(objects(q)) : Belongs(v, o)},
          u \in udims, a \in auras}

MCFiles ==
    FilesOf(SwathPool, {FALSE}, {"none"}) \cup FilesOf(GridPool, {FALSE}, {"none", "OMI"})
    \cup FilesOf(MixedPool, {FALSE}, {"none"}) \cup FilesOf(BrokenPool, BOOLEAN, {"none"})

=============================================================================
