-------------------------- MODULE MCGeneralProduct --------------------------
(***************************************************************************)
(* Small files for GeneralProduct: every part of a pool of variables that  *)
(* has the scales it refers to, for pools of general products and for one  *)
(* or two pools of every product that is recognised by its metadata.       *)
(***************************************************************************)
EXTENDS GeneralProduct

P(group, name) == IF group = "" THEN << <<>>, name >> ELSE << <<>>, <<group>>, name >>

D(size) == [size |-> size, unlimited |-> FALSE]
U(size) == [size |-> size, unlimited |-> TRUE]

V(path, dims, dimlist) ==
    [path |-> path, dims |-> dims, dimlist |-> dimlist, scale |-> "none", units |-> "none",
     type |-> "num", coordinates |-> <<>>, dimnames |-> <<>>]

Scale(path, dim, kind) == [V(path, <<dim>>, <<>>) EXCEPT !.scale = kind]

x == P("", <<"x">>)
y == P("", <<"y">>)
gx == P("g1", <<"x">>)
lat == P("", <<"lat">>)
lon == P("", <<"lon">>)
flatx == P("", <<"g1", "x">>)
hx == << <<>>, <<"HDFEOS">>, <<"SWATHS">>, <<"s">>, <<"x">> >>

\* Names that the attribute DimensionNames and some products give.
N(name) == << <<name>> >>
GPM(dims, names) == [V(<<>>, dims, <<>>) EXCEPT !.dimnames = names]
In(group, name, v) == [v EXCEPT !.path = P(group, <<name>>)]

OzoneTime == << <<>>, <<"Dimensions">>, <<"Time">> >>
OzoneLat == << <<>>, <<"Dimensions">>, <<"Latitude">> >>

MCNameOrder ==
    <<OzoneLat, OzoneTime, P("", <<"Latitude">>), << <<>>, <<"S1">>, <<"npixel">> >>, << <<>>, <<"S1">>, <<"nscan">> >>,
      << <<>>, <<"S2">>, <<"npixel">> >>, << <<>>, <<"S2">>, <<"nscan">> >>, P("", <<"Time">>),
      hx, gx, flatx, lat, lon, natrack, nxtrack, x, y>>
    \o [k \in 1..10 |-> FakeDim(k - 1)]
    \o <<XDim, YDim, N("lat"), N("lon"), N("nch"), N("nlat"), N("nlayer"), N("nlon"), N("npixel"), N("nscan")>>

\* Dimension scales as netCDF-4 writes them, 2-D latitudes and longitudes in
\* two groups that share a dimension, and names that collide.
DimscalePool == <<
    <<Scale(x, U(2), "netcdf")>>,
    <<Scale(y, U(3), "dimension")>>,
    <<V(P("", <<"lat">>), <<D(2), D(3)>>, <<x, y>>), V(P("", <<"lon">>), <<D(2), D(3)>>, <<x, y>>)>>,
    <<[V(P("", <<"v">>), <<D(2), D(3)>>, <<x, y>>) EXCEPT !.coordinates = << <<<<"lat">>>>, <<<<"lon">>>> >>]>>,
    <<Scale(flatx, D(5), "netcdf"), V(P("", <<"q">>), <<D(2), D(3), D(5)>>, <<x, y, flatx>>)>>,
    <<[V(P("", <<"z">>), <<D(4)>>, <<>>) EXCEPT !.type = "compound"]>>,
    <<Scale(gx, U(2), "netcdf")>>,
    <<V(P("g1", <<"lat">>), <<D(2), D(2)>>, <<x, gx>>), V(P("g1", <<"lon">>), <<D(2), D(2)>>, <<x, gx>>)>>,
    <<V(P("g1", <<"latitude">>), <<D(2), D(3)>>, <<gx, y>>),
      V(P("g1", <<"longitude">>), <<D(2), D(3)>>, <<gx, y>>)>>,
    <<[V(P("g1", <<"w">>), <<D(2), D(2), D(2)>>, <<x, gx, gx>>)
         EXCEPT !.type = "int64", !.coordinates = << <<<<"latitude">>>>, <<<<"longitude">>>> >>]>> >>

\* 1-D and 2-D latitudes and longitudes over shared dimensions.
UnitsPool == <<
    <<[Scale(lat, D(2), "class") EXCEPT !.units = "lat"]>>,
    <<[Scale(lon, D(2), "class") EXCEPT !.units = "lon"]>>,
    <<Scale(x, U(2), "netcdf")>>,
    <<Scale(y, D(2), "dimension")>>,
    <<V(P("", <<"v">>), <<D(2), D(2)>>, <<lat, lon>>)>>,
    <<[V(P("", <<"lat2">>), <<D(2), D(2)>>, <<y, x>>) EXCEPT !.units = "lat"]>>,
    <<[V(P("", <<"lon2">>), <<D(2), D(2)>>, <<y, x>>) EXCEPT !.units = "lon"]>>,
    <<[V(P("", <<"lat3">>), <<D(2), D(2)>>, <<x, lon>>) EXCEPT !.units = "lat"]>>,
    <<[V(P("", <<"lon3">>), <<D(2), D(2)>>, <<x, lat>>) EXCEPT !.units = "lon"]>>,
    <<V(P("g1", <<"lat">>), <<D(2), D(2)>>, <<x, y>>), V(P("g1", <<"lon">>), <<D(2), D(2)>>, <<x, y>>),
      [V(P("g1", <<"v">>), <<D(2), D(2)>>, <<x, y>>) EXCEPT !.coordinates = << <<Up, <<"lat">>>>, <<Up, <<"lon">>>> >>]>> >>

\* Names that are changed at the end: variables that are no coordinates in
\* spite of their name, and HDF-EOS5 files with dimension scales; and what is
\* refused: an empty reference, a scale with two dimensions.
NamesPool == <<
    <<Scale(x, D(2), "dimension")>>,
    <<V(P("", <<"_nc4_non_coord_", "x">>), <<D(4)>>, <<>>)>>,
    <<V(P("g1", <<"_nc4_non_coord_", "y">>), <<D(2)>>, <<x>>)>>,
    <<Scale(hx, D(2), "netcdf")>>,
    <<V(<< <<>>, <<"HDFEOS">>, <<"SWATHS">>, <<"s">>, <<"Data_Fields">>, <<"v">> >>, <<D(2)>>, <<hx>>)>>,
    <<V(<< <<>>, <<"HDFEOS">>, <<"SWATHS">>, <<"s">>, <<"Geolocation_Fields">>, <<"v">> >>, <<D(2)>>, <<hx>>)>>,
    <<[V(P("", <<"bad">>), <<D(2), D(3)>>, <<NoScale, x>>) EXCEPT !.coordinates = <<x>>]>>,
    <<[Scale(y, D(2), "class") EXCEPT !.dims = <<D(2), D(2)>>]>> >>

\* Files without dimension scales.
LatLonPool == <<
    <<V(P("", <<"latitude">>), <<D(2), D(2)>>, <<>>)>>,
    <<V(P("", <<"longitude">>), <<D(2), D(2)>>, <<>>)>>,
    <<V(P("", <<"lat">>), <<D(2)>>, <<>>)>>,
    <<V(P("", <<"lon">>), <<D(2)>>, <<>>)>>,
    <<V(P("", <<"v">>), <<D(3), D(2), D(2)>>, <<>>)>>,
    <<[V(P("g1", <<"latitude">>), <<U(2), D(3)>>, <<>>) EXCEPT !.type = "compound"]>>,
    <<V(<< <<>>, <<"g1">>, <<"s">>, <<"u">> >>, <<D(4)>>, <<>>), V(P("", <<"g1", "s">>), <<D(4)>>, <<>>)>>,
    <<V(P("", <<"HDF5_GLOBAL">>), <<D(4)>>, <<>>)>> >>

\* Latitudes and longitudes that variables name in coordinates, with and without
\* the path, in one group and in two; and a trajectory.
Coor(v, names) == [v EXCEPT !.coordinates = names]
CoorPool == <<
    <<V(P("g1", <<"a", "lat">>), <<D(2), D(3)>>, <<>>), V(P("g1", <<"a", "lon">>), <<D(2), D(3)>>, <<>>)>>,
    <<V(P("g1", <<"b", "lat">>), <<D(2), D(3)>>, <<>>), V(P("g1", <<"b", "lon">>), <<D(2), D(3)>>, <<>>)>>,
    <<Coor(V(P("g1", <<"v">>), <<D(2), D(3)>>, <<>>), << << <<"a", "lat">> >>, << <<"a", "lon">> >> >>)>>,
    <<Coor(V(P("g1", <<"w">>), <<D(2), D(3)>>, <<>>),
           <<P("g1", <<"a", "lat">>), P("g1", <<"a", "lon">>)>>)>>,
    <<Coor(V(P("g2", <<"w">>), <<D(2), D(3)>>, <<>>),
           << <<<<"g1">>, <<"a", "lat">>>>, <<<<"g1">>, <<"a", "lon">>>> >>),
      Coor(V(P("g2", <<"x">>), <<D(2), D(3)>>, <<>>), << << <<"a", "lat">> >>, << <<"a", "lon">> >> >>),
      Coor(V(P("g2", <<"y">>), <<D(2), D(3)>>, <<>>),
           << <<Up, <<"g1">>, <<"a", "lat">>>>, <<Up, <<"g1">>, <<"a", "lon">>>> >>)>>,
    <<V(P("g2", <<"lat">>), <<D(2)>>, <<>>), V(P("g2", <<"lon">>), <<D(2)>>, <<>>)>>,
    <<Coor(V(P("g2", <<"u">>), <<D(2), D(2)>>, <<>>), << <<<<"lat">>>>, <<<<"lon">>>> >>)>>,
    <<V(P("g2", <<"time">>), <<D(2)>>, <<>>),
      Coor(V(P("g2", <<"t">>), <<D(2), D(3)>>, <<>>), << <<<<"lat">>>>, <<<<"lon">>>>, <<<<"time">>>> >>)>> >>

InputPointersPool == <<
    <<Scale(x, D(2), "netcdf")>>, <<V(P("InputPointers", <<"x">>), <<D(2)>>, <<x>>)>>,
    <<V(P("", <<"v">>), <<D(2)>>, <<x>>)>>, <<[V(P("", <<"w">>), <<>>, <<>>) EXCEPT !.type = "nospace"]>> >>

------------------------------------------------------------------------------
(***************************************************************************)
(* Products with metadata.                                                 *)
(***************************************************************************)

Text(words) == [words |-> words, vlen |-> FALSE]
VText(words) == [words |-> words, vlen |-> TRUE]
Header == Text(<<"header">>)
S(group) == << <<>>, <<group>> >>
WithRoot(root) == [NoMetadata EXCEPT !.root = root]

scan == N("nscan")
pixel == N("npixel")
GPML1 == [NoMetadata EXCEPT !.root = ("FileHeader" :> Header),
                            !.grp = (S("S1") :> ("S1_SwathHeader" :> Header)) @@ (S("S2") :> <<>>)]
Swath(g, n) == <<In(g, "Latitude", GPM(<<D(2), D(n)>>, <<scan, pixel>>)),
                 In(g, "Longitude", GPM(<<D(2), D(n)>>, <<scan, pixel>>))>>
GPML1Pool == <<
    Swath("S1", 3), Swath("S2", 3), Swath("S2", 5),
    <<In("S1", "v", GPM(<<D(2), D(3), D(4)>>, <<scan, pixel, N("nch")>>))>>,
    <<[GPM(<<D(2), D(3)>>, <<scan, pixel>>) EXCEPT !.path = << <<>>, <<"S1">>, <<"sub">>, <<"w">> >>]>>,
    <<In("S2", "w", GPM(<<D(2), D(3)>>, <<pixel, scan>>))>>,
    <<V(P("S1", <<"AlgorithmRuntimeInfo">>), <<D(1)>>, <<>>), V(P("S1", <<"q">>), <<D(2)>>, <<>>),
      In("S2", "z", GPM(<<D(4), D(4)>>, << <<>>, N("nch") >>))>>,
    <<In("S2", "bad", GPM(<<D(2)>>, <<scan, pixel>>))>> >>

Grids(header, group) == [NoMetadata EXCEPT !.root = header, !.grp = S(group) :> ("GridHeader" :> Header)]
GPMS == Grids("FileHeader" :> Header, "Grid")
GPMNew == Grids(<<>>, "Grid")
GPMM == [GPMS EXCEPT !.grp = (S("Grids") :> <<>>) @@ (<< <<>>, <<"Grids">>, <<"G1">> >> :> ("G1_GridHeader" :> Header))]
GPML3Pool == <<
    <<In("Grid", "rain", GPM(<<D(4), D(5)>>, <<N("nlon"), N("nlat")>>))>>,
    <<In("Grid", "height", GPM(<<D(4), D(19)>>, <<N("nlon"), N("nlayer")>>))>>,
    <<[GPM(<<D(4)>>, <<N("nlon")>>) EXCEPT !.path = << <<>>, <<"Grid">>, <<"sub">>, <<"rain">> >>]>>,
    <<V(P("", <<"InputFileNames">>), <<D(1)>>, <<>>)>>,
    <<Scale(N("lat"), D(4), "class")>>,
    <<V(P("Grid", <<"s">>), <<D(4)>>, <<N("lat")>>)>>,
    <<V(P("Empty", <<"e">>), <<D(7)>>, <<>>)>> >>
SeaWiFS(long, short) ==
    WithRoot([instrument_short_name |-> Text(<<"SeaWiFS">>), long_name |-> Text(long), short_name |-> Text(short)])
SeaWiFSL2 == SeaWiFS(<<"SeaWiFS", "Level 2">>, <<"other">>)
SeaWiFSL3 == SeaWiFS(<<"other">>, <<"SWDB_L3">>)
SeaWiFSPool == <<
    <<V(P("", <<"latitude">>), <<D(2), D(3)>>, <<natrack, nxtrack>>),
      V(P("", <<"longitude">>), <<D(2), D(3)>>, <<natrack, nxtrack>>),
      Scale(natrack, D(2), "class"), Scale(nxtrack, D(3), "class")>>,
    <<V(P("", <<"q">>), <<D(3), D(2)>>, <<nxtrack, natrack>>)>>,
    <<V(P("", <<"v">>), <<D(2), D(4)>>, <<>>), Scale(x, D(4), "class")>>,
    <<[V(P("", <<"i">>), <<D(2)>>, <<natrack>>) EXCEPT !.type = "int64"]>> >>

Ozone == WithRoot([ProductType |-> Text(<<"L2 Daily Trajectory">>),
                   ParameterName |-> Text(<<"Nadir Profile and Total Column Ozone">>)])
OzonePool == <<
    <<Scale(OzoneLat, D(2), "class")>>, <<Scale(OzoneTime, D(3), "class")>>,
    <<V(P("data", <<"v">>), <<D(2), D(3)>>, <<OzoneLat, OzoneTime>>)>>,
    <<V(P("", <<"Latitude">>), <<D(2)>>, <<>>)>>, <<V(P("", <<"Time">>), <<D(2)>>, <<>>)>>,
    <<V(P("data", <<"w">>), <<D(2), D(2), D(2), D(2)>>, <<>>)>> >>

Aquarius == WithRoot([Sensor |-> Text(<<"Aquarius">>), Title |-> Text(<<"Aquarius", "Level-3">>)])
AquariusPool == <<
    <<V(P("", <<"l3m_data">>), <<D(2), D(3)>>, <<>>)>>, <<V(P("", <<"palette">>), <<D(3), D(4)>>, <<>>)>>,
    <<[V(P("", <<"i">>), <<D(2)>>, <<>>) EXCEPT !.type = "int64"]>> >>

OBPG == WithRoot([processing_level |-> Text(<<"L3 Mapped">>), cdm_data_type |-> Text(<<"grid">>)])
OBPGPool == <<
    <<Scale(lat, D(2), "dimension")>>, <<Scale(lon, D(3), "dimension")>>,
    <<[V(P("", <<"chlor">>), <<D(2), D(3)>>, <<lat, lon>>) EXCEPT !.type = "float"]>>,
    <<V(P("", <<"palette">>), <<D(3), D(2)>>, <<lon, lat>>)>>,
    <<V(P("geophsical_data", <<"sst">>), <<D(3), D(2)>>, <<lon, lat>>)>> >>

\* A string of variable length marks only OCO2.
Orbit(project) == [NoMetadata EXCEPT !.grp = Metadata :> <<>>, !.project = project]
ACOS == Orbit(Text(<<"ACOS">>))
OCO2 == Orbit(VText(<<"OCO-2">>))
NoOCO2 == Orbit(Text(<<"OCO-2">>))
OrbitPool == <<
    <<[V(P("g1", <<"time">>), <<D(2)>>, <<>>) EXCEPT !.type = "int64"]>>,
    <<[V(P("", <<"id">>), <<D(2), D(2)>>, <<>>) EXCEPT !.type = "int64"]>>,
    <<V(P("g1", <<"v">>), <<D(2), D(3)>>, <<>>)>>, <<V(P("", <<"latitude">>), <<D(2), D(3)>>, <<>>)>>,
    <<[V(P("", <<"n">>), <<>>, <<>>) EXCEPT !.type = "nospace"]>> >>

SMAP == [NoMetadata EXCEPT !.grp = Metadata :> ("ProjectID" :> Text(<<"SMAP">>))]
SMAPPool == <<
    <<V(P("g1", <<"cell", "lat">>), <<D(2), D(3)>>, <<>>)>>, <<V(P("g1", <<"cell", "lon">>), <<D(2), D(3)>>, <<>>)>>,
    <<V(P("g1", <<"v">>), <<D(3), D(2), D(4), D(4)>>, <<>>)>>, <<V(P("g1", <<"i", "lat">>), <<D(2)>>, <<>>)>>,
    <<Coor(V(P("g2", <<"u">>), <<D(2), D(3)>>, <<>>), <<P("g1", <<"cell", "lat">>), P("g1", <<"cell", "lon">>)>>)>> >>

\* All groups of the files.
MCGroups == <<S("Dimensions"), S("Empty"), S("Grid"), << <<>>, <<"Grid">>, <<"sub">> >>, S("Grids"),
              << <<>>, <<"Grids">>, <<"G1">> >>, S("InputPointers"), S("Metadata"), S("S1"),
              << <<>>, <<"S1">>, <<"sub">> >>, S("S2"), S("data"), S("g1"), << <<>>, <<"g1">>, <<"s">> >>,
              S("g2"), S("geophsical_data")>>

GroupsOf(vs, meta) ==
    SelectSeq(MCGroups, LAMBDA g : g \in DOMAIN meta.grp \/ \E v \in Range(vs) : IsPrefix(g, v.path))

AsFile(vs, meta, omps) == [vars |-> vs, groups |-> GroupsOf(vs, meta), meta |-> meta, omps |-> omps]

\* The parts of a pool of groups of variables that have the scales they refer to
\* and no path twice.
PartsOf(pool) ==
    {s \in {FlattenSeq(ElementsAt(pool, T)) : T \in SUBSET (DOMAIN pool) \ {{}}} :
       /\ \A i, j \in DOMAIN s : s[i].path = s[j].path => i = j
       /\ \A v \in Range(s) : \A p \in Range(v.dimlist) \ {NoScale} : \E w \in Range(s) : w.path = p}

FilesOf(pool, meta) == {AsFile(vs, meta, FALSE) : vs \in PartsOf(pool)}

MCFiles ==
    UNION {FilesOf(pool, NoMetadata) : pool \in {DimscalePool, UnitsPool, NamesPool, LatLonPool, CoorPool}}
    \cup {AsFile(vs, NoMetadata, omps) : vs \in PartsOf(InputPointersPool), omps \in BOOLEAN}
    \cup FilesOf(GPML1Pool, GPML1) \cup UNION {FilesOf(GPML3Pool, m) : m \in {GPMS, GPMM, GPMNew}}
    \cup UNION {FilesOf(SeaWiFSPool, m) : m \in {SeaWiFSL2, SeaWiFSL3}}
    \cup FilesOf(OzonePool, Ozone) \cup FilesOf(AquariusPool, Aquarius) \cup FilesOf(OBPGPool, OBPG)
    \cup UNION {FilesOf(OrbitPool, m) : m \in {ACOS, OCO2, NoOCO2}} \cup FilesOf(SMAPPool, SMAP)

\* The keys as they are by default, and the other way round.
MCConfigs == LET default == {"ForceFlattenNDCoorAttr", "CoorattrAddPath"} IN {default, Keys \ default}

=============================================================================
