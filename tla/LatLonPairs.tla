---------------------------- MODULE LatLonPairs ----------------------------
(***************************************************************************)
(* General HDF5 products without dimension scales whose variables say in   *)
(* the attribute coordinates which latitude and longitude they have        *)
(* (GENERAL_LATLON_COOR_ATTR): which latitudes and longitudes of the file  *)
(* belong together, and what becomes of the attribute.                     *)
(*                                                                         *)
(* Variables are those of GeneralCVs.  A coordinate is a path: with the    *)
(* root group when it starts with a slash, without it when it does not,    *)
(* and of one component when it is a bare name; the component Up goes to    *)
(* the group around.  A latitude or a longitude is one whose name has one  *)
(* of the words below at its end; a name ends with them only after an      *)
(* underscore.                                                             *)
(***************************************************************************)
EXTENDS GeneralCVs

LatWords == {"lat", "latitude", "Latitude"}
LonWords == {"lon", "longitude", "Longitude"}

EndsIn(path, words) == NameOf(path) # <<>> /\ Last(NameOf(path)) \in words

\* A variable with two or more dimensions names a latitude and a longitude.
SomeNamesBoth(vars) ==
    \E v \in Range(vars) :
      /\ Rank(v) >= 2
      /\ \E p \in Range(v.coordinates) : EndsIn(p, LatWords)
      /\ \E p \in Range(v.coordinates) : EndsIn(p, LonWords)

\* A latitude and a longitude with their sizes and their rank; for more than
\* one dimension both sizes are those of the latitude.
Pair(lat, lon) ==
    [lat |-> lat.path, lon |-> lon.path, rank |-> Rank(lat), size1 |-> Size(lat, 1),
     size2 |-> IF Rank(lat) = 1 THEN Size(lon, 1) ELSE Size(lat, 2)]

PairsOf(lat, lons) == [i \in DOMAIN lons |-> Pair(lat, lons[i])]

InGroupOf(lat, lons) == SelectSeq(lons, LAMBDA l : GroupOf(l.path) = GroupOf(lat.path))

\* The only 1-D longitude, or else the only one in the group of the latitude.
Build_lat1D_latlon_candidate(lat, lons) ==
    LET flat == SelectSeq(lons, LAMBDA l : Rank(l) = 1)
        near == InGroupOf(lat, flat)
    IN CASE Len(flat) = 1 -> PairsOf(lat, flat)
         [] Len(flat) > 1 /\ Len(near) = 1 -> PairsOf(lat, near)
         [] OTHER -> <<>>

\* What stands before the word: "short" before lat or lon, "long" before the
\* others, which is nothing when the name is the word.
NoPrefixes == [short |-> <<>>, long |-> <<>>]

\* A name that is too short for a prefix leaves the one of the name before it.
PrefixesOf(name, before) ==
    CASE name \in {<<"lat">>, <<"lon">>} -> before
      [] Last(name) \in {"lat", "lon"} /\ Len(name) > 1 -> [before EXCEPT !.short = Front(name)]
      [] Last(name) \notin {"lat", "lon"} /\ Len(name) = 1 -> [before EXCEPT !.short = <<"cut", name[1]>>]
      [] OTHER -> [short |-> <<"cut">> \o name, long |-> Front(name)]

SamePrefix(p, q) == (p.short # <<>> /\ p.short = q.short) \/ (p.long # <<>> /\ p.long = q.long)

\* The longitudes of one group with the sizes of the latitude, in the order of
\* their paths: those whose prefix is that of the latitude.
WithItsPrefix(lat, lons) ==
    LET mine == PrefixesOf(NameOf(lat.path), NoPrefixes)
        walk[i \in 0..Len(lons)] ==
          IF i = 0 THEN [last |-> NoPrefixes, found |-> <<>>]
          ELSE LET now == PrefixesOf(NameOf(lons[i].path), walk[i - 1].last) IN
               [last |-> now,
                found |-> IF SamePrefix(mine, now) THEN Append(walk[i - 1].found, lons[i])
                          ELSE walk[i - 1].found]
    IN walk[Len(lons)].found

\* The only longitude with the sizes of the latitude, or else the only one in
\* its group, or else those there with its prefix.
Build_latg1D_latlon_candidate(lat, lons) ==
    LET same == SelectSeq(lons, LAMBDA l : /\ Rank(l) = Rank(lat)
                                           /\ \A i \in DOMAIN l.dims : Size(l, i) = Size(lat, i))
        near == InGroupOf(lat, same)
    IN CASE Len(same) = 1 -> PairsOf(lat, same)
         [] Len(same) > 1 /\ Len(near) = 1 -> PairsOf(lat, near)
         [] Len(same) > 1 /\ Len(near) > 1 -> PairsOf(lat, WithItsPrefix(lat, near))
         [] OTHER -> <<>>

\* Pairs with a longitude that another pair has are dropped.
Build_unique_latlon_candidate(pairs) ==
    SelectSeq(pairs, LAMBDA p : Cardinality({i \in DOMAIN pairs : pairs[i].lon = p.lon}) = 1)

\* The pairs of a file; latitudes and longitudes are taken in the order of the
\* file, which lists the longitudes of a group in the order of their names.
latloncv_candidate_pairs(vars) ==
    LET lats == SelectSeq(vars, LAMBDA v : EndsIn(v.path, LatWords) /\ Rank(v) > 0)
        lons == SelectSeq(vars, LAMBDA v : EndsIn(v.path, LonWords) /\ Rank(v) > 0)
        of(lat) == IF Rank(lat) = 1 THEN Build_lat1D_latlon_candidate(lat, lons)
                   ELSE Build_latg1D_latlon_candidate(lat, lons)
    IN Build_unique_latlon_candidate(FlattenSeq([i \in DOMAIN lats |-> of(lats[i])]))

\* 1-D latitude and longitude of one size: no variable that names both has
\* anything but two dimensions of that size.
NoTrajectory(vars, p) ==
    \A v \in Range(vars) :
      Rank(v) >= 2 /\ {p.lat, p.lon} \subseteq Range(v.coordinates) =>
        Cardinality({i \in DOMAIN v.dims : Size(v, i) = p.size1}) = 2

\* The file is of this pattern if it has a 2-D pair, or else a 1-D pair that
\* is not a trajectory.
Check_LatLon_With_Coordinate_Attr_General_Product_Pattern(vars, pairs) ==
    LET ranks == {p.rank : p \in Range(pairs)} IN
    /\ SomeNamesBoth(vars)
    /\ \/ 2 \in ranks
       \/ 2 \notin ranks /\ \E p \in Range(pairs) :
            p.rank = 1 /\ (p.size1 # p.size2 \/ NoTrajectory(vars, p))

------------------------------------------------------------------------------
(***************************************************************************)
(* The attribute of such a file.                                           *)
(***************************************************************************)

\* Exactly one latitude and one longitude are matched, each once, and they are a
\* pair; lats and lons are what each pair's are called, <<>> being no name.
OnePairMatched(coordinates, lats, lons) ==
    LET lat == {m \in (DOMAIN coordinates) \X (DOMAIN lats) : coordinates[m[1]] = lats[m[2]]}
        lon == {m \in (DOMAIN coordinates) \X (DOMAIN lons) : coordinates[m[1]] = lons[m[2]]}
    IN /\ Cardinality(lat) = 1 /\ Cardinality(lon) = 1
       /\ {m[2] : m \in lat} = {m[2] : m \in lon}

\* Paths whose first component is not the root group get it, when the first
\* coordinate has no leading slash.
FromRoot(coordinates) ==
    IF coordinates[1][1] = <<>> THEN coordinates
    ELSE [i \in DOMAIN coordinates |-> IF Len(coordinates[i]) > 1 THEN Root \o coordinates[i]
                                       ELSE coordinates[i]]

Coord_Match_LatLon_NameSize(coordinates, pairs) ==
    OnePairMatched(FromRoot(coordinates), [i \in DOMAIN pairs |-> pairs[i].lat], [i \in DOMAIN pairs |-> pairs[i].lon])

\* Bare names of a latitude and a longitude in the group of the variable.
Coord_Match_LatLon_NameSize_Same_Group(coordinates, pairs, group) ==
    LET bare(path) == IF GroupOf(path) = group THEN <<NameOf(path)>> ELSE <<>> IN
    OnePairMatched(coordinates, [i \in DOMAIN pairs |-> bare(pairs[i].lat)], [i \in DOMAIN pairs |-> bare(pairs[i].lon)])

\* Every coordinate gets the flattened path of the group of the variable.
Add_VarPath_In_Coordinates_Attr(v) ==
    [v EXCEPT !.coordinates = [i \in DOMAIN @ |-> <<get_CF_string(GroupOf(v.path) \o @[i])>>], !.addpath = FALSE]

\* Paths in the attribute become DAP names; an attribute without a slash stays.
Flatten_VarPath_In_Coordinates_Attr(v) ==
    IF \E p \in Range(v.coordinates) : Len(p) > 1
    THEN [v EXCEPT !.coordinates = [i \in DOMAIN @ |-> <<get_CF_string(@[i])>>], !.addpath = FALSE]
    ELSE v

\* Paths become DAP names; or bare names get the path of the variable's group.
Handle_LatLon_With_CoordinateAttr_Coor_Attr(v, pairs) ==
    CASE Rank(v) < 2 \/ v.coordinates = <<>> -> v
      [] /\ Rank(v) >= 2 /\ v.coordinates # <<>>
         /\ Coord_Match_LatLon_NameSize(v.coordinates, pairs) -> Flatten_VarPath_In_Coordinates_Attr(v)
      [] /\ Rank(v) >= 2 /\ v.coordinates # <<>>
         /\ ~Coord_Match_LatLon_NameSize(v.coordinates, pairs)
         /\ Coord_Match_LatLon_NameSize_Same_Group(v.coordinates, pairs, GroupOf(v.path)) ->
           Add_VarPath_In_Coordinates_Attr(v)
      [] OTHER -> v

------------------------------------------------------------------------------
(***************************************************************************)
(* The attribute of any file that no stage has written (Add_Path_Coord_    *)
(* Attr).                                                                  *)
(***************************************************************************)

Up == <<"..">>

\* For a variable in a group: a bare name gets the path of the group, and a path
\* that goes up from there, to the root group at most, is resolved.
cha_co(co, path) ==
    LET ups == {i \in DOMAIN co : co[i] = Up} IN
    CASE Len(path) > 2 /\ Len(co) = 1 -> Tail(GroupOf(path)) \o co
      [] Len(path) > 2 /\ Len(co) > 1 /\ co[1] = Up /\ Cardinality(ups) < Len(path) - 1 ->
           SubSeq(path, 2, Len(path) - 1 - Cardinality(ups)) \o SubSeq(co, Max(ups) + 1, Len(co))
      [] OTHER -> co

MutantPathCoord(v) ==
    IF v.addpath THEN [v EXCEPT !.coordinates = [i \in DOMAIN @ |-> <<get_CF_string(@[i])>>]] ELSE v

\* Paths become DAP names.
WithPathCoord(v) ==
    IF v.addpath THEN [v EXCEPT !.coordinates = [i \in DOMAIN @ |-> <<get_CF_string(cha_co(@[i], v.path))>>]]
    ELSE v

=============================================================================
