----------------------------- MODULE ComputedCVs -----------------------------
(***************************************************************************)
(* The values of coordinate variables that no dataset holds: they are      *)
(* computed from attributes of the file or its groups, from the            *)
(* projection of a grid, or from the documents of a product, for the       *)
(* places that a constraint selects.                                       *)
(*                                                                         *)
(* Each read gives the values it sends and, where the value of the whole   *)
(* variable goes to the memory cache as well, what it copies there.        *)
(* Numbers are whole: a value that is a half or a tenth is counted in      *)
(* halves or tenths.                                                       *)
(***************************************************************************)
EXTENDS Hyperslab

\* What a read does: it throws, it does what C++ leaves open, or it sends values.
Throws      == [status |-> "throws", value |-> <<>>, cache |-> <<>>]
LeftOpen   == [status |-> "undefined", value |-> <<>>, cache |-> <<>>]
Sent(value) == [status |-> "ok", value |-> value, cache |-> <<>>]
Kept(value, whole) == [status |-> "ok", value |-> value, cache |-> whole]

\* The places of a selection in its one dimension, and all of n.
Chosen(sel) == [i \in 1..Nels(sel) |-> Offset(sel)[1] + (i - 1) * Step(sel)[1]]
All(n)      == [i \in 1..n |-> i - 1]

\* The values at places of what grows evenly.
Even(places, first, step) == [i \in DOMAIN places |-> first + places[i] * step]

------------------------------------------------------------------------------
(***************************************************************************)
(* Attributes: a function from names to [class, values].                   *)
(***************************************************************************)

\* An attribute that gives a latitude or longitude must have one value, and not be
\* a string of variable length.
Obtainable(attributes, name) ==
    /\ name \in DOMAIN attributes
    /\ Len(attributes[name].values) = 1
    /\ attributes[name].class # "vlen string"

obtain_ll_attr_value(attributes, name) == attributes[name].values[1]

\* The attributes of the file with the first point, the step and the number.
LatitudeNames(product) ==
    IF product = "Aqu_L3" THEN <<"SW Point Latitude", "Latitude Step", "Number of Lines">>
    ELSE <<"sw_point_latitude", "latitude_step", "number_of_lines">>
LongitudeNames(product) ==
    IF product = "Aqu_L3" THEN <<"SW Point Longitude", "Longitude Step", "Number of Columns">>
    ELSE <<"sw_point_longitude", "longitude_step", "number_of_columns">>

\* Aquarius and OBPG level 3: the latitude starts at the north, the attribute names
\* the south.
obtain_aqu_obpg_l3_ll(product, lat, attributes, sel) ==
    LET names == IF lat THEN LatitudeNames(product) ELSE LongitudeNames(product)
        value(i) == obtain_ll_attr_value(attributes, names[i]) IN
    IF \E i \in 1..3 : ~Obtainable(attributes, names[i]) THEN Throws
    ELSE IF value(3) <= 0 \/ Nels(sel) > value(3) THEN Throws
    ELSE IF lat
    THEN Kept(Even(Chosen(sel), value(1) + (value(3) - 1) * value(2), -value(2)),
              Even(All(value(3)), value(1) + (value(3) - 1) * value(2), -value(2)))
    ELSE Kept(Even(Chosen(sel), value(1), value(2)), Even(All(value(3)), value(1), value(2)))

------------------------------------------------------------------------------
(***************************************************************************)
(* GPM level 3: a GridHeader is an attribute of one text, here a sequence  *)
(* of lines [name, value].                                                 *)
(***************************************************************************)

HeaderLines == <<"BinMethod", "Registration", "LatitudeResolution", "LongitudeResolution",
                 "NorthBoundingCoordinate", "SouthBoundingCoordinate",
                 "EastBoundingCoordinate", "WestBoundingCoordinate", "Origin">>

\* A header is used when its lines are those, in that order, the first being of no
\* interest, and the grid has its points in the middle and starts in the south-west.
Parses(header) ==
    /\ Len(header) >= 9
    /\ \A i \in 2..9 : header[i].name = HeaderLines[i]
    /\ header[2].value = "CENTER" /\ header[9].value = "SOUTHWEST"

parser_gpm_l3_gridheader(header) ==
    [latsize |-> (header[5].value - header[6].value) \div header[3].value,
     lonsize |-> (header[7].value - header[8].value) \div header[4].value,
     lat_start |-> header[6].value, lon_start |-> header[8].value,
     lat_res |-> header[3].value, lon_res |-> header[4].value]

\* The group that describes the grid of a dimension, and the attribute there.  A
\* group is a path; groups is a function from paths to their attributes.
GridGroup(groups, name) ==
    CASE name \in {"nlat", "nlon"} -> IF "/Grid" \in DOMAIN groups THEN "/Grid" ELSE "/GRID"
      [] name \in {"lnH", "ltH"}   -> "Grids/G2"
      [] name \in {"lnL", "ltL"}   -> "Grids/G1"
      [] OTHER                     -> ""
GridInfoName(name) ==
    CASE name \in {"lnL", "ltL"} -> "G1_GridHeader"
      [] name \in {"lnH", "ltH"} -> "G2_GridHeader"
      [] OTHER                   -> "GridHeader"

MutantPicksFirst(name, one, two) ==
    CASE name \in {"lnL", "ltL"} -> ~(one.lat_res > two.lat_res)
      [] name \in {"lnH", "ltH"} -> ~(one.lat_res > two.lat_res)
      [] OTHER                   -> TRUE

\* The files of newer versions: the first two different GridHeaders, wherever they
\* are; the resolution tells which belongs to the dimension.
PicksFirst(name, one, two) ==
    CASE name \in {"lnL", "ltL"} -> ~(one.lat_res < two.lat_res)
      [] name \in {"lnH", "ltH"} -> ~(one.lat_res > two.lat_res)
      [] OTHER                   -> TRUE

obtain_lat_lon_info(name, one, two) == IF PicksFirst(name, one, two) THEN one ELSE two

\* The GridHeaders of a file in the order in which its groups are visited, the
\* first, and the first that differs from it in name and in value.
Second(visited) == SelectInSeq(visited, LAMBDA h: h.name # visited[1].name /\ h.lines # visited[1].lines)

obtain_gpm_l3_new_grid_info(visited) ==
    IF visited = <<>> THEN <<>>
    ELSE IF Second(visited) = 0 THEN <<visited[1].lines>>
    ELSE <<visited[1].lines, visited[Second(visited)].lines>>

\* In half units: the middle of a cell is half a cell from where it starts.
send_gpm_l3_ll_to_dap(grid, lat, sel) ==
    LET size  == IF lat THEN grid.latsize ELSE grid.lonsize
        start == IF lat THEN grid.lat_start ELSE grid.lon_start
        res   == IF lat THEN grid.lat_res ELSE grid.lon_res IN
    IF grid.latsize = 0 \/ grid.lonsize = 0 \/ Nels(sel) > size THEN Throws
    ELSE Kept([i \in 1..Nels(sel) |->
                 2 * start + 2 * Offset(sel)[1] * res + res + 2 * (i - 1) * res * Step(sel)[1]],
              [i \in 1..size |-> 2 * start + res + 2 * (i - 1) * res])

\* An empty second header is read as text all the same.
obtain_gpm_l3_ll(new, name, lat, groups, visited, sel) ==
    LET group == GridGroup(groups, name)
        both  == obtain_gpm_l3_new_grid_info(visited) IN
    IF ~new
    THEN IF group \notin DOMAIN groups \/ ~Obtainable(groups[group], GridInfoName(name)) THEN Throws
         ELSE IF ~Parses(obtain_ll_attr_value(groups[group], GridInfoName(name))) THEN Throws
         ELSE send_gpm_l3_ll_to_dap(
                parser_gpm_l3_gridheader(obtain_ll_attr_value(groups[group], GridInfoName(name))), lat, sel)
    ELSE IF Len(both) < 2 THEN LeftOpen
    ELSE IF ~Parses(both[1]) \/ ~Parses(both[2]) THEN Throws
    ELSE send_gpm_l3_ll_to_dap(
           obtain_lat_lon_info(name, parser_gpm_l3_gridheader(both[1]), parser_gpm_l3_gridheader(both[2])), lat, sel)

------------------------------------------------------------------------------
(***************************************************************************)
(* HDF-EOS5.                                                               *)
(***************************************************************************)

\* Where the values of a grid that is not projected start and end: by the corner in
\* which its first cell is.
Ends(grid, lat) ==
    IF lat
    THEN IF grid.origin \in {"UL", "UR"} THEN <<grid.upper, grid.lower>> ELSE <<grid.lower, grid.upper>>
    ELSE IF grid.origin \in {"UL", "LL"} THEN <<grid.left, grid.right>> ELSE <<grid.right, grid.left>>

\* In half units; the size divides the extent.
read_data_NOT_from_mem_cache_geo(grid, lat, sel) ==
    LET size == IF lat THEN grid.ydimsize ELSE grid.xdimsize
        ends == Ends(grid, lat)
        step == (ends[2] - ends[1]) \div size
        half == IF grid.pixelreg = "CENTER" THEN 1 ELSE 0
        value(places) == [i \in DOMAIN places |-> (2 * places[i] + half) * step + 2 * ends[1]] IN
    IF Nels(sel) <= 0 \/ size <= 0 THEN Throws
    ELSE Kept(value(Chosen(sel)), value(All(size)))

\* TES: the pressure levels are an attribute of the swath that lacks the first
\* level, which is put so that the second level divides, in tenths.
Level(attribute, i) == IF i = 1 THEN 11 * attribute[1] - attribute[2] ELSE 10 * attribute[i - 1]

TesLevels(attribute, total, sel) ==
    IF Len(attribute) = 0 \/ Len(attribute) # total - 1 \/ Nels(sel) <= 0 THEN Throws
    ELSE IF Len(attribute) = 1 THEN LeftOpen
    ELSE Sent([i \in 1..Nels(sel) |-> Level(attribute, Chosen(sel)[i] + 1)])

------------------------------------------------------------------------------
(***************************************************************************)
(* Special variables of general products.                                  *)
(***************************************************************************)

\* The heights of GPM level 3 in half kilometres, by the name and size of the
\* dimension.
Layers28 == [i \in 1..28 |-> IF i <= 20 THEN i ELSE 20 + 2 * (i - 20)]
Layers19 == [i \in 1..19 |-> IF i <= 2 THEN i ELSE 2 + 2 * (i - 2)]
Heights  == <<4, 8, 12, 20, 30>>

Table(name, tnumelm) ==
    CASE name = "nlayer" /\ tnumelm = 28       -> Layers28
      [] name = "nlayer" /\ tnumelm = 19       -> Layers19
      [] name \in {"hgt", "nalt"} /\ tnumelm = 5 -> Heights
      [] OTHER                                 -> <<>>

\* A dimension that is not in the table gets no values.
SpecialValues(name, tnumelm, sel) ==
    LET table == Table(name, tnumelm) IN
    IF table = <<>> THEN Sent(<<>>)
    ELSE IF Nels(sel) = tnumelm THEN Sent(table)
    ELSE Sent([i \in 1..Nels(sel) |-> table[Chosen(sel)[i] + 1]])

Power10(n) == Product([i \in 1..n |-> 10])

\* The digits of a 64-bit identifier that make the time or the date.
CutDigits(value, sdbit, numofdbits) == (value \div Power10(sdbit - 1)) % Power10(numofdbits)

SpecialDigits(otype, dtype, values, sdbit, numofdbits, sel) ==
    IF otype \notin {"H5INT64", "H5UINT64"} \/ dtype # "H5INT32" THEN Throws
    ELSE Sent([i \in 1..Nels(sel) |-> CutDigits(values[Chosen(sel)[i] + 1], sdbit, numofdbits)])

\* How many values the type of a dimension scale has, up to Large, and the least of them.
Width(dtype, dap4) ==
    CASE dtype = "H5UCHAR" \/ (dtype = "H5CHAR" /\ dap4)            -> 2 ^ 8
      [] dtype \in {"H5INT16", "H5UINT16"} \/ (dtype = "H5CHAR" /\ ~dap4) -> 2 ^ 16
      [] OTHER                                                     -> 2 ^ 30
Least(dtype, dap4) ==
    IF dtype \in {"H5CHAR", "H5INT16", "H5INT32", "H5INT64"} THEN -(Width(dtype, dap4) \div 2) ELSE 0

\* A dimension scale without data counts its places in its own type.
FillIndex(dtype, dap4, sel) ==
    IF dtype \in {"H5FSTRING", "H5VSTRING"} THEN Throws
    ELSE Sent([i \in 1..Nels(sel) |->
                 ((Chosen(sel)[i] - Least(dtype, dap4)) % Width(dtype, dap4)) + Least(dtype, dap4)])
==============================================================================
