---------------------------- MODULE MCAlgorithms ----------------------------
(***************************************************************************)
(* The pure parts, each input one state: selections of small arrays, small *)
(* datasets, descriptions of computed variables, parts of metadata, DASes, *)
(* files for the output, and lines of the configuration file with paths to *)
(* look up.                                                                *)
(***************************************************************************)
EXTENDS Algorithms, ObjectRead, ComputedCVs, DasStream

Output == INSTANCE MCOutput

CONSTANT
    Blank       \* how many blanks may end a line of the configuration file

------------------------------------------------------------------------------
(* Selections: up to three dimensions. *)

Dimension(size) == {s \in [start : 0..(size - 1), stride : 1..size, stop : 0..(size - 1)] : s.start <= s.stop}
Shapes == {<<n>> : n \in 1..5} \cup ((1..3) \X (1..3)) \cup ((1..2) \X (1..2) \X (2..3))
SelectionsOf(dims) ==
    {sel \in [DOMAIN dims -> UNION {Dimension(dims[d]) : d \in DOMAIN dims}] :
       \A d \in DOMAIN dims : sel[d] \in Dimension(dims[d])}
Selections == UNION {{[about |-> "selection", dims |-> dims, sel |-> sel] : sel \in SelectionsOf(dims)} : dims \in Shapes}

(* Datasets of the default option: a compound of a number, a field and a number,
   where the field may be an array, with selections on both levels. *)

NumberType(size, dap) == [class |-> "number", size |-> size, dap |-> dap]
StringType(v)     == [class |-> "string", size |-> 3, variable |-> v]
Byte == NumberType(1, "Byte")
Compound(types) ==
    LET offset[i \in 1..(Len(types) + 1)] == IF i = 1 THEN 0 ELSE offset[i - 1] + types[i - 1].size IN
    [class |-> "compound", size |-> offset[Len(types) + 1],
     members |-> [i \in DOMAIN types |-> [offset |-> offset[i], type |-> types[i]]]]
ArrayOf(base, dims, sel) ==
    [class |-> "array", size |-> Product(dims) * base.size, base |-> base, dims |-> dims, sel |-> sel]
Arrays(bases, shapes) == UNION {{ArrayOf(b, dims, sel) : b \in bases, sel \in SelectionsOf(dims)} : dims \in shapes}

Plain == {Byte, NumberType(1, "Int8"), NumberType(2, "UInt16"), NumberType(8, "Int64"), StringType(TRUE), StringType(FALSE)}
Inner == Arrays({Byte, NumberType(1, "Int8")}, {<<2>>})
Compounds == {Compound(<<Byte, t>>) : t \in {Byte, StringType(TRUE), Compound(<<Byte, Byte>>)} \cup Inner}
Other == [class |-> "other", size |-> 1]
Fields == Plain \cup Compounds \cup Arrays(Plain \cup {Other}, {<<3>>, <<2, 2>>})
            \cup Arrays(Compounds, {<<3>>, <<2, 2>>})
Datasets ==
    UNION {{[about |-> "object", dims |-> dims, sel |-> sel, type |-> Compound(<<Byte, f, Byte>>)] :
              sel \in SelectionsOf(dims), f \in Fields} : dims \in {<<>>, <<2>>}}
    \cup UNION {{[about |-> "object", dims |-> dims, sel |-> sel, type |-> f] :
                   sel \in SelectionsOf(dims), f \in Plain \cup Compounds} : dims \in {<<>>, <<3>>, <<2, 2>>}}
    \cup {[about |-> "object", dims |-> <<3>>, sel |-> sel, type |-> [class |-> "reference", size |-> 1, region |-> r]] :
             sel \in SelectionsOf(<<3>>), r \in [1..3 -> {"object"}] \cup [1..3 -> {"points", "slab", "all"}]}

(* Computed coordinate variables of a file: sel selects places of n. *)

ComputedOf(n, sels, source) == [about : {"computed"}, n : {n}, sel : sels, source : source]

One(class, v) == [class |-> class, values |-> <<v>>]
Corners(names, first, step, number) ==
    (names[1] :> One("number", first)) @@ (names[2] :> One("number", step)) @@ (names[3] :> One("number", number))
Levels3(n) == {[kind |-> "level 3", product |-> p, lat |-> lat, attributes |-> a] :
                 p \in {"Aqu_L3", "OBPG_L3"}, lat \in BOOLEAN,
                 a \in {Corners(LatitudeNames("Aqu_L3"), -7, 3, k) @@ Corners(LongitudeNames("Aqu_L3"), -9, 2, k) : k \in {0, n, n + 1}}
                      \cup {Corners(LatitudeNames("OBPG_L3"), -7, 3, n) @@ Corners(LongitudeNames("OBPG_L3"), -9, 2, n)}}

\* Headers of grids with cells of a size.
Header(n, res) ==
    [i \in 1..9 |-> [name |-> HeaderLines[i],
                     value |-> <<"", "CENTER", res, res, n * res - 6, -6, n * res - 8, -8, "SOUTHWEST">>[i]]]
Unordered(header) == [header EXCEPT ![3] = header[4], ![4] = header[3]]
Gpm(n) ==
    {[kind |-> "gpm", new |-> FALSE, name |-> name, lat |-> name \in {"nlat", "ltL", "ltH"}, visited |-> <<>>,
      groups |-> g] :
       name \in {"nlat", "nlon", "ltL", "lnL", "ltH", "lnH"},
       g \in {("Grids/G1" :> ("G1_GridHeader" :> One("string", Header(n, 4)))) @@ ("Grids/G2" :> ("G2_GridHeader" :> One("string", Header(n, 2)))),
              "/GRID" :> ("GridHeader" :> One("string", Header(n, 2))),
              "/Grid" :> ("GridHeader" :> One("string", Header(n, 2))) @@ ("GridHeaderOld" :> One("string", Header(n, 4))),
              "/Grid" :> ("GridHeader" :> One("string", Unordered(Header(n, 2)))),
              "/Grid" :> ("GridHeader" :> One("vlen string", Header(n, 2)))}}
    \cup {[kind |-> "gpm", new |-> TRUE, name |-> name, lat |-> lat, groups |-> <<>>, visited |-> v] :
            name \in {"ltL", "ltH"}, lat \in BOOLEAN,
            v \in {<<[name |-> "G1_GridHeader", lines |-> Header(n, 4)], [name |-> "G2_GridHeader", lines |-> Header(n, 2)]>>,
                   <<[name |-> "G1_GridHeader", lines |-> Header(n, 2)], [name |-> "G1_GridHeader", lines |-> Header(n, 2)],
                     [name |-> "G2_GridHeader", lines |-> Header(n, 4)]>>,
                   <<[name |-> "GridHeader", lines |-> Header(n, 4)]>>}}

Geo(n) == {[kind |-> "geo", lat |-> lat,
            grid |-> [ydimsize |-> n, xdimsize |-> n, upper |-> 3 * n, lower |-> -2 * n, left |-> -n, right |-> 4 * n,
                      origin |-> o, pixelreg |-> r]] :
             lat \in BOOLEAN, o \in {"UL", "UR", "LL", "LR"}, r \in {"CENTER", "CORNER"}}
Tes(n) == {[kind |-> "tes", attribute |-> [i \in 1..k |-> 50 - 3 * i * i]] : k \in {n - 1, n}}
Special == {[kind |-> "special", name |-> name] : name \in {"nlayer", "hgt", "nalt", "nothing"}}
Digits(n) == {[kind |-> "digits", otype |-> t, dtype |-> "H5INT32", values |-> [i \in 1..n |-> 20730 + 11 * i]] :
                t \in {"H5INT64", "H5UINT64", "H5INT32"}}
Scales == {[kind |-> "index", dtype |-> t] :
             t \in {"H5UCHAR", "H5CHAR", "H5INT16", "H5UINT32", "H5FLOAT32", "H5FSTRING"}}

\* Selections of a long dimension.
Long(n) == {<<[start |-> 0, stride |-> 1, stop |-> n - 1]>>, <<[start |-> 3, stride |-> 2, stop |-> n - 3]>>,
            <<[start |-> n - 1, stride |-> 1, stop |-> n - 1]>>}

Computed ==
    UNION {ComputedOf(n, SelectionsOf(<<n>>),
             Levels3(n) \cup Gpm(n) \cup Geo(n) \cup Tes(n) \cup Digits(n) \cup Scales \cup Special) : n \in 1..5}
    \cup UNION {ComputedOf(n, Long(n), Special \cup Scales) : n \in {19, 28, 130, 260}}

(* Metadata: up to three objects with distinct names, the texts being their places,
   or four parts in some order. *)

Object(kind, form, numbers) ==
    [kind |-> kind, form |-> form, numbers |-> numbers, text |-> <<>>, object |-> "dataset"]
MetadataNames ==
    {Object(k, f, <<>>) : k \in {"StructMetadata", "CoreMetadata"}, f \in {"exact", "undotted"}}
    \cup {Object(k, "dotted", n) : k \in {"StructMetadata", "CoreMetadata"},
                                  n \in {<<0>>, <<1>>, <<0, 1>>, <<NotANumber>>, <<2, NotANumber>>}}
    \cup {Object("other", "exact", <<>>), [Object("other", "exact", <<>>) EXCEPT !.object = "group"]}
Orders == {s \in BoundedSeq(MetadataNames, 3) : \A i, j \in DOMAIN s : s[i] = s[j] => i = j}
            \cup {<<Object("StructMetadata", "dotted", <<0>>)>> \o [i \in 1..4 |-> Object("ArchivedMetadata", "dotted", <<p[i]>>)] :
                     p \in {p \in [1..4 -> 0..3] : \A i, j \in 1..4 : p[i] = p[j] => i = j}}
Metadata == {[about |-> "metadata", objects |-> [i \in DOMAIN s |-> [s[i] EXCEPT !.text = <<i>>]]] : s \in Orders}

(* DASes: containers of attributes and containers of them.  A table has no two
   entries of one name. *)

Attributes == {Attribute(n, "Float32", v) : n \in {"a", "b"}, v \in {<<>>, <<"0">>, <<"0", "1">>}}
Distinct(tables) == {t \in tables : Len(t) = 2 => t[1].name # t[2].name}
Tables == Distinct(BoundedSeq(Attributes, 2))
Mixed == Distinct(BoundedSeq(Attributes \cup {Container("c", t) : t \in {t \in Tables : Len(t) < 2}}, 2))
Dases == {[about |-> "das", das |-> das] :
            das \in {<<>>} \cup {<<Container("x", t)>> : t \in Mixed}
                     \cup {<<Container("x", t), Container("y", u)>> : t \in {<<>>} \cup {<<a>> : a \in Attributes}, u \in Tables}}

(* Lines of one or two names, in double quotes, single quotes or none, and the
   path of a file and a variable. *)

Names == {<<"c">>, <<"c", "d">>, <<"/", "v">>, <<"e", "/", "v">>, <<"/", "c", "/", "e", "/", "v">>}
Joined(names, q) == LET quote(n) == IF q = "none" THEN n ELSE <<q>> \o n \o <<q>> IN
    IF Len(names) = 1 THEN quote(names[1]) ELSE quote(names[1]) \o <<" ">> \o quote(names[2])
Blanks == {[i \in 1..n |-> " "] : n \in 0..Blank}
Files == {<<"/", "e">>, <<"/", "c">>, <<"/", "c", "/", "e">>, <<"/", "d", "/", "c", "d", "/", "c">>,
          <<"/", "c", "d", "/", "c", "/", "e">>}
Lookups == {[about |-> "lists", flag |-> fl, names |-> ns, quote |-> q, text |-> Joined(ns, q) \o b, file |-> f, var |-> v] :
              fl \in 1..2, ns \in {ns \in BoundedSeq(Names, 2) : ns # <<>>}, q \in {"none", "\"", "'"},
              b \in Blanks, f \in Files, v \in {<<"/", "v">>, <<"v">>}}

MCInputs == Selections \cup Computed \cup Datasets \cup Dases \cup Metadata
            \cup {[about |-> "output", file |-> f] : f \in Output!OutputFiles} \cup {l \in Lookups : l.flag = 1 => l.quote = "none"}

------------------------------------------------------------------------------
(***************************************************************************)
(* Properties.                                                             *)
(***************************************************************************)

\* How a variable is read, and the digits after those that are the time.
Compute(c, dap4, sel) ==
    CASE c.source.kind = "level 3" -> obtain_aqu_obpg_l3_ll(c.source.product, c.source.lat, c.source.attributes, sel)
      [] c.source.kind = "gpm"     -> obtain_gpm_l3_ll(c.source.new, c.source.name, c.source.lat, c.source.groups, c.source.visited, sel)
      [] c.source.kind = "geo"     -> read_data_NOT_from_mem_cache_geo(c.source.grid, c.source.lat, sel)
      [] c.source.kind = "tes"     -> TesLevels(c.source.attribute, c.n, sel)
      [] c.source.kind = "special" -> SpecialValues(c.source.name, c.n, sel)
      [] c.source.kind = "digits"  -> SpecialDigits(c.source.otype, c.source.dtype, c.source.values, 1, 2, sel)
      [] c.source.kind = "index"   -> FillIndex(c.source.dtype, dap4, sel)

Monotone(s) == (\A i \in 2..Len(s) : s[i - 1] < s[i]) \/ (\A i \in 2..Len(s) : s[i - 1] > s[i])

\* The cells of a grid from one end to the other have their middles as far from
\* either end.
Middles(value, from, to) == value[1] - 2 * from = 2 * to - value[Len(value)]

\* What the values of a whole variable are to be, told from what describes them.
Meant(c, value) ==
    CASE c.source.kind = "level 3" ->
           LET names == IF c.source.lat THEN LatitudeNames(c.source.product) ELSE LongitudeNames(c.source.product) IN
           value[IF c.source.lat THEN Len(value) ELSE 1] = c.source.attributes[names[1]].values[1]
      [] c.source.kind = "gpm" ->
           LET res == IF c.source.name \in {"ltL", "lnL"} THEN 4 ELSE 2 IN
           Middles(value, IF c.source.lat THEN -6 ELSE -8, IF c.source.lat THEN c.n * res - 6 ELSE c.n * res - 8)
      [] c.source.kind = "geo" ->
           c.source.grid.pixelreg = "CENTER" =>
             IF c.source.lat THEN Middles(value, c.source.grid.upper, c.source.grid.lower)
             ELSE Middles(value, c.source.grid.left, c.source.grid.right)
      [] c.source.kind = "tes"    -> Tail(value) = [i \in 1..(c.n - 1) |-> 10 * c.source.attribute[i]]
      [] c.source.kind = "digits" ->
           value = [i \in 1..c.n |-> c.source.values[i]
                                      - 100 * SpecialDigits(c.source.otype, c.source.dtype, c.source.values, 3, 3, c.all).value[i]]
      [] c.source.kind = "index"  -> c.n <= 128 => value = All(c.n)
      [] OTHER                    -> TRUE

\* A coordinate variable that is computed has distinct values in one direction,
\* the middles of the cells from one end of the grid to the other or what its
\* attribute says, those of the coarse grid for a dimension of the coarse one
\* whichever grid the file describes first; a part of it has the values that the
\* whole has at the places selected, and what a request for a part puts into the
\* memory cache is the whole, unless the file counts more than the dimension (the reads of HDF5GMCFMissLLArray, HDFEOS5CFMissLLArray,
\* HDF5GMCFSpecialCVArray, HDFEOS5CFSpecialCVArray, HDF5GMSPCFArray, HDF5GMCFFillIndexArray).
ComputedValues ==
    About("computed") =>
      \A dap4 \in BOOLEAN :
        \E c \in {[n |-> input.n, source |-> input.source, all |-> <<[start |-> 0, stride |-> 1, stop |-> input.n - 1]>>]} :
        \E whole \in {Compute(c, dap4, c.all)}, part \in {Compute(c, dap4, input.sel)} :
          (whole.status = "ok" /\ whole.value # <<>>) =>
            /\ part.status = "ok"
            /\ part.value = LET places == Selected(<<input.n>>, input.sel) IN
                            [i \in DOMAIN places |-> whole.value[places[i] + 1]]
            /\ Len(whole.value) = input.n
            /\ whole.cache = part.cache
            /\ whole.cache \in {<<>>, whole.value} \/ Len(whole.cache) > input.n
            /\ (input.source.kind = "index" /\ input.n > 128) \/ Monotone(whole.value)
            /\ Len(whole.cache) > input.n \/ Meant(c, whole.value)

\* A dataset that the default option reads gives the values its request selects in
\* the array and in the arrays that are fields, at any depth and in their order, in
\* DAP2 and DAP4 and with both libraries, unless it is of a kind that is named (HDF5Array::read,
\* do_h5_array_type_read, do_structure_read).
ObjectSelection ==
    About("object") =>
      \A dap4, newlib \in BOOLEAN :
        \E read \in {Read(input, dap4, newlib)} :
          IF Unsupported(input, dap4, newlib) THEN read.status # "ok" ELSE read = Got(Wanted(input))

\* A file has the same variables in its DDS and its DMR but for 64-bit ones, with the
\* same dimensions and types up to signed bytes; the 64-bit ones that go to a DMR
\* when the DDS is made are those of the DMR made straight from the file; DAS and
\* DMR name the same grid mappings and unlimited dimensions.  A DMR is refused when
\* the DDS is, and otherwise only for the cases named (gen_gmh5_cfdds,
\* gen_eos5_cfdds, gen_gmh5_cfdas, gen_eos5_cfdas, gen_gmh5_cfdmr, gen_eos5_cfdmr).
ResponsesAgree ==
    About("output") =>
      \E dds \in {Output!gen_cfdds(input.file, TRUE, TRUE)}, dmr \in {Output!gen_cfdmr(input.file)} :
        \A check \in BOOLEAN :
          \E das \in {Output!gen_cfdas(input.file, check, TRUE)} : Output!Agree(input.file, dds, das, dmr)

\* A variable on a projected grid names a grid mapping that is a variable of the DDS
\* described in the DAS, and a described variable of the DMR, unless the grid is
\* sinusoidal and not the first projected one (add_cf_grid_mapinfo_var,
\* add_cf_grid_cv_attrs, gen_gm_oneproj_var).
GridMappingsResolve ==
    (About("output") /\ Output!SharedProjectionMade(input.file)) =>
      \E dds \in {Output!gen_cfdds(input.file, TRUE, TRUE)}, dmr \in {Output!gen_cfdmr(input.file)},
         das \in {Output!gen_cfdas(input.file, FALSE, TRUE)} :
        /\ (dds.ok /\ das.ok) => Output!Resolve(das.tables, dds.vars)
        /\ dmr.ok => Output!Resolve(dmr.vars, dmr.vars)

\* A numeric fill value of a DAS has the type of its variable and, for 8 and 16 bits
\* and with the check switched on, is a value of it; the tables of a DAS are of what
\* the DDS has, but for those named; the coordinates of a 64-bit variable are the
\* flattened names that its paths lead to (gen_dap_oneobj_das, is_fvalue_valid,
\* handle_coor_attr_for_int64_var, cha_co).
AttributesFit ==
    About("output") =>
      \A check, conventions \in BOOLEAN :
        \E dds \in {Output!gen_cfdds(input.file, TRUE, TRUE)}, das \in {Output!gen_cfdas(input.file, check, conventions)} :
          /\ (dds.ok /\ das.ok) => Output!TablesFit(input.file, dds, das.tables)
          /\ das.ok => \A v \in ToSet(input.file.vars \o input.file.cvars \o input.file.spvars) :
                         Output!FillsFit(v, das.tables, check)
          /\ dds.ok => Output!CoordinatesFit(input.file, dds.root)

\* Reading a cache file gives the DAS that was written to it, and reading ends
\* where the file does; a cache file cut off anywhere is never read as a DAS, since
\* the reader gets to its end without the last flag (write_das_to_file,
\* get_attr_info_from_dc).
DasSurvives ==
    About("das") =>
      \E stream \in {write_das_to_file(input.das)} :
        /\ ReadDas(stream) = [ok |-> TRUE, at |-> Len(stream) + 1, table |-> input.das]
        /\ \A n \in 0..(Len(stream) - 1) : ~ReadDas(SubSeq(stream, 1, n)).ok

=============================================================================
