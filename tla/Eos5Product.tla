----------------------------- MODULE Eos5Product -----------------------------
(***************************************************************************)
(* The answers for one HDF-EOS5 file under the CF option (map_eos5_cfdds,  *)
(* map_eos5_cfdas and map_eos5_cfdmr).  Each request parses the            *)
(* StructMetadata, makes an EOS5File of its own and runs it through the    *)
(* stages of its mapping function; the DDS, the DAS and the DMR of one     *)
(* file have to fit together although no stage sees what another request   *)
(* has done.                                                               *)
(*                                                                         *)
(* The parser is left out: the metadata of a file is what it yields.  Of   *)
(* the attributes only coordinates is kept.  Also left out are groups, the *)
(* grid mapping variables and the special handling of TES.                 *)
(*                                                                         *)
(* A definition called Mutant<D> is D with a plausible bug; no other       *)
(* definition uses it.                                                     *)
(***************************************************************************)
EXTENDS Eos5CVs

CONSTANTS
    Files,              \* the files: [metadata, vars, udim, aura]
    DmrLongInt,         \* H5.EnableDMR64bitInt: 64-bit integers in DAP2 responses too
    CheckNameClashing   \* H5.EnableCheckNameClashing

VARIABLES
    file,       \* the file
    view,       \* the request being answered: DDS, DAS, DMR
    todo,       \* its stages still to run
    metadata,   \* what the parser has made of the StructMetadata
    f,          \* the EOS5File
    answers     \* what has been answered to each request

all == <<file, view, todo, metadata, f, answers>>

Views == {"DDS", "DAS", "DMR"}
None == <<>>
Failed == <<"failed">>

------------------------------------------------------------------------------
(***************************************************************************)
(* The stages of the three mapping functions.  The DAS does not touch the  *)
(* dimensions once names are flat; the DMR replaces duplicate coordinate   *)
(* variables before it makes the attributes.                               *)
(***************************************************************************)

If(condition, stage) == IF condition THEN <<stage>> ELSE <<>>

Common == <<"Adjust_EOS5Dim_Info", "Add_EOS5File_Info", "Add_Dim_Name", "Adjust_Var_NewName_After_Parsing",
            "Handle_CVar", "Adjust_Var_Dim_NewName_Before_Flattening", "Handle_Unsupported_Dtype",
            "Flatten_Obj_Name">> \o If(CheckNameClashing, "Handle_Obj_NameClashing") \o <<"Set_COARDS_Status">>

map_eos5_cfdds == Common \o <<"Adjust_Dim_Name">> \o If(CheckNameClashing, "Handle_DimNameClashing")
                         \o <<"Handle_SpVar", "gen">>
map_eos5_cfdas == Common \o <<"Handle_Coor_Attr", "gen">>
map_eos5_cfdmr == Common \o <<"Adjust_Dim_Name">> \o If(CheckNameClashing, "Handle_DimNameClashing")
                         \o <<"Handle_SpVar", "Handle_Coor_Attr", "gen">>

Stages(v) == CASE v = "DDS" -> map_eos5_cfdds [] v = "DAS" -> map_eos5_cfdas [] v = "DMR" -> map_eos5_cfdmr

At(stage) == todo # <<>> /\ Head(todo) = stage

Supported(type) == type = "num" \/ (type = "int64" /\ (view = "DMR" \/ DmrLongInt))

\* On to the next stage, or out of the mapping function with an error.
GoOn(g) ==
    /\ f' = g
    /\ IF g.failed THEN todo' = <<>> /\ answers' = [answers EXCEPT ![view] = Failed]
                   ELSE todo' = Tail(todo) /\ UNCHANGED answers
    /\ UNCHANGED <<file, view, metadata>>

NoFile == [objects |-> <<>>, vars |-> <<>>, cvars |-> <<>>, multi |-> FALSE, orig_num_grids |-> 0,
           aura |-> "none", iscoard |-> FALSE, dups |-> {}, failed |-> FALSE]

Init ==
    /\ file \in Files
    /\ view = "DDS" /\ todo = <<>> /\ metadata = <<>> /\ f = NoFile
    /\ answers = [v \in Views |-> None]

\* A variable of the file: no names for its dimensions, and its path for its name.
Retrieved(v) ==
    [path |-> v.path, type |-> v.type, newname |-> v.path, coordinates |-> <<>>,
     role |-> "var", cfdimname |-> <<>>, ll2d |-> FALSE,
     dims |-> [i \in DOMAIN v.dims |-> [size |-> v.dims[i], name |-> <<>>, newname |-> <<>>]]]

\* The grids do not all share one layout: a dimension of one name has two sizes
\* in the metadata as it is parsed, or the projection or the corners differ.
check_grids_multi_latlon_coord_vars(grids) ==
    \/ \E g, h \in Range(grids) : \E d \in Range(g.dims), e \in Range(h.dims) : d.name = e.name /\ d.size # e.size
    \/ \E g, h \in Range(grids) : g.proj # h.proj \/ g.corners # h.corners

\* Grids, swaths and zonal averages are checked and read anew for each request.
Retrieve_H5_Info(v) ==
    LET grids == SelectSeq(file.metadata, LAMBDA h : h.type = "GRIDS") IN
    /\ todo = <<>> /\ answers[v] = None
    /\ view' = v
    /\ metadata' = file.metadata
    /\ f' = [NoFile EXCEPT !.vars = [i \in DOMAIN file.vars |-> Retrieved(file.vars[i])],
                           !.multi = Len(grids) > 1 /\ check_grids_multi_latlon_coord_vars(grids),
                           !.orig_num_grids = Len(grids)]
    /\ IF \E h \in Range(grids) : h.proj = "missing"
       THEN todo' = <<>> /\ answers' = [answers EXCEPT ![v] = Failed]
       ELSE todo' = Stages(v) /\ UNCHANGED answers
    /\ UNCHANGED file

------------------------------------------------------------------------------
(***************************************************************************)
(* Dimensions and coordinate variables.                                    *)
(***************************************************************************)

Adjust_EOS5Dim_Info_of_all ==
    /\ At("Adjust_EOS5Dim_Info")
    /\ \E adjusted \in {[k \in DOMAIN metadata |-> Adjust_EOS5Dim_Info(metadata[k], f.vars, file.udim)]} :
         /\ metadata' = adjusted
         /\ f' = [f EXCEPT !.dups = UNION {Range(h.dups) : h \in Range(adjusted)},
                           !.failed = \E h \in Range(adjusted) : h.failed]
         /\ IF f'.failed THEN todo' = <<>> /\ answers' = [answers EXCEPT ![view] = Failed]
                         ELSE todo' = Tail(todo) /\ UNCHANGED answers
         /\ UNCHANGED <<file, view>>

AnyFailed(g) == [g EXCEPT !.failed = @ \/ \E o \in Range(g.objects) : o.failed]

Add_EOS5File_Info_of_all ==
    /\ At("Add_EOS5File_Info")
    /\ GoOn(AnyFailed([f EXCEPT !.objects = [k \in DOMAIN metadata |-> Add_EOS5File_Info(metadata[k])]]))

Add_Dim_Name_of_all ==
    /\ At("Add_Dim_Name")
    /\ \E named \in {Add_Dim_Name(metadata, f.objects, f.vars)} :
         GoOn(AnyFailed([f EXCEPT !.objects = named.objects, !.vars = named.vars]))

\* What kind of product of Aura it is is known from here on.
Adjust_Var_NewName_After_Parsing ==
    /\ At("Adjust_Var_NewName_After_Parsing")
    /\ GoOn([f EXCEPT !.aura = file.aura,
                      !.vars = [i \in DOMAIN @ |-> [@[i] EXCEPT !.newname = Obtain_Var_NewName(f.vars[i])]]])

Handle_CVar_of_all ==
    /\ At("Handle_CVar")
    /\ \E handled \in {Handle_CVar(f)} : GoOn(handled)

------------------------------------------------------------------------------
(***************************************************************************)
(* Names.                                                                  *)
(***************************************************************************)

Count(type) == Len(OfType(f, type))
Mixed == Cardinality({o.type : o \in Range(f.objects)}) > 1

\* Without the type, if the file has objects of one type only; without the
\* object too, if it has only one.
NewNameOf(v, type) ==
    LET alone == Count(type) = 1 \/ (type = "GRIDS" /\ Count(type) = 0 /\ ~Mixed /\ f.orig_num_grids = 1) IN
    CASE ~Mixed /\ alone -> <<NameOf(v.path)>>
      [] ~Mixed /\ ~alone -> SubSeq(v.newname, 3, Len(v.newname))
      [] Mixed /\ alone -> << <<>>, <<type>>, NameOf(v.path) >>
      [] OTHER -> v.newname

\* A dimension whose name has nothing after the type is an error.
Cuts(v) == Get_Var_EOS5_Type(v) # "OTHERVARS" /\ ~Mixed /\ Count(Get_Var_EOS5_Type(v)) > 1

Adjust_Per_Var_Dim_NewName_Before_Flattening(v) ==
    LET cut(d) == [d EXCEPT !.newname = SubSeq(@, 3, Len(@))]
        named == [v EXCEPT !.newname = NewNameOf(v, Get_Var_EOS5_Type(v))]
    IN CASE Get_Var_EOS5_Type(v) = "OTHERVARS" -> v
         [] Cuts(v) -> [named EXCEPT !.dims = [i \in DOMAIN @ |-> cut(@[i])]]
         [] OTHER -> named

\* The shared latitude and longitude of all grids have their bare names, and
\* their first dimensions too; so has every dimension a variable shares with
\* them.
Adjust_SharedLatLon_Grid_Var_Dim_Name(g) ==
    LET is(c, names) == NameOf(c.path) \in names
        lats == SelectSeq(g.cvars, LAMBDA c : is(c, {<<"lat">>, Latitude}))
        lons == SelectSeq(g.cvars, LAMBDA c : is(c, {<<"lon">>, Longitude}))
        bare(c) == [c EXCEPT !.newname = <<NameOf(c.path)>>, !.dims[1].newname = <<Last(@)>>]
        newname(cvs) == IF cvs = <<>> THEN <<>> ELSE Last(cvs).cfdimname :> <<Last(Last(cvs).dims[1].newname)>>
    IN [g EXCEPT
          !.cvars = [i \in DOMAIN @ |-> IF is(@[i], {<<"lat">>, Latitude, <<"lon">>, Longitude}) THEN bare(@[i]) ELSE @[i]],
          !.vars = [i \in DOMAIN @ |-> WithDims(@[i], newname(lats) @@ newname(lons))]]

Adjust_Var_Dim_NewName_Before_Flattening ==
    LET shared == Count("GRIDS") > 1 /\ Count("SWATHS") = 0 /\ Count("ZAS") = 0 /\ ~f.multi
        short(v) == Cuts(v) /\ \E d \in Range(v.dims) : Len(d.newname) <= 2
        failed == \E v \in Range(f.vars) \cup Range(f.cvars) : short(v)
        per(vs) == [i \in DOMAIN vs |-> Adjust_Per_Var_Dim_NewName_Before_Flattening(vs[i])] IN
    /\ At("Adjust_Var_Dim_NewName_Before_Flattening")
    /\ \E g \in {IF failed THEN [f EXCEPT !.failed = TRUE]
                           ELSE [f EXCEPT !.vars = per(@), !.cvars = per(@)]} :
         GoOn(IF shared /\ ~failed THEN Adjust_SharedLatLon_Grid_Var_Dim_Name(g) ELSE g)

\* Variables of a type that has no DAP counterpart leave both lists.
Handle_Unsupported_Dtype ==
    /\ At("Handle_Unsupported_Dtype")
    /\ GoOn([f EXCEPT !.vars = SelectSeq(@, LAMBDA v : Supported(v.type)),
                      !.cvars = SelectSeq(@, LAMBDA v : Supported(v.type))])

Flatten_Obj_Name ==
    /\ At("Flatten_Obj_Name")
    /\ GoOn([f EXCEPT !.vars = [i \in DOMAIN @ |-> Flat(@[i])], !.cvars = [i \in DOMAIN @ |-> Flat(@[i])]])

MutantObjNames ==
    /\ At("Handle_Obj_NameClashing")
    /\ GoOn([f EXCEPT !.cvars = Renamed(@, Handle_General_NameClashing({}, NewNames(@)).names),
                      !.vars = Renamed(@, Handle_General_NameClashing({}, NewNames(@)).names)])

\* Coordinate variables keep their names against variables.
Handle_Obj_NameClashing ==
    /\ At("Handle_Obj_NameClashing")
    /\ \E cvs \in {Handle_General_NameClashing({}, NewNames(f.cvars))} :
         GoOn([f EXCEPT !.cvars = Renamed(@, cvs.names),
                        !.vars = Renamed(@, Handle_General_NameClashing(cvs.taken, NewNames(@)).names)])

\* COARDS: every swath has 1-D fields for latitude and longitude, and every
\* grid up to the first that does not, which then needs computed 1-D ones.
Set_COARDS_Status ==
    LET grids == Grids(f)
        without == {k \in DOMAIN grids : grids[k].latlon # "1d"}
        first == grids[Min(without)] IN
    /\ At("Set_COARDS_Status")
    /\ GoOn([f EXCEPT !.iscoard = /\ without # {} => first.latlon = "no" /\ first.proj = "GEO"
                                  /\ \A o \in Range(OfType(f, "SWATHS")) : o.latlon = "1d"])

\* COARDS: a dimension gets the name of its coordinate variable.
Adjust_Dim_Name ==
    /\ At("Adjust_Dim_Name")
    /\ GoOn(CASE ~f.iscoard -> f
              [] f.iscoard /\ (\E c \in Range(f.cvars) : Len(c.dims) # 1) -> [f EXCEPT !.failed = TRUE]
              [] OTHER -> [f EXCEPT !.vars = [i \in DOMAIN @ |-> WithDims(@[i], CVNames(f.cvars))],
                                    !.cvars = [i \in DOMAIN @ |-> NamedByItself(@[i])]])

MutantDimClash == At("Handle_DimNameClashing") /\ GoOn(f)

\* Dimensions of different names get different newnames.
Handle_DimNameClashing ==
    /\ At("Handle_DimNameClashing")
    /\ \E dims \in {FirstDims(f.cvars, f.vars)} :
       \E newname \in {NamesOf(dims, Handle_General_NameClashing({}, NewNames(dims)).names)} :
         GoOn([f EXCEPT !.vars = [i \in DOMAIN @ |-> WithDims(@[i], newname)],
                        !.cvars = [i \in DOMAIN @ |-> WithDims(@[i], newname)]])

------------------------------------------------------------------------------
(***************************************************************************)
(* Duplicates and attributes.                                              *)
(***************************************************************************)

\* A coordinate variable made for a duplicate of a dimension becomes that of
\* the dimension itself, under its own name.
Handle_SpVar ==
    LET sources(c) == {i \in DOMAIN f.cvars : f.cvars[i].role = "exist" /\ <<f.cvars[i].cfdimname, c.cfdimname>> \in f.dups}
        replaced(c, src) == [src EXCEPT !.newname = c.newname, !.dims[1].newname = c.newname, !.ll2d = c.ll2d] IN
    /\ At("Handle_SpVar")
    /\ GoOn([f EXCEPT !.cvars =
         [i \in DOMAIN @ |-> IF @[i].role = "miss" /\ sources(@[i]) # {}
                             THEN replaced(@[i], f.cvars[Min(sources(@[i]))]) ELSE @[i]]])

MutantCoordinates(v) ==
    FlattenSeq([i \in DOMAIN v.dims |->
      LET cvs == SelectSeq(f.cvars, LAMBDA c : c.cfdimname = v.dims[i].name)
      IN [j \in DOMAIN cvs |-> get_CF_string(SubSeq(cvs[j].path, 3, Len(cvs[j].path)))]])

\* The coordinate variables of the dimensions of the variable.
CoordinatesOf(v) ==
    FlattenSeq([i \in DOMAIN v.dims |->
      LET cvs == SelectSeq(f.cvars, LAMBDA c : c.cfdimname = v.dims[i].name)
      IN [j \in DOMAIN cvs |-> cvs[j].newname]])

\* Not for COARDS; nor for a variable that uses the dimensions of the first 2-D
\* latitude or longitude once or more than twice.
Handle_Coor_Attr ==
    LET two == SelectSeq(f.cvars, LAMBDA c : c.ll2d)
        uses(v) == Cardinality({<<i, j>> \in (DOMAIN v.dims) \X (1..2) : v.dims[i].name = two[1].dims[j].name})
        made(v) == IF two # <<>> /\ uses(v) \notin {0, 2} THEN v
                   ELSE [v EXCEPT !.coordinates = CoordinatesOf(v)] IN
    /\ At("Handle_Coor_Attr")
    /\ GoOn(IF f.iscoard THEN f ELSE [f EXCEPT !.vars = [i \in DOMAIN @ |-> made(@[i])]])

\* Variables, then coordinate variables.
gen_eos5_cf ==
    /\ At("gen")
    /\ todo' = <<>>
    /\ answers' = [answers EXCEPT ![view] = <<"given", [vars |-> f.vars, cvars |-> f.cvars, coards |-> f.iscoard]>>]
    /\ UNCHANGED <<file, view, metadata, f>>

Next ==
    \/ \E v \in Views : Retrieve_H5_Info(v)
    \/ Adjust_EOS5Dim_Info_of_all \/ Add_EOS5File_Info_of_all \/ Add_Dim_Name_of_all
    \/ Adjust_Var_NewName_After_Parsing \/ Handle_CVar_of_all \/ Adjust_Var_Dim_NewName_Before_Flattening
    \/ Handle_Unsupported_Dtype \/ Flatten_Obj_Name \/ Handle_Obj_NameClashing \/ Set_COARDS_Status
    \/ Adjust_Dim_Name \/ Handle_DimNameClashing \/ Handle_SpVar \/ Handle_Coor_Attr \/ gen_eos5_cf

Spec == Init /\ [][Next]_all

------------------------------------------------------------------------------
(***************************************************************************)
(* Properties.                                                             *)
(***************************************************************************)

Given(v) == answers[v] # None /\ answers[v] # Failed
Variables(v) == answers[v][2].vars \o answers[v][2].cvars
\* The dimensions with a name; those outside of the objects have none.
Dims(vs) == {d \in UNION {Range(a.dims) : a \in Range(vs)} : d.name # <<>>}

\* No two variables of a DDS, a DAS or a DMR have the same name, and the three
\* answers give a variable the same name (Handle_Obj_NameClashing, run on three
\* different objects).
UniqueNames ==
    \A v, w \in Views : Given(v) /\ Given(w) =>
      /\ IsInjective(NewNames(Variables(v)))
      /\ \A a \in Range(answers[v][2].vars), b \in Range(answers[w][2].vars) :
           a.path = b.path => a.newname = b.newname

\* In a DDS and a DMR a dimension of the file has one name in all variables and
\* no other dimension has it, and all dimensions of one name have one size,
\* those of coordinate variables of duplicates too.
DimensionsAgree ==
    \A v \in {"DDS", "DMR"} : Given(v) =>
      /\ \A d, e \in Dims(answers[v][2].vars) : d.name = e.name <=> d.newname = e.newname
      /\ \A d, e \in Dims(Variables(v)) : d.newname = e.newname => d.size = e.size

\* The attribute coordinates of a DAS or a DMR names variables of this answer,
\* and of the DDS if there is one, that are coordinates of a dimension of the
\* variable.
CoordinatesFound ==
    \A v \in {"DAS", "DMR"} : Given(v) =>
      \A a \in Range(answers[v][2].vars) : \A n \in Range(a.coordinates) :
        \A w \in {u \in {v, "DDS"} : Given(u)} :
          \E c \in Range(answers[w][2].cvars) :
            c.newname = n /\ \E d \in Range(a.dims) : d.name \in {c.cfdimname, c.dims[1].name}

=============================================================================
