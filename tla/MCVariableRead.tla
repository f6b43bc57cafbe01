--------------------------- MODULE MCVariableRead ---------------------------
(***************************************************************************)
(* Instances of VariableRead for TLC: the variables of each run.           *)
(***************************************************************************)
EXTENDS VariableRead

\* A variable of two elements in file f that no configuration singles out.
Plain(f, name, data, class, type) ==
    [file |-> <<"/", f>>, name |-> name, data |-> data, elems |-> 2,
     class |-> class, type |-> type, dir |-> <<>>,
     excluded |-> FALSE, listed |-> FALSE, hard |-> TRUE]

\* Variables that compress too well for the disk cache: latitudes of two files
\* under a common directory, two listed variables with one name there, a listed
\* latitude with data of its own, a coordinate variable.
MemoryVars ==
    LET Soft(v) == [v EXCEPT !.hard = FALSE]
        Common(v) == [Soft(v) EXCEPT !.dir = <<"c">>]
        ListedThere(v) == [Common(v) EXCEPT !.listed = TRUE] IN
    {Common(Plain("f", <<"/", "x">>, "grid", "latlon", "float")),
     Common(Plain("g", <<"/", "x">>, "grid", "geo", "float")),
     ListedThere(Plain("f", <<"/", "t">>, "T", "data", "int")),
     ListedThere(Plain("g", <<"/", "t">>, "U", "data", "int")),
     ListedThere(Plain("h", <<"/", "x">>, "own", "latlon", "float")),
     Soft(Plain("f", <<"/", "z">>, "Z", "cv", "int"))}

\* Variables for the disk cache: signed bytes, two files with one name in them,
\* the latitude and longitude of a projected grid in a non-cache directory.
DiskVars ==
    {Plain("f", <<"/", "b">>, "B", "data", "char"),
     Plain("f", <<"/", "v">>, "V", "data", "int"),
     Plain("g", <<"/", "v">>, "W", "data", "int64")} \cup
    {[Plain("n", <<"/", n>>, "sin", "projected", "float") EXCEPT !.excluded = TRUE] :
       n \in {"x", "y"}}

AllVars == MemoryVars \cup DiskVars
=============================================================================
