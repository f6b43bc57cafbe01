------------------------------- MODULE CFNames -------------------------------
(***************************************************************************)
(* Names of the objects of a file under the CF option: how a path becomes  *)
(* a DAP name (get_CF_string), how equal names are told apart              *)
(* (gen_unique_name, Handle_General_NameClashing) and how dimensions       *)
(* without a name get one (Add_One_FakeDim_Name,                           *)
(* Adjust_Duplicate_FakeDim_Name).                                         *)
(*                                                                         *)
(* A name is a sequence of words; which character joins two words is left  *)
(* out.  A path is a sequence of names, one for each component, and starts *)
(* with the empty name of the root group: /g1/x is << <<>>, <<"g1">>,      *)
(* <<"x">> >> and /g1_x is << <<>>, <<"g1", "x">> >>, which get the same   *)
(* DAP name.                                                               *)
(*                                                                         *)
(* A definition called Mutant<D> is D with a plausible bug; no other       *)
(* definition uses it.                                                     *)
(***************************************************************************)
EXTENDS Integers, SequencesExt, Subsequences, TLC

Root == << <<>> >>

Paths == Seq(Seq(STRING)) \ {<<>>}

\* The last component of a path, and the path of the group it is in.
NameOf(path) == Last(path)
GroupOf(path) == Front(path)

\* group is a group on the path of other, or the same.
Encloses(group, other) == IsPrefix(group, other)

\* The DAP name of a path: slashes and other characters become underscores.
get_CF_string(path) == FlattenSeq(path)

------------------------------------------------------------------------------
(***************************************************************************)
(* Unique names.                                                           *)
(***************************************************************************)

\* The first of name_1, name_2, ... that is not taken.
gen_unique_name(name, taken) ==
    LET free == {i \in 1..(Cardinality(taken) + 1) : name \o <<ToString(i)>> \notin taken}
    IN name \o <<ToString(Min(free))>>

MutantClashing(taken, names) ==
    LET clashes == {i \in DOMAIN names : names[i] \in taken}
        renamed[i \in 0..Len(names)] ==
          IF i = 0 THEN [taken |-> taken \cup Range(names), names |-> names]
          ELSE IF i \notin clashes THEN renamed[i - 1]
          ELSE LET new == gen_unique_name(names[i], renamed[i - 1].taken) IN
               [taken |-> renamed[i - 1].taken \cup {new},
                names |-> [renamed[i - 1].names EXCEPT ![i] = new]]
    IN renamed[Len(names)]

\* All names are entered; then those that were already there, or came earlier
\* in the list, are replaced one by one.
Handle_General_NameClashing(taken, names) ==
    LET clashes == {i \in DOMAIN names :
                      names[i] \in taken \/ \E j \in 1..(i - 1) : names[j] = names[i]}
        renamed[i \in 0..Len(names)] ==
          IF i = 0 THEN [taken |-> taken \cup Range(names), names |-> names]
          ELSE IF i \notin clashes THEN renamed[i - 1]
          ELSE LET new == gen_unique_name(names[i], renamed[i - 1].taken) IN
               [taken |-> renamed[i - 1].taken \cup {new},
                names |-> [renamed[i - 1].names EXCEPT ![i] = new]]
    IN renamed[Len(names)]

------------------------------------------------------------------------------
(***************************************************************************)
(* Dimension names.  The bookkeeping of a File is a record: dimnamelist,   *)
(* size and unlimited (dimname_to_dimsize, dimname_to_unlimited), fake     *)
(* (dimsize_to_fakedimname), index (addeddimindex), and whether one of the *)
(* functions has thrown.                                                   *)
(***************************************************************************)

NoNames == [dimnamelist |-> {}, size |-> <<>>, unlimited |-> <<>>, fake |-> <<>>,
            index |-> 0, failed |-> FALSE]

FakeDim(n) == << <<"FakeDim", ToString(n)>> >>

IsFakeDim(name) == name # <<>> /\ name[1] = "FakeDim"

\* A new name is entered with the size of the dimension that brought it.
Enter(book, name, dim) ==
    IF name \in book.dimnamelist THEN book
    ELSE [book EXCEPT !.dimnamelist = @ \cup {name},
                      !.size = (name :> dim.size) @@ @,
                      !.unlimited = (name :> dim.unlimited) @@ @]

\* Dimensions of one size share a name.  A clash of a new name always throws:
\* gen_unique_name has entered the name that is entered again.
Add_One_FakeDim_Name(book, dim) ==
    LET added == FakeDim(book.index) IN
    CASE dim.size \in DOMAIN book.fake -> [book |-> book, name |-> book.fake[dim.size]]
      [] dim.size \notin DOMAIN book.fake /\ added \in book.dimnamelist ->
           [book |-> [book EXCEPT !.failed = TRUE], name |-> added]
      [] OTHER ->
           [book |-> [Enter(book, added, dim) EXCEPT !.fake = (dim.size :> added) @@ @,
                                                     !.index = @ + 1],
            name |-> added]

\* The second dimension of one size of a variable gets a name of its own.
Adjust_Duplicate_FakeDim_Name(book, dim) ==
    LET added == FakeDim(book.index + 1) IN
    IF added \in book.dimnamelist
    THEN [book |-> [book EXCEPT !.failed = TRUE], name |-> added]
    ELSE [book |-> [Enter(book, added, dim) EXCEPT !.index = @ + 2], name |-> added]

MutantFakeDims(book, dims) ==
    LET named[i \in 0..Len(dims)] ==
          IF i = 0 THEN [book |-> book, dims |-> dims]
          ELSE LET given == Add_One_FakeDim_Name(named[i - 1].book, dims[i]) IN
               [book |-> given.book,
                dims |-> [named[i - 1].dims EXCEPT ![i].name = given.name, ![i].newname = given.name]]
    IN named[Len(dims)]

\* The dimensions of one variable: by size, and by number when a size repeats.
Add_FakeDim_Names(book, dims) ==
    LET named[i \in 0..Len(dims)] ==
          IF i = 0 THEN [book |-> book, dims |-> dims]
          ELSE LET first == Add_One_FakeDim_Name(named[i - 1].book, dims[i])
                   again == \E j \in 1..(i - 1) : dims[j].size = dims[i].size
                   given == IF again THEN Adjust_Duplicate_FakeDim_Name(first.book, dims[i])
                                     ELSE first
               IN [book |-> given.book,
                   dims |-> [named[i - 1].dims EXCEPT ![i].name = given.name,
                                                      ![i].newname = given.name]]
    IN named[Len(dims)]

------------------------------------------------------------------------------
(***************************************************************************)
(* Variables: records with newname and dims, a sequence of records with    *)
(* name and newname.                                                       *)
(***************************************************************************)

\* DAP names for a variable and its dimensions.
Flat(v) == [v EXCEPT !.newname = get_CF_string(@),
                     !.dims = [i \in DOMAIN @ |-> [@[i] EXCEPT !.newname = get_CF_string(@)]]]

NewNames(vs) == [i \in DOMAIN vs |-> vs[i].newname]
Renamed(vs, names) == [i \in DOMAIN vs |-> [vs[i] EXCEPT !.newname = names[i]]]

\* The variable with newnames for its dimensions by their names.
WithDims(v, newname) ==
    LET named(d) == IF d.name \in DOMAIN newname THEN [d EXCEPT !.newname = newname[d.name]] ELSE d
    IN [v EXCEPT !.dims = [i \in DOMAIN @ |-> named(@[i])]]

\* The names of coordinate variables that differ from those of their
\* dimensions, by dimension; the last one counts.
CVNames(cvars) ==
    FoldLeft(LAMBDA f, c : IF c.newname = c.dims[1].newname THEN f ELSE (c.dims[1].name :> c.newname) @@ f,
             <<>>, cvars)

NamedByItself(c) == [c EXCEPT !.dims[1].newname = c.newname]

\* The first dimension of each name, of coordinate variables before variables.
FirstDims(cvars, vars) ==
    LET dims == FlattenSeq([i \in 1..(Len(cvars) + Len(vars)) |->
                              IF i <= Len(cvars) THEN cvars[i].dims ELSE vars[i - Len(cvars)].dims])
        firsts == {i \in DOMAIN dims : \A j \in 1..(i - 1) : dims[j].name # dims[i].name}
    IN ElementsAt(dims, firsts)

NamesOf(dims, newnames) ==
    [n \in {d.name : d \in Range(dims)} |-> newnames[CHOOSE i \in DOMAIN dims : dims[i].name = n]]

=============================================================================
