------------------------------ MODULE ObjectRead ------------------------------
(***************************************************************************)
(* How the default option reads a dataset (HDF5Array.cc, HDF5Structure.cc, *)
(* h5common.cc): the selected elements of an array come into a buffer with *)
(* one H5Dread, and the fields of a compound type are taken from the       *)
(* buffer by their offsets; an array that is a field has a selection of    *)
(* its own, which no library applies.                                      *)
(*                                                                         *)
(* A type is a record with its class and size: a number with its DAP type  *)
(* of DAP4; a string, of variable length or not; a compound type with      *)
(* members, each an offset and a type; an array with dims, base and the    *)
(* selection sel of the request (see Hyperslab); a reference with what its *)
(* elements refer to; or another.  What a read yields is a status and the  *)
(* places in the file of all values of the variable, in its order.  The    *)
(* status is "thrown" for an exception and "undefined" where the code      *)
(* leaves C++.                                                             *)
(*                                                                         *)
(* A definition called Mutant<D> is D with a plausible bug; no other       *)
(* definition uses it.                                                     *)
(***************************************************************************)
EXTENDS Hyperslab

------------------------------------------------------------------------------
(***************************************************************************)
(* Outcomes.                                                               *)
(***************************************************************************)

Got(places) == [status |-> "ok", at |-> places]
Thrown      == [status |-> "thrown", at |-> <<>>]
Undefined   == [status |-> "undefined", at |-> <<>>]

\* One read after the other, unless that went wrong.
Then(a, b) == IF a.status # "ok" THEN a ELSE IF b.status # "ok" THEN b ELSE Got(a.at \o b.at)
AllOf(outcomes) == FoldLeft(Then, Got(<<>>), outcomes)

------------------------------------------------------------------------------
(***************************************************************************)
(* Making the variable.                                                    *)
(***************************************************************************)

\* The DAP type of a number; DAP2 has none for 64 bits and no signed byte.
get_dap_type(t, dap4) ==
    CASE dap4 -> t.dap
      [] ~dap4 /\ t.dap = "Int8" -> "Int16"
      [] ~dap4 /\ t.dap \in {"Int64", "UInt64"} -> "unsupported"
      [] OTHER -> t.dap

\* Get_bt makes a variable of it or throws.
Get_bt(t, dap4) ==
    \/ t.class = "string"
    \/ t.class = "number" /\ get_dap_type(t, dap4) # "unsupported"

\* Whether Get_structure gets through: a field that is an array of something else is
\* passed over in silence.
RECURSIVE Get_structure(_, _)
Get_structure(t, dap4) ==
    \A i \in DOMAIN t.members :
      LET m == t.members[i].type IN
      CASE m.class = "compound" -> Get_structure(m, dap4)
        [] m.class \in {"number", "string"} -> Get_bt(m, dap4)
        [] m.class = "array" -> CASE m.base.class = "compound" -> Get_structure(m.base, dap4)
                                  [] m.base.class \in {"number", "string"} -> Get_bt(m.base, dap4)
                                  [] OTHER -> TRUE
        [] OTHER -> FALSE

------------------------------------------------------------------------------
(***************************************************************************)
(* Reading.                                                                *)
(***************************************************************************)

\* A signed byte, which DAP2 widens; the test does not ask for the DAP version.
promote_char_to_short(t) == t.class = "number" /\ t.dap = "Int8"

\* Where obtain_next_pos goes from pos: the last dimension that is not at its end
\* steps on and those after it start again.  At the end of all the first stays.
obtain_next_pos(pos, start, end, step) ==
    LET on == Max({r \in DOMAIN pos : r = 1 \/ pos[r] + step[r] <= end[r]}) IN
    [r \in DOMAIN pos |->
       CASE r < on -> pos[r]
         [] r = on -> IF pos[r] + step[r] <= end[r] THEN pos[r] + step[r] ELSE pos[r]
         [] r > on -> start[r]]

\* The positions of n elements, one found from the other.
Positions(sel, n) ==
    LET end == [r \in DOMAIN sel |-> sel[r].start + (Count(sel)[r] - 1) * sel[r].stride]
        pos[i \in 1..n] == IF i = 1 THEN Offset(sel) ELSE obtain_next_pos(pos[i - 1], Offset(sel), end, Step(sel)) IN
    pos

MutantElementAt(t, n) ==
    IF Nels(t.sel) = Product(t.dims) THEN [i \in 1..n |-> i - 1]
    ELSE [i \in 1..n |-> i - 1 + INDEX_nD_TO_1D(t.dims, Offset(t.sel))]

\* The places of the first n elements selected in an array of compounds.
ElementAt(t, n) ==
    IF Nels(t.sel) = Product(t.dims) THEN [i \in 1..n |-> i - 1]
    ELSE [i \in 1..n |-> INDEX_nD_TO_1D(t.dims, Positions(t.sel, n)[i])]

\* The selected elements of an array of numbers or strings, that is all of them, or
\* those subset copies.
Subset(t, off) ==
    LET total == [i \in 1..Product(t.dims) |-> off + (i - 1) * t.base.size] IN
    Got(IF Nels(t.sel) = Product(t.dims) THEN total
        ELSE subset(total, t.dims, Offset(t.sel), Step(t.sel), Count(t.sel)))

\* subset is there for these types.
SubsetTypes == {"Byte", "Int16", "UInt16", "Int32", "UInt32", "Float32", "Float64"}

\* An array of numbers: the shorts that a whole array of signed bytes becomes go
\* into a vector of no size.
Numbers(t, off, dap4) ==
    CASE Nels(t.sel) = Product(t.dims) /\ promote_char_to_short(t.base) -> Undefined
      [] Nels(t.sel) # Product(t.dims) /\ get_dap_type(t.base, dap4) \notin SubsetTypes -> Thrown
      [] OTHER -> Subset(t, off)

RECURSIVE do_structure_read(_, _, _), do_h5_array_type_read(_, _, _), ArrayElement(_, _, _)

\* The fields of a structure that is at off in the buffer.
do_structure_read(t, off, dap4) ==
    AllOf([i \in DOMAIN t.members |->
      LET m == t.members[i].type
          at == off + t.members[i].offset IN
      CASE m.class = "compound" -> do_structure_read(m, at, dap4)
        [] m.class = "array" -> do_h5_array_type_read(m, at, dap4)
        [] OTHER -> Got(<<at>>)])

\* The same for an element of an array that is a field: a string is handed over as
\* characters to a variable that takes a string.
ArrayElement(t, off, dap4) ==
    AllOf([i \in DOMAIN t.members |->
      LET m == t.members[i].type
          at == off + t.members[i].offset IN
      CASE m.class = "compound" -> do_structure_read(m, at, dap4)
        [] m.class = "array" -> do_h5_array_type_read(m, at, dap4)
        [] m.class = "string" -> Undefined
        [] OTHER -> Got(<<at>>)])

\* An array that is a field.  For other bases there is no variable to put it into.
do_h5_array_type_read(t, off, dap4) ==
    CASE t.base.class = "compound" ->
           AllOf([i \in 1..Nels(t.sel) |-> ArrayElement(t.base, off + t.base.size * ElementAt(t, Nels(t.sel))[i], dap4)])
      [] t.base.class = "number" -> Numbers(t, off, dap4)
      [] t.base.class = "string" -> Subset(t, off)
      [] OTHER -> Undefined

\* H5Dread with a hyperslab fills a buffer with the selected elements, in order
\* (external): the place in the file of a place in the buffer.
InFile(d, place) == Selected(d.dims, d.sel)[(place \div d.type.size) + 1] * d.type.size + (place % d.type.size)

\* An array of structures: the fields of all elements in the buffer.
m_array_of_structure(d, dap4) ==
    LET read == AllOf([element \in 1..Nels(d.sel) |-> do_structure_read(d.type, d.type.size * (element - 1), dap4)]) IN
    [read EXCEPT !.at = [i \in DOMAIN @ |-> InFile(d, @[i])]]

\* An array of numbers or strings.  Of the strings of fixed length that make a part
\* of the array, as many are taken from the buffer as the whole array has.
m_array_of_atomic(d) ==
    CASE Nels(d.sel) = Product(d.dims) -> Got([i \in 1..Nels(d.sel) |-> (i - 1) * d.type.size])
      [] Nels(d.sel) # Product(d.dims) /\ d.type.class = "string" /\ ~d.type.variable -> Undefined
      [] OTHER -> Got([i \in 1..Nels(d.sel) |-> InFile(d, (i - 1) * d.type.size)])

\* A scalar: a number, widened or not, or a string of either kind.
ReadNumber(d) == Got(<<0>>)
ReadString(d) == Got(<<0>>)

\* References, before version 1.12 of the library: all are read, and those selected
\* are found as if there were one dimension.
m_array_of_reference(d) ==
    LET places == [i \in 1..Nels(d.sel) |-> Offset(d.sel)[1] + (i - 1) * Step(d.sel)[1]] IN
    IF \E i \in DOMAIN places : places[i] >= Product(d.dims) THEN Undefined ELSE Got(places)

\* And since: a reference to a region that is neither points nor a hyperslab adds
\* nothing to the texts, which are then too few for the variable.
m_array_of_reference_new_h5_apis(d) ==
    LET places == Selected(d.dims, d.sel) IN
    IF \E i \in DOMAIN places : d.type.region[places[i] + 1] \in {"none", "all"} THEN Undefined ELSE Got(places)

\* HDF5Array::read, HDF5Structure::read and the read of each scalar.
Read(d, dap4, newlib) ==
    CASE d.type.class = "reference" ->
           IF newlib THEN m_array_of_reference_new_h5_apis(d) ELSE m_array_of_reference(d)
      [] d.type.class = "compound" /\ ~Get_structure(d.type, dap4) -> Thrown
      [] d.type.class \in {"number", "string"} /\ ~Get_bt(d.type, dap4) -> Thrown
      [] d.type.class = "compound" /\ d.dims = <<>> -> do_structure_read(d.type, 0, dap4)
      [] d.type.class = "compound" /\ d.dims # <<>> -> m_array_of_structure(d, dap4)
      [] d.type.class = "number" /\ d.dims = <<>> -> ReadNumber(d)
      [] d.type.class = "string" /\ d.dims = <<>> -> ReadString(d)
      [] OTHER -> m_array_of_atomic(d)

------------------------------------------------------------------------------
(***************************************************************************)
(* What is to be read, independently of the code: the places of all values *)
(* of a type that is at a place, with the selections on the way.           *)
(***************************************************************************)

RECURSIVE Places(_, _)
Places(t, at) ==
    CASE t.class = "compound" -> FlattenSeq([i \in DOMAIN t.members |-> Places(t.members[i].type, at + t.members[i].offset)])
      [] t.class = "array" -> LET e == Selected(t.dims, t.sel) IN
                              FlattenSeq([i \in DOMAIN e |-> Places(t.base, at + e[i] * t.base.size)])
      [] OTHER -> <<at>>

Wanted(d) ==
    IF d.dims = <<>> THEN Places(d.type, 0)
    ELSE LET e == Selected(d.dims, d.sel) IN FlattenSeq([i \in DOMAIN e |-> Places(d.type, e[i] * d.type.size)])

\* What a type holds at any depth.
RECURSIVE Within(_)
Within(t) ==
    {t} \cup (CASE t.class = "compound" -> UNION {Within(t.members[i].type) : i \in DOMAIN t.members}
                [] t.class = "array" -> Within(t.base)
                [] OTHER -> {})

\* What the default option does not read: integers of 64 bits in DAP2; fields of
\* other classes; and, as fields, arrays of such, of compounds with a string, whole
\* arrays of signed bytes, and parts of arrays of the integers that only DAP4 has.
\* Parts of arrays of strings of fixed length are read beyond the buffer.  References
\* are taken to have one dimension, and to refer to objects, points or hyperslabs.
Unsupported(d, dap4, newlib) ==
    \/ \E t \in Within(d.type) : t.class = "other"
    \/ ~dap4 /\ \E t \in Within(d.type) : t.class = "number" /\ t.dap \in {"Int64", "UInt64"}
    \/ \E t \in Within(d.type) : t.class = "array" /\
         LET whole == Nels(t.sel) = Product(t.dims) IN
         \/ t.base.class = "array"
         \/ t.base.class = "compound" /\ \E i \in DOMAIN t.base.members : t.base.members[i].type.class = "string"
         \/ t.base.class = "number" /\ whole /\ t.base.dap = "Int8"
         \/ t.base.class = "number" /\ ~whole /\ dap4 /\ t.base.dap \in {"Int8", "Int64", "UInt64"}
    \/ d.type.class = "reference" /\ newlib /\ \E e \in ToSet(Selected(d.dims, d.sel)) : d.type.region[e + 1] \in {"none", "all"}
    \/ d.type.class = "string" /\ ~d.type.variable /\ d.dims # <<>> /\ Nels(d.sel) # Product(d.dims)
==============================================================================
