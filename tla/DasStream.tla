------------------------------ MODULE DasStream ------------------------------
(***************************************************************************)
(* The content of a DAS cache file: how the attribute tables of a DAS      *)
(* become a stream (write_das_to_file) and tables again                    *)
(* (get_attr_info_from_dc).                                                *)
(*                                                                         *)
(* A table is a sequence of entries, each an attribute with a name, a type *)
(* and values, or a container with a name and a table.  A stream is a      *)
(* sequence of tokens: a one-byte flag, a string with its length, or a     *)
(* number.                                                                 *)
(*                                                                         *)
(* A definition called Mutant<D> is D with a plausible bug; no other       *)
(* definition uses it.                                                     *)
(***************************************************************************)
EXTENDS Integers, SequencesExt

Attribute(name, type, values) == [kind |-> "attribute", name |-> name, type |-> type, values |-> values]
Container(name, table) == [kind |-> "container", name |-> name, table |-> table]

Flag(f)   == [flag |-> f]
Str(s)    == [str |-> s]
Number(n) == [number |-> n]

------------------------------------------------------------------------------
(***************************************************************************)
(* Writing.                                                                *)
(***************************************************************************)

MutantAttrInfo(a) ==
    <<Flag(0), Str(a.name), Str(a.type)>> \o [i \in DOMAIN a.values |-> Str(a.values[i])]

write_das_attr_info(a) ==
    <<Flag(0), Str(a.name), Str(a.type), Number(Len(a.values))>>
      \o [i \in DOMAIN a.values |-> Str(a.values[i])]

\* A container comes between flag 1 and flag 2.
RECURSIVE write_das_table_to_file(_)
write_das_table_to_file(table) ==
    FlattenSeq([i \in DOMAIN table |->
      IF table[i].kind = "attribute"
      THEN write_das_attr_info(table[i])
      ELSE <<Flag(1), Str(table[i].name)>> \o write_das_table_to_file(table[i].table) \o <<Flag(2)>>])

\* Flag 2 ends the file, too.
write_das_to_file(das) == write_das_table_to_file(das) \o <<Flag(2)>>

------------------------------------------------------------------------------
(***************************************************************************)
(* Reading.  The reader knows the end of the buffer by the flags alone;    *)
(* what it takes for tokens beyond the end is not known, and is "beyond".  *)
(***************************************************************************)

Token(stream, at) == IF at \in DOMAIN stream THEN stream[at] ELSE [beyond |-> at]
IsFlag(token)     == "flag" \in DOMAIN token
IsNumber(token)   == "number" \in DOMAIN token
IsStr(token)      == "str" \in DOMAIN token

\* An attribute whose strings are all there.
AttributeAt(stream, at) ==
    /\ IsStr(Token(stream, at)) /\ IsStr(Token(stream, at + 1))
    /\ IsNumber(Token(stream, at + 2))
    /\ \A i \in 1..Token(stream, at + 2).number : IsStr(Token(stream, at + 2 + i))

\* get_attr_info_from_dc: the table that the loop, started at place at, has
\* appended when it is at its end, and the place it returns; ok is FALSE when it
\* has read beyond the buffer or has thrown, as it does for an attribute with no
\* table around it (top).
RECURSIVE get_attr_info_from_dc(_, _, _, _)
get_attr_info_from_dc(stream, at, table, top) ==
    LET flag   == Token(stream, at)
        failed == [ok |-> FALSE, at |-> at, table |-> table] IN
    IF ~IsFlag(flag) THEN failed
    ELSE CASE flag.flag = 2 -> [ok |-> TRUE, at |-> at + 1, table |-> table]
           [] flag.flag = 1 ->
                IF ~IsStr(Token(stream, at + 1)) THEN failed
                ELSE LET inner == get_attr_info_from_dc(stream, at + 2, <<>>, FALSE) IN
                     IF ~inner.ok THEN failed
                     ELSE get_attr_info_from_dc(stream, inner.at,
                            Append(table, Container(stream[at + 1].str, inner.table)), top)
           [] flag.flag = 0 ->
                IF top \/ ~AttributeAt(stream, at + 1) THEN failed
                ELSE LET n == stream[at + 3].number IN
                     get_attr_info_from_dc(stream, at + 4 + n,
                       Append(table, Attribute(stream[at + 1].str, stream[at + 2].str,
                                               [i \in 1..n |-> stream[at + 3 + i].str])), top)

\* read_das_from_disk_cache, after it has the content of the file.
ReadDas(stream) == get_attr_info_from_dc(stream, 1, <<>>, TRUE)
==============================================================================
