------------------------------ MODULE PathLists ------------------------------
(***************************************************************************)
(* The configuration file of the large memory cache: the lists its lines   *)
(* make (obtain_lrd_common_cache_dirs) and the two tests of a file's path  *)
(* against them (HDF5BaseArray).  Lines and paths are sequences of         *)
(* characters; a list is a set, since only membership is asked for.        *)
(*                                                                         *)
(* A definition called Mutant<D> is D with a plausible bug; no other       *)
(* definition uses it.                                                     *)
(***************************************************************************)
EXTENDS Integers, SequencesExt

CONSTANTS SizeLimit     \* a size_t is at most SizeLimit - 1, which is also npos

npos == SizeLimit - 1

\* string::find of a character, and string::rfind of a string; places are from 0.
Find(s, c, from) ==
    LET found == {i \in from..(Len(s) - 1) : s[i + 1] = c} IN
    IF found = {} THEN npos ELSE Min(found)

RFind(s, t) ==
    LET found == {i \in 0..(Len(s) - Len(t)) : SubSeq(s, i + 1, i + Len(t)) = t} IN
    IF found = {} THEN npos ELSE Max(found)

------------------------------------------------------------------------------
(***************************************************************************)
(* The lists.                                                              *)
(***************************************************************************)

\* The pieces between separators, the empty ones too.
Split_helper(text, sep) ==
    LET ends == {i \in 1..Len(text) : text[i] = sep} IN
    {SubSeq(text, p[1] + 1, p[2] - 1) :
       p \in {p \in ({0} \cup ends) \X (ends \cup {Len(text) + 1}) :
                p[1] < p[2] /\ \A e \in ends : ~(p[1] < e /\ e < p[2])}}

\* What is between the first and the second mark, the third and the fourth, ...
Quoted(text, marks) ==
    {SubSeq(text, marks[i] + 1, marks[i + 1] - 1) : i \in {j \in DOMAIN marks : j % 2 = 1}} \ {<<>>}

\* The places of a quotation mark.
Marks(text, q) == SetToSortSeq({i \in 1..Len(text) : text[i] = q}, <)

\* The names in the text after the flag of a line: directories after 0 and 1,
\* variables after 2.
Entries(flag, text) ==
    LET dq == Marks(text, "\"")
        sq == Marks(text, "'") IN
    IF flag # 2 \/ (dq = <<>> /\ sq = <<>>) THEN Split_helper(text, " ")
    ELSE IF sq = <<>> THEN IF Len(dq) % 2 = 0 THEN Quoted(text, dq) ELSE {}
    ELSE IF dq = <<>> THEN IF Len(sq) % 2 = 0 THEN Quoted(text, sq) ELSE {}
    ELSE {}

------------------------------------------------------------------------------
(***************************************************************************)
(* The tests.                                                              *)
(***************************************************************************)

\* The first section before a separator that is in the list, or nothing: the
\* last section is not looked at.
check_str_sect_in_list(list, cur_str, sep) ==
    LET sections[start \in 0..Len(cur_str)] ==
          LET end == Find(cur_str, sep, start)
              section == SubSeq(cur_str, start + 1, end) IN
          IF end = npos THEN <<>> ELSE IF section \in list THEN section ELSE sections[end + 1]
    IN sections[0]

\* A path of the file and the variable with one slash between them.
FullPath(fname, varname) ==
    LET slash == <<"/">> IN
    IF Last(fname) = "/" /\ varname[1] = "/" THEN Front(fname) \o varname
    ELSE IF Last(fname) # "/" /\ varname[1] # "/" THEN fname \o slash \o varname
    ELSE fname \o varname

MutantListed(list, fname, varname) ==
    /\ fname # <<>> /\ varname # <<>>
    /\ \E entry \in list : RFind(FullPath(fname, varname), entry) # npos

\* Some entry of the list is the end of the full path.  The difference of the
\* sizes wraps round.
check_var_cache_files(list, fname, varname) ==
    /\ fname # <<>> /\ varname # <<>>
    /\ LET fullpath == FullPath(fname, varname) IN
       \E entry \in list :
         RFind(fullpath, entry) = (Len(fullpath) - Len(entry)) % SizeLimit
==============================================================================
