----------------------------- MODULE Algorithms -----------------------------
(***************************************************************************)
(* The pure parts of the data paths, of the metadata and of the lists of   *)
(* the memory cache: each input is one state, which is never left.         *)
(*                                                                         *)
(* A definition called Mutant<D> is D with a plausible bug; no other       *)
(* definition uses it.                                                     *)
(***************************************************************************)
EXTENDS Hyperslab, PathLists, EosMetadata

CONSTANT Inputs     \* records with what they are about and what that takes

ASSUME InputsAssumption ==
    \A i \in Inputs : /\ i.about = "selection" => LegalSelection(i.dims, i.sel)
                      /\ i.about = "metadata" => i.objects \in Seq(Objects)

VARIABLE input

Init == input \in Inputs
Next == UNCHANGED input
Spec == Init /\ [][Next]_input

------------------------------------------------------------------------------
(***************************************************************************)
(* Properties.                                                             *)
(***************************************************************************)

About(what) == input.about = what

\* A request that finds the whole array in a memory cache gets the elements that
\* its constraint selects, in their order, whatever the strides; so does one served
\* from a cache file, of which only the part from the first element to the last is
\* read: counting that the part has as many elements as are wanted is enough to
\* send it as it is, and otherwise dropping the rest of it with a start of 0 in
\* every dimension, and the sizes of the whole array, does not go wrong
\* (read_data_from_mem_cache, subset, obtain_cached_data).
CacheSelection ==
    About("selection") =>
      /\ Lists(FromMemory(input.dims, input.sel), Selection(input.dims, input.sel))
      /\ FromDisk(input.dims, input.sel) = FromMemory(input.dims, input.sel)

\* What has no data in the file is selected alike: of the latitudes and longitudes
\* of a projected grid, each in its half of a cache file, and of the natural
\* numbers of a dimension, although the number of elements alone decides that all
\* are wanted (read_data_NOT_from_mem_cache, write_nature_number_buffer).
ComputedSelection ==
    About("selection") =>
      LET n == Product(input.dims)
          wanted == Selected(input.dims, input.sel) IN
      /\ FromLatLonFile(input.dims, input.sel, FALSE) = wanted
      /\ FromLatLonFile(input.dims, input.sel, TRUE) = [i \in DOMAIN wanted |-> n + wanted[i]]
      /\ Len(input.dims) = 1 => NaturalNumbers(input.sel, n) = wanted

\* The parts of a kind have one number or two, all numbers, and none is empty; their
\* numbers are 0 and up without a gap; their texts in the order of these.
Place(o)        == o.numbers[Len(o.numbers)]
Numbered(parts) ==
    \A o \in ToSet(parts) : /\ o.form = "dotted" /\ Len(o.numbers) \in 1..2 /\ ToSet(o.numbers) \subseteq Nat
                            /\ o.text # <<>>
Whole(parts)    == {Place(o) : o \in ToSet(parts)} = 0..(Len(parts) - 1)
InPlace(parts)  == [n \in DOMAIN parts |-> (CHOOSE o \in ToSet(parts) : Place(o) = n - 1).text]

\* The parts of a text come together in the order of their numbers, whichever the
\* order of the links: when each kind has parts with numbers only, a file is read
\* exactly if it has a StructMetadata and no kind misses a part or has one twice.
\* Its DDS is made from the StructMetadata that its DAS shows, and its DAS shows
\* each kind that is there and not disabled (read_ecs_metadata, gen_eos5_cfdas).
MetadataJoined ==
    About("metadata") =>
      LET read      == read_ecs_metadata(input.objects, FALSE)
          structure == read_ecs_metadata(input.objects, TRUE)
          parts(k)  == OfKind(input.objects, k) IN
      IF ~AllDatasets(input.objects) THEN read.status = "throws"
      ELSE (\A k \in Kinds : Numbered(parts(k))) =>
             /\ read.status = "ok" <=> parts("StructMetadata") # <<>> /\ \A k \in Kinds : Whole(parts(k))
             /\ read.status = "ok" =>
                  /\ \A k \in Kinds : read.text[k] = Concatenated(InPlace(parts(k)))
                  /\ structure.status = "ok" /\ structure.text["StructMetadata"] = read.text["StructMetadata"]
                  /\ \A disabled \in BOOLEAN :
                       MetadataTables(read, FALSE, disabled) \cap Kinds =
                         {k \in Kinds : parts(k) # <<>> /\ ~(disabled /\ k = "StructMetadata")}

\* The directories of a path, the file name not being one.
Directories(path) ==
    {SubSeq(path, p[1] + 1, p[2] - 1) :
       p \in {p \in (1..Len(path)) \X (1..Len(path)) :
                /\ p[1] < p[2]
                /\ \A k \in p[1]..p[2] : path[k] = "/" <=> k \in {p[1], p[2]}}}

\* A file is in a listed directory when one of the directories of its path is
\* named in the line, as h5.conf.in says; a variable is listed when its full path
\* ends in one of the names of the line, quoted or not.  The one case left out is
\* a name that is one character longer than the path, which is always taken for
\* listed (check_str_sect_in_list, check_var_cache_files).
ListsMatch ==
    About("lists") =>
      LET names == {input.names[i] : i \in DOMAIN input.names} IN
      IF input.flag = 1
      THEN LET both  == Directories(input.file) \cap names
               found == check_str_sect_in_list(Entries(1, input.text), input.file, "/") IN
           IF both = {} THEN found = <<>> ELSE found \in both
      ELSE LET full == FullPath(input.file, input.var) IN
           (\A n \in names : Len(n) # Len(full) + 1) =>
             (check_var_cache_files(Entries(2, input.text), input.file, input.var)
                <=> \E n \in names : IsSuffix(n, full))
==============================================================================
