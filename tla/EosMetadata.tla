----------------------------- MODULE EosMetadata -----------------------------
(***************************************************************************)
(* The metadata of an HDF-EOS5 file: the group "HDFEOS INFORMATION" holds  *)
(* texts as datasets, a long text cut into parts named after it with a     *)
(* number, such as coremetadata.0 and coremetadata.1, or coremetadata.0    *)
(* and coremetadata.0.1.  read_ecs_metadata puts the parts together again. *)
(*                                                                         *)
(* An object of the group is [kind, form, numbers, text, object]: its name *)
(* is its kind ("exact"), its kind and more without a dot ("undotted"), or *)
(* its kind and what follows each dot ("dotted", a word being NotANumber). *)
(* A text is a sequence, its characters being numbers.  The order of the   *)
(* objects is that of the links.                                           *)
(***************************************************************************)
EXTENDS Integers, SequencesExt, Subsequences

Kinds == {"StructMetadata", "CoreMetadata", "ArchivedMetadata",
          "SubsetMetadata", "XmlMetadata", "ProductMetadata"}

NotANumber == -2
NoSuffix   == -1

Objects ==
    [kind : STRING, form : {"exact", "undotted", "dotted"}, numbers : Seq(Nat \cup {NotANumber}),
     text : Seq(Nat), object : STRING]

\* The kinds that are told from the other metadata: the caller that only needs the
\* structure reads nothing else.
KindsRead(st_only) == IF st_only THEN {"StructMetadata"} ELSE Kinds

MutantNumber(o) ==
    CASE o.form # "dotted"        -> [ok |-> TRUE, num |-> NoSuffix]
      [] Len(o.numbers) \in 1..2 -> [ok |-> o.numbers[1] # NotANumber, num |-> o.numbers[1]]
      [] OTHER                    -> [ok |-> FALSE, num |-> NoSuffix]

\* The number of a part, the one after the second dot where there are two: there a
\* word is read as 0, as stringstream does.
get_metadata_num(o) ==
    IF o.form # "dotted" THEN [ok |-> TRUE, num |-> NoSuffix]
    ELSE IF Len(o.numbers) = 1 THEN [ok |-> o.numbers[1] # NotANumber, num |-> o.numbers[1]]
    ELSE IF Len(o.numbers) = 2 THEN [ok |-> TRUE, num |-> IF o.numbers[2] = NotANumber THEN 0 ELSE o.numbers[2]]
    ELSE [ok |-> FALSE, num |-> NoSuffix]

OfKind(objects, kind) == ElementsAt(objects, {i \in DOMAIN objects : objects[i].kind = kind})

\* The first walk: how many parts a kind has.  A name without a suffix may only come
\* once, and then alone, unless parts were counted before it.
CountParts(parts) ==
    LET more(count, o) ==
          IF ~count.ok THEN count
          ELSE IF count.alone THEN [count EXCEPT !.ok = FALSE]
          ELSE IF count.total = 0 /\ o.form = "exact" THEN [count EXCEPT !.alone = TRUE]
          ELSE [count EXCEPT !.total = count.total + 1]
        upto[i \in 0..Len(parts)] ==
          IF i = 0 THEN [total |-> 0, alone |-> FALSE, ok |-> TRUE] ELSE more(upto[i - 1], parts[i])
    IN upto[Len(parts)]

\* Every link of the group must be a hard link to a dataset.
AllDatasets(objects) == \A i \in DOMAIN objects : objects[i].object = "dataset"

\* The second walk, at one part: the text of a name without a number is the whole one,
\* another goes to the place of its number, which must be empty; a number that is no place
\* of the vector is written outside of it.
PlacePart(placed, o, total) ==
    LET n == get_metadata_num(o) IN
    IF placed.status # "ok" THEN placed
    ELSE IF ~n.ok THEN [placed EXCEPT !.status = "throws"]
    ELSE IF n.num = NoSuffix THEN [status |-> "ok", whole |-> o.text, last |-> NoSuffix, parts |-> placed.parts]
    ELSE IF n.num >= total THEN [placed EXCEPT !.status = "undefined"]
    ELSE IF placed.parts[n.num + 1] # <<>> THEN [placed EXCEPT !.status = "throws"]
    ELSE [status |-> "ok", whole |-> placed.whole, last |-> n.num,
          parts |-> [placed.parts EXCEPT ![n.num + 1] = o.text]]

PlaceParts(parts, total) ==
    LET upto[i \in 0..Len(parts)] ==
          IF i = 0 THEN [status |-> "ok", whole |-> <<>>, last |-> NoSuffix, parts |-> [j \in 1..total |-> <<>>]]
          ELSE PlacePart(upto[i - 1], parts[i], total)
    IN upto[Len(parts)]

\* Texts one after the other.
Concatenated(texts) ==
    LET upto[i \in 0..Len(texts)] == IF i = 0 THEN <<>> ELSE upto[i - 1] \o texts[i] IN upto[Len(texts)]

\* Whether the parts are appended is told by the number of the last object seen.
JoinParts(placed) ==
    IF placed.parts # <<>> /\ placed.last # NoSuffix THEN placed.whole \o Concatenated(placed.parts)
    ELSE placed.whole

\* All other metadata, in the order of the links.
OtherMetadata(objects) ==
    Concatenated([i \in DOMAIN objects |-> IF objects[i].kind \in Kinds THEN <<>> ELSE objects[i].text])

\* The texts of a file by kind.  A file without a numbered StructMetadata is refused.
read_ecs_metadata(objects, st_only) ==
    LET kinds  == KindsRead(st_only)
        counts == [k \in kinds |-> CountParts(OfKind(objects, k))]
        placed == [k \in kinds |-> PlaceParts(OfKind(objects, k), counts[k].total)]
        refused == [status |-> "throws", text |-> [k \in kinds |-> <<>>], other |-> <<>>] IN
    IF ~AllDatasets(objects) \/ (\E k \in kinds : ~counts[k].ok) \/ counts["StructMetadata"].total = 0 THEN refused
    ELSE IF \E k \in kinds : placed[k].status = "undefined" THEN [refused EXCEPT !.status = "undefined"]
    ELSE IF \E k \in kinds : placed[k].status = "throws" THEN refused
    ELSE [status |-> "ok", text |-> [k \in kinds |-> JoinParts(placed[k])],
          other |-> IF st_only THEN <<>> ELSE OtherMetadata(objects)]

\* The tables of a DAS that come from the metadata.
MetadataTables(metadata, disable_ecsmeta, disable_structmeta) ==
    IF disable_ecsmeta THEN {}
    ELSE {k \in Kinds : metadata.text[k] # <<>> /\ ~(k = "StructMetadata" /\ disable_structmeta)}
         \cup (IF metadata.other # <<>> THEN {"OtherMetadata"} ELSE {})
=============================================================================
