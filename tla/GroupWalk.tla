------------------------------ MODULE GroupWalk ------------------------------
(***************************************************************************)
(* The default option walks the groups of an HDF5 file to build a DAS      *)
(* (depth_first in h5das.cc), a DDS (depth_first in h5dds.cc) or a DMR     *)
(* (breadth_first in h5dmr.cc).  Hard links may give an object several     *)
(* paths and groups cycles.  Two maps from object addresses to names, kept *)
(* for as long as the BES process runs, are to break the cycles: paths for *)
(* the DAS and the DDS, obj_paths for the DMR.                             *)
(*                                                                         *)
(* An action handles one link.  No walk follows a soft link; the DAS       *)
(* follows external links, into other files, with the same map.  A path is *)
(* the sequence of the names of its links; the names in a group are some   *)
(* of 1, ..., Names, in the order in which HDF5 lists them.                *)
(*                                                                         *)
(* A definition called Mutant<D> is D with a plausible bug; no other       *)
(* definition uses it.                                                     *)
(***************************************************************************)
EXTENDS Naturals, Sequences, FiniteSets, Functions

CONSTANTS
    Object,     \* in the files that are served and in those that they link to
    Root,       \* the root group of the file that is served
    RootOf,     \* of every object: the root group of the file it is in
    AddressOf,  \* of every object: its address in the file it is in
    Names,      \* how many names links may have
    LinkLimit,  \* how many links that are not hard HDF5 follows in one path
    File,       \* the files that are served, each with those it links to
    Kinds,      \* the requests: some of "das", "dds", "dmr"
    None        \* no request, no object

ASSUME ObjectAssumption ==
    /\ RootOf \in [Object -> Object]
    /\ \A o \in Object : RootOf[RootOf[o]] = RootOf[o]
    /\ Root \in Object /\ RootOf[Root] = Root
    /\ \A o, p \in Object : RootOf[o] = RootOf[p] /\ AddressOf[o] = AddressOf[p] => o = p
    /\ Names \in Nat /\ LinkLimit \in Nat
    /\ None \notin Object

Link == [type : {"hard", "soft", "external"}, to : Object]

(***************************************************************************)
(* A file gives each of its groups its links; everything else is a         *)
(* dataset.  Hard links stay in their file.                                *)
(***************************************************************************)
ASSUME FileAssumption ==
    \A f \in File :
      /\ DOMAIN f \subseteq Object /\ IsFiniteSet(DOMAIN f) /\ Root \in DOMAIN f
      /\ \A g \in DOMAIN f :
           /\ DOMAIN f[g] \subseteq 1..Names
           /\ \A n \in DOMAIN f[g] :
                /\ f[g][n] \in Link
                /\ f[g][n].type = "hard" => RootOf[f[g][n].to] = RootOf[g]
ASSUME KindAssumption == Kinds \subseteq {"das", "dds", "dmr"}

Request == [kind : Kinds, file : File, status : {"walking", "done", "failed"}, first : BOOLEAN]

ASSUME NoneAssumption == None \notin Request

VARIABLES
    paths, obj_paths,   \* the objects seen, and under which name first
    request,            \* the last request, or None
    stack,              \* the groups it is in, from the root
    listed,             \* the objects whose attributes or variables it has listed
    hardlinks           \* the HDF5_HARDLINK attributes: an object and a name

vars == <<paths, obj_paths, request, stack, listed, hardlinks>>

------------------------------------------------------------------------------
(***************************************************************************)
(* The file of the request.                                                *)
(***************************************************************************)

Walking == request # None /\ request.status = "walking"
Kind    == request.kind
TheFile == request.file

IsGroup(o) == o \in DOMAIN TheFile

\* The hard links of a file: a group and a name in it.
HardLinks(f)  == UNION {{g} \X {n \in DOMAIN f[g] : f[g][n].type = "hard"} : g \in DOMAIN f}
LinksTo(f, o) == {l \in HardLinks(f) : f[l[1]][l[2]].to = o}

\* H5O_info_t.rc; a file itself has a link to its root group.
Rc(f, o) == Cardinality(LinksTo(f, o)) + (IF o = RootOf[o] THEN 1 ELSE 0)

\* Where the link called "name" leads to from a place: to one place or none.  A place
\* is an object and how many of the links to it were not hard.
Follow(f, from, name) ==
    {[object  |-> f[from.object][n].to,
      crossed |-> from.crossed + (IF f[from.object][n].type = "hard" THEN 0 ELSE 1)] :
       n \in {n \in {name} : from.object \in DOMAIN f /\ n \in DOMAIN f[from.object]}}

\* Where a path from root group r leads to.
Lookup(f, r, path) ==
    LET at[n \in 0..Len(path)] ==
          IF n = 0 THEN {[object |-> r, crossed |-> 0]}
          ELSE UNION {Follow(f, from, path[n]) : from \in at[n - 1]}
    IN at[Len(path)]

\* Those of the first m names that are in a set, one after another.
Pick(m, names) ==
    LET upto[n \in 0..m] ==
          IF n = 0 THEN <<>> ELSE IF n \in names THEN Append(upto[n - 1], n) ELSE upto[n - 1]
    IN upto[m]

\* The links that the walk does not pass over.
Followed == IF Kind = "das" THEN {"hard", "external"} ELSE {"hard"}

\* The names in group g in the order of the walk: the DMR wants the datasets
\* first, in a loop of their own.
Order(g) ==
    LET names    == {n \in DOMAIN TheFile[g] : TheFile[g][n].type \in Followed}
        groups   == {n \in names : IsGroup(TheFile[g][n].to)} IN
    IF Kind = "dmr" THEN Pick(Names, names \ groups) \o Pick(Names, groups) ELSE Pick(Names, names)

\* A group that the walk is in; "abroad" tells, for the properties, that an
\* external link has been followed on the way.
Frame(g, path, abroad) == [group |-> g, path |-> path, next |-> 1, abroad |-> abroad]
Top     == stack[Len(stack)]
Advance == [stack EXCEPT ![Len(stack)].next = @ + 1]

\* The link that comes next in the innermost group.
LinkLeft == Walking /\ Top.next <= Len(Order(Top.group))
Name     == Order(Top.group)[Top.next]
TheLink  == TheFile[Top.group][Name]
Path     == Append(Top.path, Name)

\* A member is opened by its full path, and not by its name: in another file, too,
\* from that file's root group.  The call is that for the type of the link's object.
Opened ==
    {p.object : p \in {p \in Lookup(TheFile, RootOf[Top.group], Path) :
                         p.crossed <= LinkLimit /\ (IsGroup(p.object) <=> IsGroup(TheLink.to))}}

\* Whether the walk goes on in, or has come through, another file.
Abroad == Top.abroad \/ TheLink.type = "external"

\* A name as it goes into a map: a full path, or the name of a link alone.
Full(path)  == [absolute |-> TRUE, path |-> path]
Local(name) == [absolute |-> FALSE, path |-> <<name>>]

------------------------------------------------------------------------------
(***************************************************************************)
(* get_hardlink and get_hardlink_dmr: an object with more than one hard    *)
(* link is added to the map unless its address is there.                   *)
(***************************************************************************)

MutantVisited(map, f, o) == Rc(f, o) > 2 /\ AddressOf[o] \in DOMAIN map

Visited(map, f, o) == Rc(f, o) > 1 /\ AddressOf[o] \in DOMAIN map

Added(map, f, o, name) ==
    IF Rc(f, o) > 1 /\ AddressOf[o] \notin DOMAIN map
    THEN [a \in DOMAIN map \cup {AddressOf[o]} |-> IF a = AddressOf[o] THEN name ELSE map[a]]
    ELSE map

Map(kind) == IF kind = "dmr" THEN obj_paths ELSE paths

SetMap(kind, map) ==
    /\ paths' = IF kind = "dmr" THEN paths ELSE map
    /\ obj_paths' = IF kind = "dmr" THEN map ELSE obj_paths

------------------------------------------------------------------------------
(***************************************************************************)
(* The walk.                                                               *)
(***************************************************************************)

Init ==
    /\ paths = <<>> /\ obj_paths = <<>>
    /\ request = None
    /\ stack = <<>>
    /\ listed = {} /\ hardlinks = {}

\* A request that finds no DAS or DDS in the caches; the one that came before has
\* ended.  "first" tells that the map holds nothing from earlier requests.
\* find_gloattr, for a DAS only, comes before the walk: it adds the root group
\* to the map, and its attributes to the DAS.
Begin(kind, f) ==
    /\ ~Walking
    /\ request' = [kind |-> kind, file |-> f, status |-> "walking", first |-> Map(kind) = <<>>]
    /\ stack' = <<Frame(Root, <<>>, FALSE)>>
    /\ SetMap(kind, IF kind = "das" THEN Added(paths, f, Root, Full(<<>>)) ELSE Map(kind))
    /\ listed' = IF kind = "dds" THEN {} ELSE {Root}
    /\ hardlinks' = {}

\* An HDF5_HARDLINK attribute for an object seen before; a DDS has no attributes.
Mark(o) == IF Kind # "dds" /\ Visited(Map(Kind), TheFile, o)
           THEN hardlinks \cup {[object |-> o, name |-> Map(Kind)[AddressOf[o]]]}
           ELSE hardlinks

\* A dataset is listed under each of its paths.
ListDataset ==
    /\ LinkLeft
    /\ \E o \in Opened :
         /\ ~IsGroup(o)
         /\ listed' = listed \cup {o}
         /\ hardlinks' = Mark(o)
         /\ SetMap(Kind, IF Kind = "dds" THEN paths ELSE Added(Map(Kind), TheFile, o, Full(Path)))
    /\ stack' = Advance
    /\ UNCHANGED request

MutantChecked(o) == IF Kind = "dmr" THEN o ELSE Top.group

\* The DDS asks about the group it is in and not about the one it comes to, and
\* names it by the latter.
Checked(o) == IF Kind = "dds" THEN Top.group ELSE o

MutantCheckedName == Local(Name)

CheckedName == IF Kind = "dds" THEN Local(Name) ELSE Full(Path)

\* A group to go into.
EnterGroup ==
    /\ LinkLeft
    /\ \E o \in Opened :
         /\ IsGroup(o)
         /\ ~Visited(Map(Kind), TheFile, Checked(o))
         /\ SetMap(Kind, Added(Map(Kind), TheFile, Checked(o), CheckedName))
         /\ stack' = Append(Advance, Frame(o, Path, Abroad))
         /\ listed' = IF Kind = "dds" THEN listed ELSE listed \cup {o}
    /\ UNCHANGED <<request, hardlinks>>

MutantPassGroup ==
    /\ LinkLeft
    /\ \E o \in Opened :
         /\ IsGroup(o)
         /\ Visited(Map(Kind), TheFile, Checked(o))
         /\ hardlinks' = Mark(o)
    /\ UNCHANGED <<stack, listed, paths, obj_paths, request>>

\* A group to pass over.  The DAS has listed its attributes before it asks.
PassGroup ==
    /\ LinkLeft
    /\ \E o \in Opened :
         /\ IsGroup(o)
         /\ Visited(Map(Kind), TheFile, Checked(o))
         /\ hardlinks' = Mark(o)
         /\ listed' = IF Kind = "das" THEN listed \cup {o} ELSE listed
    /\ stack' = Advance
    /\ UNCHANGED <<paths, obj_paths, request>>

\* Nothing of the link's type is at the path: an exception through all levels.
NotOpened ==
    /\ LinkLeft /\ Opened = {}
    /\ request' = [request EXCEPT !.status = "failed"]
    /\ stack' = <<>>
    /\ UNCHANGED <<paths, obj_paths, listed, hardlinks>>

\* The end of the loop over the links of a group.
LeaveGroup ==
    /\ Walking /\ ~LinkLeft
    /\ stack' = SubSeq(stack, 1, Len(stack) - 1)
    /\ request' = IF Len(stack) = 1 THEN [request EXCEPT !.status = "done"] ELSE request
    /\ UNCHANGED <<paths, obj_paths, listed, hardlinks>>

\* Another call of the HDF5 library fails.
Fail ==
    /\ Walking
    /\ request' = [request EXCEPT !.status = "failed"]
    /\ stack' = <<>>
    /\ UNCHANGED <<paths, obj_paths, listed, hardlinks>>

\* The BES process ends and another one starts.
Restart ==
    /\ paths' = <<>> /\ obj_paths' = <<>>
    /\ request' = None
    /\ stack' = <<>>
    /\ listed' = {} /\ hardlinks' = {}

Walk == ListDataset \/ EnterGroup \/ PassGroup \/ NotOpened \/ LeaveGroup

Next == Walk \/ Fail \/ Restart \/ \E kind \in Kinds, f \in File : Begin(kind, f)

Spec     == Init /\ [][Next]_vars
FairSpec == Spec /\ WF_vars(Walk)

------------------------------------------------------------------------------
(***************************************************************************)
(* Properties.                                                             *)
(***************************************************************************)

\* The objects of the file itself: those that hard links from the root lead to.
Reachable(f) ==
    LET below(g) == {f[g][n].to : n \in {m \in DOMAIN f[g] : f[g][m].type = "hard"}}
        within[n \in 0..Cardinality(DOMAIN f)] ==
          IF n = 0 THEN {Root}
          ELSE within[n - 1] \cup UNION {below(g) : g \in within[n - 1] \cap DOMAIN f}
    IN within[Cardinality(DOMAIN f)]

\* The files that it links to and their links lead away from it and not back, and
\* none of their hard links have an object at the address of one of its own.
Apart(f) ==
    /\ \A g \in DOMAIN f : \A n \in DOMAIN f[g] :
         RootOf[g] # Root \/ f[g][n].type = "external" => RootOf[f[g][n].to] # Root
    /\ \A o, p \in Object :
         RootOf[o] = Root /\ RootOf[p] # Root /\ AddressOf[o] = AddressOf[p] =>
           ~(Rc(f, o) > 1 /\ Rc(f, p) > 1)

\* A DAS or DMR walk that is the first of its process, and gets to no objects of other
\* files but apart ones.
Undisturbed ==
    request # None /\ request.first /\ (Kind = "dmr" \/ (Kind = "das" /\ Apart(TheFile)))

\* Places of the stack that are in group g, and have been reached in the file itself.
Inside(g) == {i \in DOMAIN stack : stack[i].group = g /\ ~stack[i].abroad}

\* "Break the cyclic loop created by hard links" (h5das.cc): as long as it follows no
\* external link, a DAS walk never goes into a group that it is in, whatever the maps
\* hold from earlier requests.  A DMR walk may do so once, for it does not put the
\* root group into its map, and so may a DDS walk, which looks for the group it is in.
CycleBroken ==
    Walking => \A g \in Object :
      Cardinality(Inside(g)) <= IF Kind = "das" THEN 1 ELSE 2

\* Every object that a DAS or a DMR should tell of, every dataset in a DDS.
AllListed ==
    LET objects == Reachable(TheFile) IN
    IF Kind = "dds" THEN objects \ DOMAIN TheFile \subseteq listed ELSE objects \subseteq listed

\* "obtain all the group and dataset attributes of an hdf5 file" (depth_first in
\* h5das.cc): a walk that comes to its end has listed everything.
WalkIsComplete == request # None /\ request.status = "done" => AllListed

\* It has when it is a DAS or DMR walk and the first of its process: although it
\* passes over groups, it has been in them, and although the cycles may lead
\* anywhere, nothing is left out.  A DAS may only follow external links to files
\* that are apart.
FirstWalkIsComplete ==
    Undisturbed /\ request.status = "done" => AllListed

\* The name of an HDF5_HARDLINK attribute is a path to the object.
LeadsToObject(h) ==
    h.name.absolute /\ \E p \in Lookup(TheFile, Root, h.name.path) : p.object = h.object

\* The value of HDF5_HARDLINK "is the name of the group when it is first visited"
\* (h5das.cc): in a first walk, it is a path that leads to the object, for those of
\* the file itself, when the files that a DAS follows external links to are apart.
HardlinkNamesObject ==
    Undisturbed => \A h \in hardlinks : RootOf[h.object] = Root => LeadsToObject(h)

\* Every walk ends, after any requests.
WalkEnds == Walking ~> ~Walking
==============================================================================
