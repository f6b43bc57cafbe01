---------------------------- MODULE VariableRead ----------------------------
(***************************************************************************)
(* The read() methods that go through the data caches: HDF5CFArray,        *)
(* HDF5GMCFMissLLArray and HDFEOS5CFMissLLArray, in one BES process that    *)
(* may be restarted and whose disk cache other processes purge.            *)
(*                                                                         *)
(* An action is one call of read(), from the choice of the cache to the    *)
(* values given to DAP.  Which elements a request selects makes no         *)
(* difference to what the caches then hold, so a buffer is described by    *)
(* the data it holds and, on the disk, by how it is encoded.               *)
(***************************************************************************)
EXTENDS Naturals, Sequences

CONSTANTS
    Var,              \* the variables that clients ask for
    Protocol,         \* values of is_dap4 in these requests
    SrCache, LrCache, \* whether the two memory caches are configured
    CommonDirs,       \* whether LargeDataMemCacheConfig was read
    UseDisk,          \* EnableDiskDataCache
    CompressedOnly,   \* DiskCacheComp
    FloatOnly,        \* DiskCacheFloatOnlyComp
    VarSize,          \* DiskCacheCompVarSize
    LatLonDisk        \* EnableEOSGeoCacheFile

(***************************************************************************)
(* A variable has the path of its file, its own path, the data it holds    *)
(* and its number of elements.  Its class says which read() it has:        *)
(*   "data", "cv", "latlon"  HDF5CFArray, for a plain variable, a          *)
(*                           coordinate variable, a latitude or longitude; *)
(*   "geo"                   a computed latitude or longitude, as H5FLOAT32 *)
(*   "projected"             one computed by GCTP; its data is its grid.   *)
(* The rest is what the configuration says of it: the common directory its *)
(* file is in (empty if none), whether that is a non-cache directory,      *)
(* whether the variable is listed, whether it is hard to compress.         *)
(***************************************************************************)
Variable ==
    [file : Seq(STRING), name : Seq(STRING), data : STRING, elems : Nat \ {0},
     class : {"data", "cv", "latlon", "geo", "projected"},
     type : {"char", "int", "float", "int64", "string"},
     dir : Seq(STRING), excluded : BOOLEAN, listed : BOOLEAN, hard : BOOLEAN]

ASSUME VarAssumption == Var \subseteq Variable
ASSUME ConfigAssumption ==
    /\ Protocol \subseteq BOOLEAN
    /\ SrCache \in BOOLEAN /\ LrCache \in BOOLEAN /\ CommonDirs \in BOOLEAN
    /\ UseDisk \in BOOLEAN /\ CompressedOnly \in BOOLEAN /\ FloatOnly \in BOOLEAN
    /\ VarSize \in Nat /\ LatLonDisk \in BOOLEAN

VARIABLES
    srdata,   \* srdata_mem_cache: the data of the buffer under each key
    lrdata,   \* lrdata_mem_cache, likewise
    disk,     \* the files of the disk cache
    reply     \* the last request: its variable, its values, their origin

vars == <<srdata, lrdata, disk, reply>>

\* A new vector<char> before anything is read into it.
Zeros == "zeros"

Without(cache, keys) == [k \in DOMAIN cache \ keys |-> cache[k]]
With(cache, key, value) ==
    [k \in DOMAIN cache \cup {key} |-> IF k = key THEN value ELSE cache[k]]

-----------------------------------------------------------------------------
(***************************************************************************)
(* Choice of the memory cache and its key                                  *)
(***************************************************************************)

\* cf_dap2_support_numeric_type.
CFNumeric(v) == v.type \in {"char", "int", "float"}

IsArray(v)  == v.class \in {"data", "cv", "latlon"}
IsLatLon(v) == v.class \in {"latlon", "geo", "projected"}

\* The lists of the configuration file are empty when there is none.
Excluded(v) == CommonDirs /\ v.excluded
Listed(v)   == CommonDirs /\ v.listed
CommonDir(v) == IF CommonDirs THEN v.dir ELSE <<>>

\* use_cache_flag = 1.
InSmall(v) == SrCache /\ v.class = "cv" /\ CFNumeric(v)

\* use_cache_flag = 2, 3 or 4.
InLarge(v) ==
    /\ LrCache /\ ~InSmall(v) /\ CFNumeric(v)
    /\ (IsLatLon(v) /\ ~Excluded(v)) \/ (IsArray(v) /\ Listed(v))

InMemory(v) == InSmall(v) \/ InLarge(v)

\* cache_key: files under a common directory share latitudes and longitudes.
MutantKey(v) ==
    IF InLarge(v) /\ CommonDir(v) # <<>> THEN CommonDir(v) \o v.name
    ELSE v.file \o v.name

Key(v) ==
    IF InLarge(v) /\ IsLatLon(v) /\ CommonDir(v) # <<>> /\ ~(IsArray(v) /\ Listed(v))
    THEN CommonDir(v) \o v.name
    ELSE v.file \o v.name

Cache(v) == IF InSmall(v) THEN srdata ELSE lrdata

Hit(v) == InMemory(v) /\ Key(v) \in DOMAIN Cache(v)

\* ObjMemCache::add may purge other entries.
MutantAdd(v, data) ==
    /\ IF InMemory(v) THEN \E purged \in SUBSET (DOMAIN lrdata) :
                            lrdata' = With(Without(lrdata, purged), Key(v), data)
       ELSE UNCHANGED lrdata
    /\ UNCHANGED srdata

Add(v, data) ==
    /\ InSmall(v) => \E purged \in SUBSET (DOMAIN srdata) :
                       srdata' = With(Without(srdata, purged), Key(v), data)
    /\ InLarge(v) => \E purged \in SUBSET (DOMAIN lrdata) :
                       lrdata' = With(Without(lrdata, purged), Key(v), data)
    /\ ~InSmall(v) => UNCHANGED srdata
    /\ ~InLarge(v) => UNCHANGED lrdata

-----------------------------------------------------------------------------
(***************************************************************************)
(* The disk cache                                                          *)
(***************************************************************************)

\* H5_numeric_atomic_type_size.
Width(type) == CASE type = "char" -> 1
                 [] type \in {"int", "float"} -> 4
                 [] OTHER -> 8

\* valid_disk_cache_for_compressed_data.
HardToCompress(v) ==
    /\ v.hard /\ v.elems * Width(v.type) >= VarSize
    /\ FloatOnly => v.type = "float"

\* valid_disk_cache; latitudes and longitudes from GCTP have their own key.
OnDisk(v) ==
    \/ IsArray(v) /\ UseDisk /\ v.type # "string" /\ (CompressedOnly => HardToCompress(v))
    \/ v.class = "projected" /\ LatLonDisk

\* obtain_cache_fname writes '_' for '/', and for ' ' in variable names;
\* obtain_ll_cache_name is made of the parameters of the grid.
Flatten(path, chars) == [i \in DOMAIN path |-> IF path[i] \in chars THEN "_" ELSE path[i]]
MutantCacheFile(v) ==
    IF v.class = "projected" THEN <<"latlon", v.data>>
    ELSE <<"data">> \o Flatten(v.name, {"/", " "})
CacheFile(v) ==
    IF v.class = "projected" THEN <<"latlon", v.data>>
    ELSE <<"data">> \o Flatten(v.file, {"/"}) \o Flatten(v.name, {"/", " "})

\* expected_file_size: DAP2 has no signed byte and takes a short for it.
MutantExpectedSize(v, dap4) ==
    IF v.class = "projected" THEN 2 * 8 * v.elems ELSE Width(v.type) * v.elems
ExpectedSize(v, dap4) ==
    IF v.class = "projected" THEN 2 * 8 * v.elems
    ELSE IF v.type = "char" /\ ~dap4 THEN 2 * v.elems
    ELSE Width(v.type) * v.elems

\* What write_data_to_cache and write_cached_data put in the file.  The call
\* for H5CHAR gives a size of 2, so DAP4 adds as many bytes again.
Content(v, dap4) ==
    [data |-> v.data,
     repr |-> IF v.class = "projected" \/ v.type # "char" THEN "native"
              ELSE IF dap4 THEN "padded" ELSE "short",
     size |-> IF v.class # "projected" /\ v.type = "char" THEN 2 * v.elems
              ELSE ExpectedSize(v, dap4)]

\* How the bytes of a cache file are understood.
Expected(v, dap4) ==
    IF v.class # "projected" /\ v.type = "char" /\ ~dap4 THEN "short" ELSE "native"

\* get_data_from_cache.
Valid(v, dap4) ==
    /\ OnDisk(v)
    /\ CacheFile(v) \in DOMAIN disk
    /\ disk[CacheFile(v)].size = ExpectedSize(v, dap4)

\* A file that is not valid, or that read() failed on, is purged; the new one
\* is written unless another process is at it or the write is short, and
\* update_and_purge may then remove others.
Store(v, dap4) ==
    \/ ~OnDisk(v) /\ UNCHANGED disk
    \/ OnDisk(v) /\ disk' = Without(disk, {CacheFile(v)})
    \/ /\ OnDisk(v)
       /\ \E purged \in SUBSET (DOMAIN disk) :
            disk' = With(Without(disk, purged), CacheFile(v), Content(v, dap4))

-----------------------------------------------------------------------------
(***************************************************************************)
(* read()                                                                  *)
(***************************************************************************)

Values(right) == IF right THEN "right" ELSE "wrong"

Reply(v, values, from) == reply' = [var |-> v, values |-> values, from |-> from]

\* read_data_from_mem_cache: DAP2 gets the chars where it wants shorts, and a
\* two-dimensional latitude is taken from a buffer of one row.
MemoryHit(v, dap4) ==
    /\ Hit(v)
    /\ Reply(v, Values(/\ Cache(v)[Key(v)] = v.data
                       /\ ~(v.type = "char" /\ ~dap4)
                       /\ v.class # "projected"), "memory")
    /\ UNCHANGED <<srdata, lrdata, disk>>

\* obtain_cached_data; a memory cache takes the buffer all the same.
ReadFromDisk(v, dap4) ==
    /\ ~Hit(v) /\ Valid(v, dap4)
    /\ Reply(v, Values(/\ disk[CacheFile(v)].data = v.data
                       /\ disk[CacheFile(v)].repr = Expected(v, dap4)), "disk")
    /\ Add(v, Zeros)
    /\ UNCHANGED disk

\* H5Dread or the computation of the values, the buffer for the memory cache
\* first, which GCTP leaves alone.
MutantReadFromSource(v, dap4) ==
    /\ ~Hit(v) /\ ~Valid(v, dap4)
    /\ Reply(v, "right", "source")
    /\ Add(v, Zeros)
    /\ Store(v, dap4)

ReadFromSource(v, dap4) ==
    /\ ~Hit(v) /\ ~Valid(v, dap4)
    /\ Reply(v, "right", "source")
    /\ Add(v, IF v.class = "projected" THEN Zeros ELSE v.data)
    /\ Store(v, dap4)

\* read(2) of a valid cache file fails: purge it, and then as above.
ReadAfterDiskError(v, dap4) ==
    /\ ~Hit(v) /\ Valid(v, dap4)
    /\ Reply(v, "right", "fallback")
    /\ Add(v, IF v.class = "projected" THEN Zeros ELSE v.data)
    /\ Store(v, dap4)

\* An exception, from a cache directory that is not accessible or from the
\* HDF5 library: nothing is added to the memory cache.
ReadFails(v) ==
    /\ ~Hit(v)
    /\ Reply(v, "none", "error")
    /\ \E gone \in SUBSET {CacheFile(v)} :
         disk' = IF OnDisk(v) THEN Without(disk, gone) ELSE disk
    /\ UNCHANGED <<srdata, lrdata>>

Read(v, dap4) ==
    \/ MemoryHit(v, dap4)
    \/ ReadFromDisk(v, dap4)
    \/ ReadFromSource(v, dap4)
    \/ ReadAfterDiskError(v, dap4)
    \/ ReadFails(v)

-----------------------------------------------------------------------------
\* Another process makes room in the disk cache.
PurgeDisk(f) ==
    /\ disk' = Without(disk, {f})
    /\ UNCHANGED <<srdata, lrdata, reply>>

\* The process ends and another one takes its place.
Restart ==
    /\ srdata' = <<>> /\ lrdata' = <<>>
    /\ UNCHANGED <<disk, reply>>

Init ==
    /\ srdata = <<>> /\ lrdata = <<>> /\ disk = <<>>
    /\ reply \in [var : Var, values : {"none"}, from : {"error"}]

Next ==
    \/ \E v \in Var, dap4 \in Protocol : Read(v, dap4)
    \/ \E f \in DOMAIN disk : PurgeDisk(f)
    \/ Restart

Spec == Init /\ [][Next]_vars

-----------------------------------------------------------------------------
(***************************************************************************)
(* Properties                                                              *)
(***************************************************************************)

\* The caches hold buffers under keys and files of the variables that use
\* them, and nothing when they are not configured.
TypeOK ==
    /\ DOMAIN srdata \subseteq {Key(v) : v \in {w \in Var : InSmall(w)}}
    /\ DOMAIN lrdata \subseteq {Key(v) : v \in {w \in Var : InLarge(w)}}
    /\ DOMAIN disk \subseteq {CacheFile(v) : v \in {w \in Var : OnDisk(w)}}
    /\ \A f \in DOMAIN disk : disk[f] \in {Content(v, dap4) : v \in Var, dap4 \in Protocol}
    /\ reply.var \in Var
    /\ reply.values \in {"right", "wrong", "none"}
    /\ reply.from \in {"memory", "disk", "source", "fallback", "error"}

\* Whatever the caches have been through, a request that succeeds gets the
\* values of the variable it asked for.
ServedIsData == reply.values # "wrong"

\* "Data will be read in from the cached file since the second fetch"
\* (h5.conf.in): as long as the cache file of a variable is there, the
\* variable is not read again from the HDF5 file.
SecondFetch ==
    [][\A v \in Var, dap4 \in Protocol :
          OnDisk(v) /\ CacheFile(v) \in DOMAIN disk => ~ReadFromSource(v, dap4)]_vars

-----------------------------------------------------------------------------
(***************************************************************************)
(* The configurations for which the properties hold: no signed bytes where *)
(* DAP2 takes them from memory or DAP4 puts them on the disk, no variable  *)
(* in both caches, no projected latitude in memory, and no two variables   *)
(* with different data, or with different types, that share a key or a     *)
(* cache file.                                                             *)
(***************************************************************************)
CleanConfig ==
    /\ \A v \in Var : v.type = "char" =>
         /\ InMemory(v) => FALSE \notin Protocol
         /\ OnDisk(v) => TRUE \notin Protocol
    /\ \A v \in Var : InMemory(v) => ~OnDisk(v) /\ v.class # "projected"
    /\ \A v, w \in Var :
         /\ InSmall(v) /\ InSmall(w) /\ Key(v) = Key(w) => v.data = w.data
         /\ InLarge(v) /\ InLarge(w) /\ Key(v) = Key(w) => v.data = w.data
         /\ OnDisk(v) /\ OnDisk(w) /\ CacheFile(v) = CacheFile(w) =>
              \A d, e \in Protocol : Content(v, d) = Content(w, e)

\* The invariant behind ServedIsData: every buffer holds the data of all the
\* variables that would take it, and every file is the one they would write.
CachesHoldData ==
    \A v \in Var :
      /\ InSmall(v) /\ Key(v) \in DOMAIN srdata => srdata[Key(v)] = v.data
      /\ InLarge(v) /\ Key(v) \in DOMAIN lrdata => lrdata[Key(v)] = v.data
      /\ OnDisk(v) /\ CacheFile(v) \in DOMAIN disk =>
           \A dap4 \in Protocol : disk[CacheFile(v)] = Content(v, dap4)
=============================================================================
