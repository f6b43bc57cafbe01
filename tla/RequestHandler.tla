--------------------------- MODULE RequestHandler ---------------------------
(***************************************************************************)
(* The metadata services of HDF5RequestHandler.cc in one BES process: the  *)
(* DAS, DDS, DataDDS and DMR handlers, the four metadata memory caches,    *)
(* the two metadata cache files, the static pointer dmr_int64 that tells   *)
(* the CF generators where 64-bit integers go, and the HDF5 file id a      *)
(* response may own.                                                       *)
(*                                                                         *)
(* A BES process serves one request at a time, so a handler is one atomic  *)
(* action that may stop at any of the places where it can throw (its       *)
(* "fault").  Between two handlers the response is destroyed, a file may   *)
(* be replaced, and the process may be restarted.                          *)
(*                                                                         *)
(* A definition called Mutant<D> is D with a plausible bug; no other       *)
(* definition uses it.  Each shows that some property below notices the    *)
(* bug (PROJECT.json, mutants).                                            *)
(***************************************************************************)
EXTENDS Naturals

CONSTANTS
    File,         \* the HDF5 files, by full path
    Name,         \* file names without a directory
    BaseName,     \* obtain_string_after_lastslash, from File to Name
    MaxVersion,   \* bound: how often a file is replaced
    Configs,      \* the settings of the BES keys the process may run under
    Faults,       \* where a handler may fail in the run at hand
    Absent,       \* no value: a NULL pointer, a missing cache entry or file
    Garbled       \* the content of an incompletely written cache file

Keys == {"usecf", "usecfdmr", "pass_fileid", "dmr_long_int", "mdcache",
         "disk_meta_cache", "disk_dds_cache"}

Stages == {"open", "read", "semantics", "ancillary", "build", "write", "flush"}

ASSUME BaseNameAssumption == BaseName \in [File -> Name]
ASSUME MaxVersionAssumption == MaxVersion \in Nat
ASSUME ConfigsAssumption == Configs \subseteq [Keys -> BOOLEAN]
ASSUME FaultsAssumption == Faults \subseteq Stages

Version == 0 .. MaxVersion

\* Metadata objects, reduced to where they come from.  A DDS carries the DAS
\* whose attributes were transferred to it, a DMR whether the 64-bit integer
\* objects of the file are in it.
Das == [file : File, ver : Version]
Dds == [file : File, ver : Version, das : Das \cup {Garbled, Absent}]
Dmr == [file : File, ver : Version, int64 : BOOLEAN]

VARIABLES
    cfg,            \* the static BES key values, read once by load_config()
    ver,            \* the version of each file on disk
    das_cache, dds_cache, datadds_cache, dmr_cache,  \* ObjMemCache by path
    das_file, dds_file,   \* <name>_das, <name>_dds in the metadata cache dir
    dmr_int64,      \* the static DMR pointer: NULL, the DMR of the response
                    \* being built or held, or a DMR already destroyed
    resp            \* the response object of the current request

caches == <<das_cache, dds_cache, datadds_cache, dmr_cache>>
files  == <<das_file, dds_file>>
vars   == <<cfg, ver, caches, files, dmr_int64, resp>>

-----------------------------------------------------------------------------
\* A response.  int64 records what the CF generators found in dmr_int64 when
\* they met a 64-bit integer object ("unused" if they did not look); fd is
\* what became of the HDF5 file id that was opened: closed or never opened
\* ("none"), never closed ("leaked"), to be closed by the destructor of the
\* DDS or DMR ("owned"), or closed although that destructor will close it
\* again ("stale").
Response ==
    [kind : {"das", "dds", "data", "dmr"}, file : File, ok : BOOLEAN,
     das : Das \cup {Garbled, Absent}, dds : Dds \cup {Absent},
     dmr : Dmr \cup {Absent}, ia : BOOLEAN,
     int64 : {"unused", "null", "live", "freed"},
     fd : {"none", "leaked", "owned", "stale"}]

ASSUME SentinelAssumption ==
    /\ Absent # Garbled
    /\ {Absent, Garbled} \cap (Das \cup Dds \cup Dmr \cup Response) = {}

Blank(kind, f) ==
    [kind |-> kind, file |-> f, ok |-> TRUE, das |-> Absent, dds |-> Absent,
     dmr |-> Absent, ia |-> TRUE, int64 |-> "unused", fd |-> "none"]

DasResponse(f, das, int64) == [Blank("das", f) EXCEPT !.das = das, !.int64 = int64]

DdsResponse(f, dds, int64) == [Blank("dds", f) EXCEPT !.dds = dds, !.int64 = int64]

DataResponse(f, dds, ia, int64, fd) ==
    [Blank("data", f) EXCEPT !.dds = dds, !.ia = ia, !.int64 = int64, !.fd = fd]

DmrResponse(f, dmr, int64, fd) ==
    [Blank("dmr", f) EXCEPT !.dmr = dmr, !.int64 = int64, !.fd = fd]

Failed(kind, f, int64, fd) ==
    [Blank(kind, f) EXCEPT !.ok = FALSE, !.int64 = int64, !.fd = fd]

Idle == resp = Absent

\* What a CF generator finds in dmr_int64 when it meets a 64-bit integer
\* object; such objects are dropped beforehand unless EnableDMR64bitInt is on.
MutantConsult(ptr) == IF cfg["usecf"] /\ ~cfg["dmr_long_int"] THEN ptr ELSE "unused"
Consult(ptr) == IF cfg["usecf"] /\ cfg["dmr_long_int"] THEN ptr ELSE "unused"

\* dmr_int64 once a CF DAP2 handler has reset it.
MutantReset == dmr_int64
Reset == IF cfg["usecf"] THEN "null" ELSE dmr_int64

\* ObjMemCache.add: the entry is in the cache afterwards; an LRU purge may
\* have removed any of the others.
MutantAdded(cache, f, v) == IF cfg["mdcache"] THEN {[g \in File |-> v]} ELSE {cache}
Added(cache, f, v) ==
    IF cfg["mdcache"]
    THEN {[g \in File |-> IF g = f THEN v
                          ELSE IF g \in keep THEN cache[g] ELSE Absent] :
             keep \in SUBSET File}
    ELSE {cache}

FreshDas(f) == [file |-> f, ver |-> ver[f]]
FreshDds(f, das) == [file |-> f, ver |-> ver[f], das |-> das]

\* The DAS cache file of f is used when the key is on and access(F_OK)
\* succeeds; its name is built from the last path component only.
DasOnDisk(f) == cfg["disk_meta_cache"] /\ das_file[BaseName[f]] # Absent
DdsOnDisk(f) == /\ cfg["disk_meta_cache"]
                /\ cfg["disk_dds_cache"]
                /\ dds_file[BaseName[f]] # Absent

\* write_das_to_disk_cache and write_dds_to_disk_cache: a failure leaves the
\* file as it was (fopen fails) or truncated; a failing flush in fclose is
\* not noticed.
Written(file, n, v, fault) ==
    CASE fault = "write" -> {file, [file EXCEPT ![n] = Garbled]}
      [] fault = "flush" -> {[file EXCEPT ![n] = Garbled]}
      [] OTHER           -> {[file EXCEPT ![n] = v]}

Init ==
    /\ cfg \in Configs
    /\ ver = [f \in File |-> 0]
    /\ das_cache = [f \in File |-> Absent]
    /\ dds_cache = [f \in File |-> Absent]
    /\ datadds_cache = [f \in File |-> Absent]
    /\ dmr_cache = [f \in File |-> Absent]
    /\ das_file = [n \in Name |-> Absent]
    /\ dds_file = [n \in Name |-> Absent]
    /\ dmr_int64 = "null"
    /\ resp = Absent

-----------------------------------------------------------------------------
(***************************************************************************)
(* hdf5_build_das                                                          *)
(***************************************************************************)
DasFromMemory(f) ==
    /\ Idle
    /\ das_cache[f] # Absent
    /\ resp' = DasResponse(f, das_cache[f], "unused")
    /\ UNCHANGED <<cfg, ver, caches, files, dmr_int64>>

\* A truncated cache file either fails to parse or, since the parser does not
\* check the end of its buffer, yields whatever attributes it finds.
DasFromDisk(f) ==
    /\ Idle
    /\ das_cache[f] = Absent
    /\ DasOnDisk(f)
    /\ \/ /\ das_cache' \in Added(das_cache, f, das_file[BaseName[f]])
          /\ resp' = DasResponse(f, das_file[BaseName[f]], "unused")
       \/ /\ "read" \in Faults \/ das_file[BaseName[f]] = Garbled
          /\ resp' = Failed("das", f, "unused", "none")
          /\ UNCHANGED das_cache
    /\ UNCHANGED <<cfg, ver, dds_cache, datadds_cache, dmr_cache, files, dmr_int64>>

\* Only the CF branch resets dmr_int64; only the CF id is closed when the
\* reading throws.
DasFromFile(f, fault) ==
    /\ Idle
    /\ das_cache[f] = Absent
    /\ ~DasOnDisk(f)
    /\ fault \in {"none", "open", "read", "ancillary"}
                   \cup (IF cfg["disk_meta_cache"] THEN {"write", "flush"} ELSE {})
    /\ dmr_int64' = IF fault = "open" THEN dmr_int64 ELSE Reset
    /\ IF fault \in {"none", "write", "flush"}
       THEN das_cache' \in Added(das_cache, f, FreshDas(f))
       ELSE UNCHANGED das_cache
    /\ IF cfg["disk_meta_cache"] /\ fault \in {"none", "write", "flush"}
       THEN das_file' \in Written(das_file, BaseName[f], FreshDas(f), fault)
       ELSE UNCHANGED das_file
    /\ resp' =
         CASE fault \in {"none", "flush"} ->
                DasResponse(f, FreshDas(f), Consult(Reset))
           [] fault = "open" -> Failed("das", f, "unused", "none")
           [] fault = "read" -> Failed("das", f, Consult(Reset),
                                       IF cfg["usecf"] THEN "none" ELSE "leaked")
           [] OTHER -> Failed("das", f, Consult(Reset), "none")
    /\ UNCHANGED <<cfg, ver, dds_cache, datadds_cache, dmr_cache, dds_file>>

-----------------------------------------------------------------------------
(***************************************************************************)
(* add_das_to_dds, for a file id opened by the caller or not, when         *)
(* dmr_int64 is ptr.  o is how it ends: the DAS whose attributes were      *)
(* transferred (Absent if it threw), what the generator found in           *)
(* dmr_int64, and whether a file id it opened itself was closed.           *)
(***************************************************************************)
Outcome == [das : Das \cup {Garbled, Absent}, int64 : {"unused", "null", "live", "freed"},
            fd : {"none", "leaked"}]

Ends(das, int64, fd) == [das |-> das, int64 |-> int64, fd |-> fd]

AddDasFromMemory(f, o) ==
    /\ das_cache[f] # Absent
    /\ o = Ends(das_cache[f], "unused", "none")
    /\ UNCHANGED <<das_cache, das_file>>

AddDasFromDisk(f, o) ==
    /\ das_cache[f] = Absent
    /\ DasOnDisk(f)
    /\ \/ /\ o = Ends(das_file[BaseName[f]], "unused", "none")
          /\ das_cache' \in Added(das_cache, f, das_file[BaseName[f]])
       \/ /\ "read" \in Faults \/ das_file[BaseName[f]] = Garbled
          /\ o = Ends(Absent, "unused", "none")
          /\ UNCHANGED das_cache
    /\ UNCHANGED das_file

\* The cache file is written before the memory copy is added.
AddDasFromFile(f, opened, ptr, fault, o) ==
    /\ das_cache[f] = Absent
    /\ ~DasOnDisk(f)
    /\ fault \in {"none", "read", "ancillary"}
                   \cup (IF opened THEN {} ELSE {"open"})
                   \cup (IF cfg["disk_meta_cache"] THEN {"write", "flush"} ELSE {})
    /\ o = Ends(IF fault \in {"none", "flush"} THEN FreshDas(f) ELSE Absent,
                IF fault = "open" THEN "unused" ELSE Consult(ptr),
                IF fault = "read" /\ ~opened THEN "leaked" ELSE "none")
    /\ IF fault \in {"none", "flush"}
       THEN das_cache' \in Added(das_cache, f, FreshDas(f))
       ELSE UNCHANGED das_cache
    /\ IF cfg["disk_meta_cache"] /\ fault \in {"none", "write", "flush"}
       THEN das_file' \in Written(das_file, BaseName[f], FreshDas(f), fault)
       ELSE UNCHANGED das_file

MutantAddDas(f, opened, ptr, o) ==
    \/ AddDasFromMemory(f, o)
    \/ /\ das_cache[f] = Absent
       /\ o = Ends(FreshDas(f), Consult(ptr), "none")
       /\ das_cache' \in Added(das_cache, f, FreshDas(f))
       /\ das_file' \in Written(das_file, BaseName[f], FreshDas(f), "none")

AddDas(f, opened, ptr, o) ==
    \/ AddDasFromMemory(f, o)
    \/ AddDasFromDisk(f, o)
    \/ \E fault \in Faults \cup {"none"} : AddDasFromFile(f, opened, ptr, fault, o)

(***************************************************************************)
(* hdf5_build_dds and get_dds_with_attributes                              *)
(***************************************************************************)
MutantDdsFromMemory(f) ==
    /\ Idle
    /\ datadds_cache[f] # Absent
    /\ resp' = DdsResponse(f, datadds_cache[f], "unused")
    /\ UNCHANGED <<cfg, ver, caches, files, dmr_int64>>

DdsFromMemory(f) ==
    /\ Idle
    /\ dds_cache[f] # Absent
    /\ resp' = DdsResponse(f, dds_cache[f], "unused")
    /\ UNCHANGED <<cfg, ver, caches, files, dmr_int64>>

\* read_dds_from_disk_cache; dmr_int64 is not reset on this path.
DdsFromDisk(f) ==
    /\ Idle
    /\ dds_cache[f] = Absent
    /\ DdsOnDisk(f)
    /\ \/ /\ dds_file[BaseName[f]] # Garbled
          /\ \E o \in Outcome :
               LET dds == [dds_file[BaseName[f]] EXCEPT !.das = o.das]
               IN /\ AddDas(f, FALSE, dmr_int64, o)
                  /\ IF o.das # Absent
                     THEN /\ dds_cache' \in Added(dds_cache, f, dds)
                          /\ resp' = DdsResponse(f, dds, o.int64)
                     ELSE /\ UNCHANGED dds_cache
                          /\ resp' = Failed("dds", f, o.int64, o.fd)
       \/ /\ "ancillary" \in Faults \/ dds_file[BaseName[f]] = Garbled
          /\ resp' = Failed("dds", f, "unused", "none")
          /\ UNCHANGED <<das_cache, dds_cache, das_file>>
    /\ UNCHANGED <<cfg, ver, datadds_cache, dmr_cache, dds_file, dmr_int64>>

\* The part before the attributes failed: nothing is cached, the id closed.
DdsFromFileFails(f, fault) ==
    /\ Idle
    /\ dds_cache[f] = Absent
    /\ ~DdsOnDisk(f)
    /\ fault \in {"open", "read", "semantics", "ancillary"}
                   \cup (IF cfg["disk_meta_cache"] /\ cfg["disk_dds_cache"]
                         THEN {"write"} ELSE {})
    /\ dmr_int64' = IF fault = "open" THEN dmr_int64 ELSE Reset
    /\ IF fault = "write"
       THEN dds_file' \in Written(dds_file, BaseName[f], FreshDds(f, Absent), fault)
       ELSE UNCHANGED dds_file
    /\ resp' = Failed("dds", f, IF fault = "open" THEN "unused" ELSE Consult(Reset), "none")
    /\ UNCHANGED <<cfg, ver, caches, das_file>>

\* The DDS is written to its cache file before the attributes are added.
DdsFromFile(f, fault) ==
    /\ Idle
    /\ dds_cache[f] = Absent
    /\ ~DdsOnDisk(f)
    /\ fault \in {"none", "flush"}
    /\ dmr_int64' = Reset
    /\ IF cfg["disk_meta_cache"] /\ cfg["disk_dds_cache"]
       THEN dds_file' \in Written(dds_file, BaseName[f], FreshDds(f, Absent), fault)
       ELSE UNCHANGED dds_file
    /\ \E o \in Outcome :
         /\ AddDas(f, TRUE, Reset, o)
         /\ IF o.das # Absent
            THEN /\ dds_cache' \in Added(dds_cache, f, FreshDds(f, o.das))
                 /\ resp' = DdsResponse(f, FreshDds(f, o.das), Consult(Reset))
            ELSE /\ UNCHANGED dds_cache
                 /\ resp' = Failed("dds", f, Consult(Reset), o.fd)
    /\ UNCHANGED <<cfg, ver, datadds_cache, dmr_cache>>

-----------------------------------------------------------------------------
(***************************************************************************)
(* hdf5_build_data with get_dds_without_attributes_datadds, add_attributes *)
(* and hdf5_build_data_with_IDs                                            *)
(***************************************************************************)
PassIDs == cfg["usecf"] /\ cfg["pass_fileid"]

DataFromMemory(f) ==
    /\ Idle
    /\ ~PassIDs
    /\ datadds_cache[f] # Absent
    /\ resp' = DataResponse(f, datadds_cache[f], FALSE, "unused", "none")
    /\ UNCHANGED <<cfg, ver, caches, files, dmr_int64>>

DataFromFile(f, fault) ==
    /\ Idle
    /\ ~PassIDs
    /\ datadds_cache[f] = Absent
    /\ fault \in {"none", "open", "read", "semantics", "ancillary"}
    /\ dmr_int64' = IF fault = "open" THEN dmr_int64 ELSE Reset
    /\ IF fault = "none"
       THEN /\ datadds_cache' \in Added(datadds_cache, f, FreshDds(f, Absent))
            /\ resp' = DataResponse(f, FreshDds(f, Absent), FALSE, Consult(Reset), "none")
       ELSE /\ resp' = Failed("data", f,
                              IF fault = "open" THEN "unused" ELSE Consult(Reset), "none")
            /\ UNCHANGED datadds_cache
    /\ UNCHANGED <<cfg, ver, das_cache, dds_cache, dmr_cache, files>>

\* Called by the BES on a DataDDS without attributes when the return format
\* needs them.  The disk cache is not looked at, dmr_int64 is not reset and
\* nothing closes the file id if the reading throws.
MutantAddAttributesFromMemory ==
    /\ resp # Absent
    /\ resp.kind = "data" /\ resp.ok /\ ~resp.ia
    /\ das_cache[resp.file] # Absent
    /\ resp' = [resp EXCEPT !.dds.das = das_cache[resp.file]]
    /\ UNCHANGED <<cfg, ver, caches, files, dmr_int64>>

AddAttributesFromMemory ==
    /\ resp # Absent
    /\ resp.kind = "data" /\ resp.ok /\ ~resp.ia
    /\ das_cache[resp.file] # Absent
    /\ resp' = [resp EXCEPT !.dds.das = das_cache[resp.file], !.ia = TRUE]
    /\ UNCHANGED <<cfg, ver, caches, files, dmr_int64>>

AddAttributesFromFile(fault) ==
    /\ resp # Absent
    /\ resp.kind = "data" /\ resp.ok /\ ~resp.ia
    /\ das_cache[resp.file] = Absent
    /\ fault \in {"none", "open", "read", "ancillary"}
    /\ IF fault = "none"
       THEN /\ das_cache' \in Added(das_cache, resp.file, FreshDas(resp.file))
            /\ resp' = [resp EXCEPT !.dds.das = FreshDas(resp.file), !.ia = TRUE,
                                    !.int64 = Consult(dmr_int64)]
       ELSE /\ resp' = [resp EXCEPT !.ok = FALSE,
                                    !.int64 = IF fault = "open" THEN @ ELSE Consult(dmr_int64),
                                    !.fd = IF fault = "read" THEN "leaked" ELSE "none"]
            /\ UNCHANGED das_cache
    /\ UNCHANGED <<cfg, ver, dds_cache, datadds_cache, dmr_cache, files, dmr_int64>>

\* The HDF5DDS owns the file id; on a failure the catch clauses close the id
\* that its destructor will close again.
DataWithIDs(f, fault) ==
    /\ Idle
    /\ PassIDs
    /\ fault \in {"none", "open", "read", "semantics", "ancillary"}
    /\ resp' =
         CASE fault = "none" ->
                DataResponse(f, FreshDds(f, FreshDas(f)), TRUE, Consult(dmr_int64), "owned")
           [] fault = "open" -> Failed("data", f, "unused", "none")
           [] OTHER -> Failed("data", f, Consult(dmr_int64), "stale")
    /\ UNCHANGED <<cfg, ver, caches, files, dmr_int64>>

-----------------------------------------------------------------------------
(***************************************************************************)
(* hdf5_build_dmr and hdf5_build_dmr_with_IDs                              *)
(***************************************************************************)
FreshDmr(f, int64) == [file |-> f, ver |-> ver[f], int64 |-> int64]

DmrFromMemory(f) ==
    /\ Idle
    /\ dmr_cache[f] # Absent
    /\ resp' = DmrResponse(f, dmr_cache[f], "unused", "none")
    /\ UNCHANGED <<cfg, ver, caches, files, dmr_int64>>

\* EnableCFDMR: read_cfdmr, an early return, so the DMR is never cached.
DmrDirect(f, fault) ==
    /\ Idle
    /\ dmr_cache[f] = Absent
    /\ cfg["usecf"] /\ cfg["usecfdmr"]
    /\ fault \in {"none", "open", "read"}
    /\ resp' = IF fault = "none"
               THEN DmrResponse(f, FreshDmr(f, TRUE), "unused", "none")
               ELSE Failed("dmr", f, "unused", "none")
    /\ UNCHANGED <<cfg, ver, caches, files, dmr_int64>>

\* The DMR made from DDS and DAS; dmr_int64 is set to it first and stays.
DmrFromDds(f, fault) ==
    /\ Idle
    /\ dmr_cache[f] = Absent
    /\ cfg["usecf"] /\ ~cfg["usecfdmr"] /\ ~cfg["pass_fileid"]
    /\ fault \in {"none", "open", "read", "semantics", "ancillary", "build"}
    /\ dmr_int64' = IF fault = "open" THEN dmr_int64 ELSE "live"
    /\ IF fault = "none"
       THEN /\ dmr_cache' \in Added(dmr_cache, f, FreshDmr(f, Consult("live") = "live"))
            /\ resp' = DmrResponse(f, FreshDmr(f, Consult("live") = "live"), Consult("live"), "none")
       ELSE /\ resp' = Failed("dmr", f,
                              IF fault = "open" THEN "unused" ELSE Consult("live"), "none")
            /\ UNCHANGED dmr_cache
    /\ UNCHANGED <<cfg, ver, das_cache, dds_cache, datadds_cache, files>>

\* What becomes of the file id of a DMR built with it.
MutantDmrId(fault) == IF fault = "none" THEN "stale" ELSE "none"
DmrId(fault) ==
    CASE fault = "none"  -> "owned"
      [] fault = "build" -> "leaked"
      [] OTHER           -> "none"

\* The same with the file id passed on; dmr_int64 is not set, and no catch
\* clause covers build_using_dds.
DmrWithIDs(f, fault) ==
    /\ Idle
    /\ dmr_cache[f] = Absent
    /\ cfg["usecf"] /\ ~cfg["usecfdmr"] /\ cfg["pass_fileid"]
    /\ fault \in {"none", "open", "read", "semantics", "ancillary", "build"}
    /\ resp' =
         CASE fault = "none" ->
                DmrResponse(f, FreshDmr(f, Consult(dmr_int64) = "live"), Consult(dmr_int64),
                            DmrId(fault))
           [] fault = "open" -> Failed("dmr", f, "unused", DmrId(fault))
           [] OTHER -> Failed("dmr", f, Consult(dmr_int64), DmrId(fault))
    /\ UNCHANGED <<cfg, ver, caches, files, dmr_int64>>

\* EnableCF off: breadth_first.
DmrDefault(f, fault) ==
    /\ Idle
    /\ dmr_cache[f] = Absent
    /\ ~cfg["usecf"]
    /\ fault \in {"none", "open", "read"}
    /\ IF fault = "none"
       THEN /\ dmr_cache' \in Added(dmr_cache, f, FreshDmr(f, TRUE))
            /\ resp' = DmrResponse(f, FreshDmr(f, TRUE), "unused", "none")
       ELSE /\ resp' = Failed("dmr", f, "unused", "none")
            /\ UNCHANGED dmr_cache
    /\ UNCHANGED <<cfg, ver, das_cache, dds_cache, datadds_cache, files, dmr_int64>>

-----------------------------------------------------------------------------
\* The BES destroys the response object: an owned id is closed, and the DMR
\* that dmr_int64 points to is gone.
Release ==
    /\ resp # Absent
    /\ resp' = Absent
    /\ dmr_int64' = IF dmr_int64 = "live" THEN "freed" ELSE dmr_int64
    /\ UNCHANGED <<cfg, ver, caches, files>>

\* The data provider replaces a file.
ReplaceFile(f) ==
    /\ ver[f] < MaxVersion
    /\ ver' = [ver EXCEPT ![f] = @ + 1]
    /\ UNCHANGED <<cfg, caches, files, dmr_int64, resp>>

\* The process ends, in a request or between two, and another starts with the
\* same keys and the same cache directory.
Restart ==
    /\ das_cache' = [f \in File |-> Absent]
    /\ dds_cache' = [f \in File |-> Absent]
    /\ datadds_cache' = [f \in File |-> Absent]
    /\ dmr_cache' = [f \in File |-> Absent]
    /\ dmr_int64' = "null"
    /\ resp' = Absent
    /\ UNCHANGED <<cfg, ver, files>>

Fault == Faults \cup {"none"}

Next ==
    \/ \E f \in File :
         \/ DasFromMemory(f)
         \/ DasFromDisk(f)
         \/ \E fault \in Fault : DasFromFile(f, fault)
         \/ DdsFromMemory(f)
         \/ DdsFromDisk(f)
         \/ \E fault \in Fault : DdsFromFileFails(f, fault)
         \/ \E fault \in Fault : DdsFromFile(f, fault)
         \/ DataFromMemory(f)
         \/ \E fault \in Fault : DataFromFile(f, fault)
         \/ \E fault \in Fault : DataWithIDs(f, fault)
         \/ DmrFromMemory(f)
         \/ \E fault \in Fault : DmrDirect(f, fault)
         \/ \E fault \in Fault : DmrFromDds(f, fault)
         \/ \E fault \in Fault : DmrWithIDs(f, fault)
         \/ \E fault \in Fault : DmrDefault(f, fault)
         \/ ReplaceFile(f)
    \/ AddAttributesFromMemory
    \/ \E fault \in Fault : AddAttributesFromFile(fault)
    \/ Release
    \/ Restart

Spec == Init /\ [][Next]_vars

-----------------------------------------------------------------------------
(***************************************************************************)
(* Properties                                                              *)
(***************************************************************************)

\* Every variable keeps to its type: the caches hold metadata objects or
\* nothing, and dmr_int64 is one of NULL, the current DMR, a destroyed DMR.
TypeOK ==
    /\ cfg \in Configs
    /\ ver \in [File -> Version]
    /\ das_cache \in [File -> Das \cup {Garbled, Absent}]
    /\ dds_cache \in [File -> Dds \cup {Absent}]
    /\ datadds_cache \in [File -> Dds \cup {Absent}]
    /\ dmr_cache \in [File -> Dmr \cup {Absent}]
    /\ das_file \in [Name -> Das \cup {Garbled, Absent}]
    /\ dds_file \in [Name -> Dds \cup {Garbled, Absent}]
    /\ dmr_int64 \in {"null", "live", "freed"}
    /\ resp \in Response \cup {Absent}

\* d is nothing, unreadable, or metadata of f.
Of(d, f) == d \in {Absent, Garbled} \/ d.file = f

\* A successful response holds metadata of the file that was asked for, along
\* every path: memory cache, cache file, or the HDF5 library.
ResponseOfRequestedFile ==
    resp # Absent /\ resp.ok =>
        /\ Of(resp.das, resp.file)
        /\ Of(resp.dds, resp.file)
        /\ resp.dds # Absent => Of(resp.dds.das, resp.file)
        /\ Of(resp.dmr, resp.file)

\* "Assume that any cached DDS includes the DAS information"
\* (get_dds_with_attributes): a DDS response always carries attributes, so no
\* DDS without them ever enters dds_cache.
DDSIncludesDAS ==
    resp # Absent /\ resp.ok /\ resp.kind = "dds" => resp.dds.das # Absent

\* The include-attribute flag of a DataDDS tells the truth: it is what the BES
\* uses to decide whether add_attributes has to be called, so a DDS with
\* attributes in datadds_cache would get them twice and one flagged by mistake
\* never.
IncludeAttributesFlag ==
    resp # Absent /\ resp.ok /\ resp.kind = "data" => (resp.ia <=> resp.dds.das # Absent)

\* 64-bit integers are diverted into a DMR only for a DMR response, and then
\* into the one being built.  A DAP2 response finds dmr_int64 NULL, except on
\* the two paths that do not reset it: attributes added to a DataDDS later,
\* and a DDS read from its cache file.
MappingTarget ==
    resp # Absent =>
        CASE resp.kind = "dmr" -> resp.int64 # "freed"
          [] resp.kind = "das" -> resp.int64 \in {"unused", "null"}
          [] resp.kind = "dds" -> \/ resp.int64 \in {"unused", "null"}
                                  \/ cfg["disk_dds_cache"]
          [] resp.kind = "data" -> \/ resp.int64 \in {"unused", "null"}
                                   \/ ~PassIDs /\ (resp.ia \/ ~resp.ok)

\* "Turning the key to true will enable the 64-bit integer support in the DMR
\* output" (h5.conf.in, EnableDMR64bitInt): with the key on, and always when
\* the DMR is not made from the DDS, a DMR response has the 64-bit objects.
DMRHas64BitIntegers ==
    resp # Absent /\ resp.ok /\ resp.kind = "dmr" /\ cfg["dmr_long_int"] => resp.dmr.int64

\* A usable response built with EnablePassFileID owns an open file id, which
\* its variables read through; every other usable response left none open.
HandleOwnership ==
    resp # Absent /\ resp.ok =>
        resp.fd = IF PassIDs /\ (resp.kind = "data" \/ (resp.kind = "dmr" /\ ~cfg["usecfdmr"]))
                  THEN "owned" ELSE "none"

\* A DAS cache file, once there, is never written again by a handler: DAS, DDS
\* and DataDDS requests agree on when it is to be read.  A truncated one
\* therefore stays, too.
DASFileWrittenOnce ==
    [][\A n \in Name : das_file[n] # Absent => das_file'[n] = das_file[n]]_vars

-----------------------------------------------------------------------------
(***************************************************************************)
(* The inductive invariant behind these properties: what the caches hold   *)
(* and when dmr_int64 can be set at all.                                   *)
(***************************************************************************)

\* dds_cache has only DDSes with attributes, datadds_cache only ones without,
\* and dmr_cache nothing when a DMR owns a file id.
CacheContents ==
    /\ \A f \in File : dds_cache[f] # Absent => dds_cache[f].das # Absent
    /\ \A f \in File : datadds_cache[f] # Absent => datadds_cache[f].das = Absent
    /\ cfg["usecf"] /\ cfg["pass_fileid"] => \A f \in File : dmr_cache[f] = Absent

\* Only DmrFromDds sets dmr_int64, and a DMR response is all it points to.
PointerInv ==
    /\ dmr_int64 # "null" => cfg["usecf"] /\ ~cfg["usecfdmr"] /\ ~cfg["pass_fileid"]
    /\ dmr_int64 = "live" => resp # Absent /\ resp.kind = "dmr"

\* A usable DDS or DataDDS response has a DDS.
ResponseHasDds ==
    resp # Absent /\ resp.ok /\ resp.kind \in {"dds", "data"} => resp.dds # Absent

IInv == /\ TypeOK /\ ResponseHasDds
        /\ CacheContents /\ PointerInv
        /\ DDSIncludesDAS /\ IncludeAttributesFlag /\ MappingTarget /\ HandleOwnership

\* What the caches and cache files hold when no two files share a name:
\* metadata of the file they hold it for.
CacheOf(c) == \A f \in File : Of(c[f], f)
AttributesOf(c) == \A f \in File : c[f] # Absent => Of(c[f].das, f)
FileOf(w) == \A f \in File : Of(w[BaseName[f]], f)

ContentsOfFile ==
    /\ CacheOf(das_cache) /\ CacheOf(dds_cache) /\ AttributesOf(dds_cache)
    /\ CacheOf(datadds_cache) /\ CacheOf(dmr_cache)
    /\ FileOf(das_file) /\ FileOf(dds_file)
=============================================================================
