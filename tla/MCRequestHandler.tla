-------------------------- MODULE MCRequestHandler --------------------------
(***************************************************************************)
(* Instances of RequestHandler for TLC: which files, names and BES keys.   *)
(***************************************************************************)
EXTENDS RequestHandler, TLC

CONSTANTS f1, f2, n1, n2

\* The settings in which exactly the keys in on are true.
Keyed(on) == [k \in Keys |-> k \in on]

\* /a/x.h5 and /a/y.h5: two names.
TwoNames == f1 :> n1 @@ f2 :> n2

\* DAP2 with every metadata cache, CF and default option.
DiskConfigs == {Keyed(on \cup {"mdcache", "disk_meta_cache", "dmr_long_int"}) :
                  on \in {{}, {"usecf"}, {"usecf", "disk_dds_cache"}}}

\* The DMR made from DDS and DAS, made directly, and the default option, with
\* and without memory caches.  With EnablePassFileID, the DMR made from DDS and
\* DAS comes without 64-bit integers.
DmrConfigs ==
    {Keyed({"usecf", "pass_fileid", "mdcache"})} \cup
    {Keyed(on \cup opt) :
       on \in {{}, {"usecf"}, {"usecf", "usecfdmr"}, {"usecf", "usecfdmr", "pass_fileid"}},
       opt \in {{"mdcache", "dmr_long_int"}, {"mdcache"}, {"dmr_long_int"}}}

AllFaults == Stages
ReadFaults == {"open", "read", "semantics", "ancillary", "build"}
=============================================================================
