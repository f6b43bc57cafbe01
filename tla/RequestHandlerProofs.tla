------------------------ MODULE RequestHandlerProofs ------------------------
(***************************************************************************)
(* Theorems about RequestHandler, for every set of files and names, every  *)
(* set of configurations and faults and every number of replacements.      *)
(***************************************************************************)
EXTENDS RequestHandler, TLAPS

-----------------------------------------------------------------------------
(***************************************************************************)
(* Type correctness                                                        *)
(***************************************************************************)

\* Adding to a memory cache and writing a cache file keep the type of the
\* cache.
LEMMA AddedType ==
    ASSUME NEW S, NEW c \in [File -> S], Absent \in S,
           NEW f \in File, NEW v \in S
    PROVE  Added(c, f, v) \subseteq [File -> S]
  BY DEF Added

\* A file that is written, wholly or in part, keeps the type of the files.
LEMMA WrittenType ==
    ASSUME NEW S, NEW c \in [Name -> S], Garbled \in S,
           NEW n \in Name, NEW v \in S, NEW fault
    PROVE  Written(c, n, v, fault) \subseteq [Name -> S]
  BY DEF Written

\* What the model calls fresh metadata is metadata.
LEMMA FreshType ==
    ASSUME ver \in [File -> Version], NEW f \in File
    PROVE  /\ FreshDas(f) \in Das
           /\ \A d \in Das \cup {Garbled, Absent} : FreshDds(f, d) \in Dds
           /\ \A b \in BOOLEAN : FreshDmr(f, b) \in Dmr
  BY DEF FreshDas, FreshDds, FreshDmr, Das, Dds, Dmr

\* The values of dmr_int64.
Pointer == {"null", "live", "freed"}

\* What a response finds when it consults dmr_int64.
LEMMA ConsultType ==
    ASSUME NEW ptr \in Pointer
    PROVE  Consult(ptr) \in {"unused"} \cup Pointer
  BY DEF Consult

\* A reset of dmr_int64 keeps its type.
LEMMA ResetType ==
    ASSUME dmr_int64 \in Pointer
    PROVE  Reset \in Pointer
  BY DEF Reset, Pointer

\* However add_das_to_dds ends, the DAS cache and the DAS cache files keep
\* their types.
LEMMA AddDasType ==
    ASSUME TypeOK, NEW f \in File, NEW opened, NEW ptr \in Pointer,
           NEW o \in Outcome, AddDas(f, opened, ptr, o)
    PROVE  /\ das_cache' \in [File -> Das \cup {Garbled, Absent}]
           /\ das_file' \in [Name -> Das \cup {Garbled, Absent}]
<1> DEFINE D == Das \cup {Garbled, Absent}
<1>1. /\ das_cache \in [File -> D] /\ das_file \in [Name -> D]
      /\ BaseName[f] \in Name /\ FreshDas(f) \in D
      /\ das_file[BaseName[f]] \in D
  BY BaseNameAssumption, FreshType DEF TypeOK
<1>2. Absent \in D /\ Garbled \in D
  OBVIOUS
<1> SUFFICES das_cache' \in [File -> D] /\ das_file' \in [Name -> D]
  OBVIOUS
<1> HIDE DEF D
<1>3. CASE AddDasFromMemory(f, o)
  BY <1>1, <1>3 DEF AddDasFromMemory
<1>4. CASE AddDasFromDisk(f, o)
  BY <1>1, <1>2, <1>4, AddedType DEF AddDasFromDisk
<1>5. ASSUME NEW fault, AddDasFromFile(f, opened, ptr, fault, o)
      PROVE  das_cache' \in [File -> D] /\ das_file' \in [Name -> D]
  BY <1>1, <1>2, <1>5, AddedType, WrittenType DEF AddDasFromFile
<1> QED BY <1>3, <1>4, <1>5 DEF AddDas

\* Responses as the handlers make them are well typed.
LEMMA ResponseType ==
    ASSUME NEW f \in File, NEW int64 \in {"unused"} \cup Pointer
    PROVE  /\ \A das \in Das \cup {Garbled, Absent} : DasResponse(f, das, int64) \in Response
           /\ \A dds \in Dds : DdsResponse(f, dds, int64) \in Response
           /\ \A dds \in Dds, ia \in BOOLEAN, fd \in {"none", "owned"} :
                DataResponse(f, dds, ia, int64, fd) \in Response
           /\ \A dmr \in Dmr, fd \in {"none", "owned", "leaked"} :
                DmrResponse(f, dmr, int64, fd) \in Response
           /\ \A kind \in {"das", "dds", "data", "dmr"}, fd \in {"none", "leaked", "stale"} :
                Failed(kind, f, int64, fd) \in Response
<1> USE DEF Response, Blank, Pointer
<1>1. ASSUME NEW das \in Das \cup {Garbled, Absent}
      PROVE  DasResponse(f, das, int64) \in Response
  BY DEF DasResponse
<1>2. ASSUME NEW dds \in Dds
      PROVE  DdsResponse(f, dds, int64) \in Response
  BY DEF DdsResponse
<1>3. ASSUME NEW dds \in Dds, NEW ia \in BOOLEAN, NEW fd \in {"none", "owned"}
      PROVE  DataResponse(f, dds, ia, int64, fd) \in Response
  BY DEF DataResponse
<1>4. ASSUME NEW dmr \in Dmr, NEW fd \in {"none", "owned", "leaked"}
      PROVE  DmrResponse(f, dmr, int64, fd) \in Response
  BY DEF DmrResponse
<1>5. ASSUME NEW kind \in {"das", "dds", "data", "dmr"}, NEW fd \in {"none", "leaked", "stale"}
      PROVE  Failed(kind, f, int64, fd) \in Response
  BY DEF Failed
<1> QED BY <1>1, <1>2, <1>3, <1>4, <1>5

\* The instances of AddedType and WrittenType that the actions need.
LEMMA UpdateType ==
    ASSUME TypeOK, NEW f \in File
    PROVE  /\ \A v \in Das \cup {Garbled, Absent} :
                Added(das_cache, f, v) \subseteq [File -> Das \cup {Garbled, Absent}]
           /\ \A v \in Dds : Added(dds_cache, f, v) \subseteq [File -> Dds \cup {Absent}]
           /\ \A v \in Dds : Added(datadds_cache, f, v) \subseteq [File -> Dds \cup {Absent}]
           /\ \A v \in Dmr : Added(dmr_cache, f, v) \subseteq [File -> Dmr \cup {Absent}]
           /\ \A v \in Das : \A fault :
                Written(das_file, BaseName[f], v, fault)
                  \subseteq [Name -> Das \cup {Garbled, Absent}]
           /\ \A v \in Dds : \A fault :
                Written(dds_file, BaseName[f], v, fault)
                  \subseteq [Name -> Dds \cup {Garbled, Absent}]
<1>1. ASSUME NEW S, NEW c \in [File -> S], Absent \in S
      PROVE  \A v \in S : Added(c, f, v) \subseteq [File -> S]
  BY <1>1, AddedType
<1>2. ASSUME NEW S, NEW c \in [Name -> S], Garbled \in S
      PROVE  \A v \in S : \A fault : Written(c, BaseName[f], v, fault) \subseteq [Name -> S]
  BY <1>2, WrittenType, BaseNameAssumption
<1>3. \A v \in Das \cup {Garbled, Absent} :
        Added(das_cache, f, v) \subseteq [File -> Das \cup {Garbled, Absent}]
  <2> DEFINE S == Das \cup {Garbled, Absent}
  <2>1. das_cache \in [File -> S] /\ Absent \in S
    BY DEF TypeOK
  <2> HIDE DEF S
  <2>2. \A v \in S : Added(das_cache, f, v) \subseteq [File -> S]
    BY <2>1, <1>1
  <2> QED BY <2>2 DEF S
<1>4. \A v \in Dds : Added(dds_cache, f, v) \subseteq [File -> Dds \cup {Absent}]
  <2> DEFINE S == Dds \cup {Absent}
  <2>1. dds_cache \in [File -> S] /\ Absent \in S
    BY DEF TypeOK
  <2> HIDE DEF S
  <2>2. \A v \in S : Added(dds_cache, f, v) \subseteq [File -> S]
    BY <2>1, <1>1
  <2> QED BY <2>2 DEF S
<1>5. \A v \in Dds : Added(datadds_cache, f, v) \subseteq [File -> Dds \cup {Absent}]
  <2> DEFINE S == Dds \cup {Absent}
  <2>1. datadds_cache \in [File -> S] /\ Absent \in S
    BY DEF TypeOK
  <2> HIDE DEF S
  <2>2. \A v \in S : Added(datadds_cache, f, v) \subseteq [File -> S]
    BY <2>1, <1>1
  <2> QED BY <2>2 DEF S
<1>6. \A v \in Dmr : Added(dmr_cache, f, v) \subseteq [File -> Dmr \cup {Absent}]
  <2> DEFINE S == Dmr \cup {Absent}
  <2>1. dmr_cache \in [File -> S] /\ Absent \in S
    BY DEF TypeOK
  <2> HIDE DEF S
  <2>2. \A v \in S : Added(dmr_cache, f, v) \subseteq [File -> S]
    BY <2>1, <1>1
  <2> QED BY <2>2 DEF S
<1>7. \A v \in Das : \A fault : Written(das_file, BaseName[f], v, fault)
                              \subseteq [Name -> Das \cup {Garbled, Absent}]
  <2> DEFINE S == Das \cup {Garbled, Absent}
  <2>1. das_file \in [Name -> S] /\ Garbled \in S
    BY DEF TypeOK
  <2> HIDE DEF S
  <2>2. \A v \in S : \A fault : Written(das_file, BaseName[f], v, fault) \subseteq [Name -> S]
    BY <2>1, <1>2
  <2> QED BY <2>2 DEF S
<1>8. \A v \in Dds : \A fault : Written(dds_file, BaseName[f], v, fault)
                              \subseteq [Name -> Dds \cup {Garbled, Absent}]
  <2> DEFINE S == Dds \cup {Garbled, Absent}
  <2>1. dds_file \in [Name -> S] /\ Garbled \in S
    BY DEF TypeOK
  <2> HIDE DEF S
  <2>2. \A v \in S : \A fault : Written(dds_file, BaseName[f], v, fault) \subseteq [Name -> S]
    BY <2>1, <1>2
  <2> QED BY <2>2 DEF S
<1> QED BY <1>3, <1>4, <1>5, <1>6, <1>7, <1>8

\* Every step keeps the types, provided a usable DDS response has a DDS.
LEMMA TypeStep ==
    ASSUME TypeOK, ResponseHasDds, [Next]_vars
    PROVE  TypeOK'
<1>0. ASSUME NEW f \in File
      PROVE  /\ BaseName[f] \in Name
             /\ FreshDas(f) \in Das
             /\ \A d \in Das \cup {Garbled, Absent} : FreshDds(f, d) \in Dds
             /\ \A b \in BOOLEAN : FreshDmr(f, b) \in Dmr
             /\ Reset \in Pointer /\ dmr_int64 \in Pointer
             /\ \A ptr \in Pointer : Consult(ptr) \in {"unused"} \cup Pointer
  BY BaseNameAssumption, FreshType, ResetType, ConsultType DEF TypeOK, Pointer
<1>1. ASSUME NEW f \in File, DasFromMemory(f) PROVE TypeOK'
  <2>0. das_cache[f] \in Das \cup {Garbled, Absent}
    BY <1>0 DEF TypeOK
  <2>1. resp' \in Response
    BY <2>0, <1>1, ResponseType DEF DasFromMemory
  <2> QED BY <1>1, <2>1 DEF DasFromMemory, TypeOK, caches, files
<1>2. ASSUME NEW f \in File, DasFromDisk(f) PROVE TypeOK'
  <2>0. das_file[BaseName[f]] \in Das \cup {Garbled, Absent}
    BY <1>0 DEF TypeOK
  <2>1. resp' \in Response
    BY <2>0, <1>2, ResponseType DEF DasFromDisk
  <2>2. das_cache' \in [File -> Das \cup {Garbled, Absent}]
    BY <1>0, <1>2, UpdateType DEF DasFromDisk, TypeOK, Pointer
  <2> QED BY <1>2, <2>1, <2>2 DEF DasFromDisk, TypeOK, Pointer, files
<1>3. ASSUME NEW f \in File, NEW fault, DasFromFile(f, fault) PROVE TypeOK'
  <2>0. FreshDas(f) \in Das /\ Consult(Reset) \in {"unused"} \cup Pointer
    BY <1>0 DEF Pointer
  <2>1. resp' \in Response
    BY <2>0, <1>3, ResponseType DEF DasFromFile
  <2>2. /\ das_cache' \in [File -> Das \cup {Garbled, Absent}]
        /\ das_file' \in [Name -> Das \cup {Garbled, Absent}]
        /\ dmr_int64' \in Pointer
    BY <1>0, <1>3, UpdateType DEF DasFromFile, TypeOK, Pointer
  <2> QED BY <1>3, <2>1, <2>2 DEF DasFromFile, TypeOK, Pointer
<1>4. ASSUME NEW f \in File, DdsFromMemory(f) PROVE TypeOK'
  <2>0. dds_cache[f] \in Dds \cup {Absent}
    BY <1>0 DEF TypeOK
  <2>1. resp' \in Response
    BY <2>0, <1>4, ResponseType DEF DdsFromMemory
  <2> QED BY <1>4, <2>1 DEF DdsFromMemory, TypeOK, caches, files
<1>5. ASSUME NEW f \in File, DdsFromDisk(f) PROVE TypeOK'
  <2>1. dds_file[BaseName[f]] \in Dds \cup {Garbled, Absent}
    BY <1>0 DEF TypeOK
  <2>2. ASSUME NEW o \in Outcome, AddDas(f, FALSE, dmr_int64, o),
               dds_file[BaseName[f]] \notin {Garbled, Absent},
               IF o.das # Absent
               THEN /\ dds_cache' \in Added(dds_cache, f, [dds_file[BaseName[f]] EXCEPT !.das = o.das])
                    /\ resp' = DdsResponse(f, [dds_file[BaseName[f]] EXCEPT !.das = o.das], o.int64)
               ELSE /\ UNCHANGED dds_cache
                    /\ resp' = Failed("dds", f, o.int64, o.fd)
        PROVE  TypeOK'
    <3>1. [dds_file[BaseName[f]] EXCEPT !.das = o.das] \in Dds
      BY <2>1, <2>2 DEF Dds, Outcome
    <3>2. dds_cache' \in [File -> Dds \cup {Absent}]
      BY <2>2, <3>1, UpdateType DEF TypeOK
    <3>3. o.int64 \in {"unused"} \cup Pointer /\ o.fd \in {"none", "leaked"}
      BY DEF Outcome, Pointer
    <3>5. resp' \in Response
      BY <2>2, <3>1, <3>3, ResponseType
    <3>4. /\ das_cache' \in [File -> Das \cup {Garbled, Absent}]
          /\ das_file' \in [Name -> Das \cup {Garbled, Absent}]
      BY <1>0, <2>2, AddDasType
    <3> QED BY <1>5, <3>2, <3>4, <3>5 DEF DdsFromDisk, TypeOK
  <2>3. ASSUME resp' = Failed("dds", f, "unused", "none"),
               UNCHANGED <<das_cache, dds_cache, das_file>>
        PROVE  TypeOK'
    <3>1. resp' \in Response
      BY <2>3, ResponseType
    <3> QED BY <1>5, <2>3, <3>1 DEF DdsFromDisk, TypeOK
  <2> QED BY <1>5, <2>2, <2>3 DEF DdsFromDisk, DdsOnDisk
<1>6. ASSUME NEW f \in File, NEW fault, DdsFromFileFails(f, fault) PROVE TypeOK'
  <2>0. Consult(Reset) \in {"unused"} \cup Pointer
    BY <1>0 DEF Pointer
  <2>1. resp' \in Response
    BY <2>0, <1>6, ResponseType DEF DdsFromFileFails
  <2>2. /\ dds_file' \in [Name -> Dds \cup {Garbled, Absent}]
        /\ dmr_int64' \in Pointer
    BY <1>0, <1>6, UpdateType DEF DdsFromFileFails, TypeOK, Pointer
  <2> QED BY <1>6, <2>1, <2>2 DEF DdsFromFileFails, TypeOK, Pointer, caches
<1>7. ASSUME NEW f \in File, NEW fault, DdsFromFile(f, fault) PROVE TypeOK'
  <2>1. PICK o \in Outcome :
           /\ AddDas(f, TRUE, Reset, o)
           /\ IF o.das # Absent
              THEN /\ dds_cache' \in Added(dds_cache, f, FreshDds(f, o.das))
                   /\ resp' = DdsResponse(f, FreshDds(f, o.das), Consult(Reset))
              ELSE /\ UNCHANGED dds_cache
                   /\ resp' = Failed("dds", f, Consult(Reset), o.fd)
    BY <1>7 DEF DdsFromFile
  <2>2. FreshDds(f, o.das) \in Dds /\ FreshDds(f, Absent) \in Dds
    BY <1>0 DEF Outcome
  <2>3. dds_cache' \in [File -> Dds \cup {Absent}]
    BY <2>1, <2>2, UpdateType DEF TypeOK
  <2>7. Consult(Reset) \in {"unused"} \cup Pointer /\ o.fd \in {"none", "leaked"}
    BY <1>0 DEF Outcome
  <2>4. resp' \in Response
    BY <2>1, <2>2, <2>7, ResponseType
  <2>5. /\ das_cache' \in [File -> Das \cup {Garbled, Absent}]
        /\ das_file' \in [Name -> Das \cup {Garbled, Absent}]
    BY <1>0, <2>1, AddDasType
  <2>6. dds_file' \in [Name -> Dds \cup {Garbled, Absent}] /\ dmr_int64' \in Pointer
    BY <1>0, <1>7, <2>2, UpdateType DEF DdsFromFile, TypeOK
  <2> QED BY <1>7, <2>3, <2>4, <2>5, <2>6 DEF DdsFromFile, TypeOK, Pointer
<1>8. ASSUME NEW f \in File, DataFromMemory(f) PROVE TypeOK'
  <2>0. datadds_cache[f] \in Dds \cup {Absent}
    BY <1>0 DEF TypeOK
  <2>1. resp' \in Response
    BY <2>0, <1>8, ResponseType DEF DataFromMemory
  <2> QED BY <1>8, <2>1 DEF DataFromMemory, TypeOK, caches, files
<1>9. ASSUME NEW f \in File, NEW fault, DataFromFile(f, fault) PROVE TypeOK'
  <2>0. FreshDds(f, Absent) \in Dds /\ Consult(Reset) \in {"unused"} \cup Pointer
    BY <1>0 DEF Pointer
  <2>1. resp' \in Response
    BY <2>0, <1>9, ResponseType DEF DataFromFile
  <2>2. /\ datadds_cache' \in [File -> Dds \cup {Absent}]
        /\ dmr_int64' \in Pointer
    BY <1>0, <1>9, UpdateType DEF DataFromFile, TypeOK, Pointer
  <2> QED BY <1>9, <2>1, <2>2 DEF DataFromFile, TypeOK, Pointer, files
<1>10. ASSUME NEW f \in File, NEW fault, DataWithIDs(f, fault) PROVE TypeOK'
  <2>0. FreshDds(f, FreshDas(f)) \in Dds /\ Consult(dmr_int64) \in {"unused"} \cup Pointer
    BY <1>0 DEF Pointer
  <2>1. resp' \in Response
    BY <2>0, <1>10, ResponseType DEF DataWithIDs
  <2> QED BY <1>10, <2>1 DEF DataWithIDs, TypeOK, caches, files
<1>11. ASSUME NEW f \in File, DmrFromMemory(f) PROVE TypeOK'
  <2>0. dmr_cache[f] \in Dmr \cup {Absent}
    BY <1>0 DEF TypeOK
  <2>1. resp' \in Response
    BY <2>0, <1>11, ResponseType DEF DmrFromMemory
  <2> QED BY <1>11, <2>1 DEF DmrFromMemory, TypeOK, caches, files
<1>12. ASSUME NEW f \in File, NEW fault, DmrDirect(f, fault) PROVE TypeOK'
  <2>0. FreshDmr(f, TRUE) \in Dmr
    BY <1>0
  <2>1. resp' \in Response
    BY <2>0, <1>12, ResponseType DEF DmrDirect
  <2> QED BY <1>12, <2>1 DEF DmrDirect, TypeOK, caches, files
<1>13. ASSUME NEW f \in File, NEW fault, DmrFromDds(f, fault) PROVE TypeOK'
  <2>0. FreshDmr(f, Consult("live") = "live") \in Dmr /\ Consult("live") \in {"unused"} \cup Pointer
    BY <1>0 DEF Pointer
  <2>1. resp' \in Response
    BY <2>0, <1>13, ResponseType DEF DmrFromDds
  <2>2. /\ dmr_cache' \in [File -> Dmr \cup {Absent}]
        /\ dmr_int64' \in Pointer
    BY <1>0, <1>13, UpdateType DEF DmrFromDds, TypeOK, Pointer
  <2> QED BY <1>13, <2>1, <2>2 DEF DmrFromDds, TypeOK, Pointer, files
<1>14. ASSUME NEW f \in File, NEW fault, DmrWithIDs(f, fault) PROVE TypeOK'
  <2>0. FreshDmr(f, Consult(dmr_int64) = "live") \in Dmr /\ Consult(dmr_int64) \in {"unused"} \cup Pointer
    BY <1>0 DEF Pointer
  <2>1. resp' \in Response
    BY <2>0, <1>14, ResponseType DEF DmrWithIDs, DmrId
  <2> QED BY <1>14, <2>1 DEF DmrWithIDs, TypeOK, caches, files
<1>15. ASSUME NEW f \in File, NEW fault, DmrDefault(f, fault) PROVE TypeOK'
  <2>0. FreshDmr(f, TRUE) \in Dmr
    BY <1>0
  <2>1. resp' \in Response
    BY <2>0, <1>15, ResponseType DEF DmrDefault
  <2>2. dmr_cache' \in [File -> Dmr \cup {Absent}]
    BY <1>0, <1>15, UpdateType DEF DmrDefault, TypeOK, Pointer
  <2> QED BY <1>15, <2>1, <2>2 DEF DmrDefault, TypeOK, Pointer, files
<1>16. ASSUME NEW f \in File, ReplaceFile(f) PROVE TypeOK'
  <2>1. ver' \in [File -> Version]
    BY <1>16, MaxVersionAssumption DEF ReplaceFile, TypeOK, Version
  <2> QED BY <1>16, <2>1 DEF ReplaceFile, TypeOK, Dds, caches, files
<1>17. CASE AddAttributesFromMemory
  <2>1. resp \in Response /\ resp.dds \in Dds /\ das_cache[resp.file] \in Das \cup {Garbled, Absent}
    BY <1>17 DEF AddAttributesFromMemory, TypeOK, Response, ResponseHasDds
  <2>2. [resp.dds EXCEPT !.das = das_cache[resp.file]] \in Dds
    BY <2>1 DEF Dds
  <2>3. resp' = [resp EXCEPT !.dds = [resp.dds EXCEPT !.das = das_cache[resp.file]], !.ia = TRUE]
    BY <1>17, <2>1 DEF AddAttributesFromMemory, Response
  <2>4. resp' \in Response
    BY <2>1, <2>2, <2>3 DEF Response
  <2> QED BY <1>17, <2>4 DEF AddAttributesFromMemory, TypeOK, caches, files
<1>18. ASSUME NEW fault, AddAttributesFromFile(fault) PROVE TypeOK'
  <2>1. resp \in Response /\ resp.dds \in Dds
    BY <1>18 DEF AddAttributesFromFile, TypeOK, Response, ResponseHasDds
  <2>2. resp.file \in File
    BY <2>1 DEF Response
  <2>5. /\ Consult(dmr_int64) \in {"unused", "null", "live", "freed"}
        /\ FreshDas(resp.file) \in Das
    BY <1>0, <2>2 DEF Pointer
  <2>6. [resp.dds EXCEPT !.das = FreshDas(resp.file)] \in Dds
    BY <2>1, <2>5 DEF Dds
  <2>3. resp' \in Response
    <3>1. CASE fault = "none"
      <4>1. resp' = [resp EXCEPT !.dds = [resp.dds EXCEPT !.das = FreshDas(resp.file)],
                                 !.ia = TRUE, !.int64 = Consult(dmr_int64)]
        BY <1>18, <2>1, <3>1 DEF AddAttributesFromFile, Response
      <4> QED BY <2>1, <2>5, <2>6, <4>1 DEF Response
    <3>2. CASE fault # "none"
      <4> DEFINE i == IF fault = "open" THEN resp.int64 ELSE Consult(dmr_int64)
                 d == IF fault = "read" THEN "leaked" ELSE "none"
      <4>1. resp' = [resp EXCEPT !.ok = FALSE, !.int64 = i, !.fd = d]
        BY <1>18, <3>2 DEF AddAttributesFromFile
      <4>2. i \in {"unused", "null", "live", "freed"} /\ d \in {"none", "leaked"}
        BY <2>1, <2>5 DEF Response
      <4> HIDE DEF i, d
      <4> QED BY <2>1, <4>1, <4>2 DEF Response
    <3> QED BY <3>1, <3>2
  <2>4. das_cache' \in [File -> Das \cup {Garbled, Absent}]
    BY <1>0, <1>18, <2>2, UpdateType DEF AddAttributesFromFile, TypeOK
  <2> QED BY <1>18, <2>3, <2>4 DEF AddAttributesFromFile, TypeOK, files
<1>19. CASE Release
  BY <1>19 DEF Release, TypeOK, caches, files
<1>20. CASE Restart
  BY <1>20 DEF Restart, TypeOK, files
<1>21. CASE UNCHANGED vars
  BY <1>21 DEF vars, caches, files, TypeOK
<1> QED BY <1>1, <1>2, <1>3, <1>4, <1>5, <1>6, <1>7, <1>8, <1>9, <1>10, <1>11, <1>12, <1>13, <1>14, <1>15, <1>16, <1>17, <1>18, <1>19, <1>20, <1>21 DEF Next

-----------------------------------------------------------------------------
(***************************************************************************)
(* The inductive invariant                                                 *)
(***************************************************************************)

\* The properties of a single response r that the invariant consists of.
Sound(r) ==
    /\ r.ok /\ r.kind \in {"dds", "data"} => r.dds # Absent
    /\ r.ok /\ r.kind = "dds" => r.dds.das # Absent
    /\ r.ok /\ r.kind = "data" => (r.ia <=> r.dds.das # Absent)
    /\ r.kind = "dmr" => r.int64 # "freed"
    /\ r.kind = "das" => r.int64 \in {"unused", "null"}
    /\ r.kind = "dds" => r.int64 \in {"unused", "null"} \/ cfg["disk_dds_cache"]
    /\ r.kind = "data" => \/ r.int64 \in {"unused", "null"}
                          \/ ~PassIDs /\ (r.ia \/ ~r.ok)
    /\ r.ok => r.fd = IF PassIDs /\ (r.kind = "data" \/ (r.kind = "dmr" /\ ~cfg["usecfdmr"]))
                      THEN "owned" ELSE "none"

\* The current response, if there is one, is sound.
CurrentSound == resp # Absent => Sound(resp)

\* The invariant, response by response.
LEMMA SoundResponse ==
    TypeOK => (CurrentSound <=>
                 /\ ResponseHasDds /\ DDSIncludesDAS /\ IncludeAttributesFlag
                 /\ MappingTarget /\ HandleOwnership)
<1> HAVE TypeOK
<1> USE DEF CurrentSound
<1>1. CASE resp = Absent
  BY <1>1 DEF ResponseHasDds, DDSIncludesDAS, IncludeAttributesFlag, MappingTarget, HandleOwnership
<1>2. CASE resp # Absent
  <2>1. resp.kind \in {"das", "dds", "data", "dmr"}
    BY <1>2 DEF TypeOK, Response
  <2> QED BY <1>2, <2>1 DEF Sound, ResponseHasDds, DDSIncludesDAS, IncludeAttributesFlag,
                            MappingTarget, HandleOwnership
<1> QED BY <1>1, <1>2

\* The fields of the responses as the handlers make them.
LEMMA ResponseFields ==
    ASSUME NEW f, NEW int64
    PROVE  /\ \A das : LET r == DasResponse(f, das, int64) IN
                /\ r.kind = "das" /\ r.file = f /\ r.ok /\ r.das = das /\ r.dds = Absent
                /\ r.dmr = Absent /\ r.int64 = int64 /\ r.fd = "none"
           /\ \A dds : LET r == DdsResponse(f, dds, int64) IN
                /\ r.kind = "dds" /\ r.file = f /\ r.ok /\ r.das = Absent /\ r.dds = dds
                /\ r.dmr = Absent /\ r.int64 = int64 /\ r.fd = "none"
           /\ \A dds, ia, fd : LET r == DataResponse(f, dds, ia, int64, fd) IN
                /\ r.kind = "data" /\ r.file = f /\ r.ok /\ r.das = Absent /\ r.dds = dds
                /\ r.dmr = Absent /\ r.ia = ia /\ r.int64 = int64 /\ r.fd = fd
           /\ \A dmr, fd : LET r == DmrResponse(f, dmr, int64, fd) IN
                /\ r.kind = "dmr" /\ r.file = f /\ r.ok /\ r.das = Absent /\ r.dds = Absent
                /\ r.dmr = dmr /\ r.int64 = int64 /\ r.fd = fd
           /\ \A kind, fd : LET r == Failed(kind, f, int64, fd) IN
                r.kind = kind /\ ~r.ok /\ r.int64 = int64
  BY DEF DasResponse, DdsResponse, DataResponse, DmrResponse, Failed, Blank

\* What a cache holds after an entry has been added: of that file the entry,
\* of any other what it held or nothing.
LEMMA AddedContents ==
    ASSUME NEW c, NEW f \in File, NEW v, NEW d \in Added(c, f, v), NEW g \in File
    PROVE  d[g] \in {c[g], Absent} \/ (g = f /\ d[g] = v)
  BY DEF Added

\* What a cache file holds after another one, or itself, has been written.
LEMMA WrittenContents ==
    ASSUME NEW S, NEW w \in [Name -> S], NEW n \in Name, NEW v, NEW fault,
           NEW x \in Written(w, n, v, fault), NEW m \in Name
    PROVE  x[m] \in {w[m], Garbled} \/ (m = n /\ x[m] = v)
  BY DEF Written

\* Where dmr_int64 can be set, the generators of a DAP2 response find it NULL
\* once it has been reset.
LEMMA Consulted ==
    ASSUME PointerInv
    PROVE  /\ Consult(Reset) \in {"unused", "null"}
           /\ PassIDs => Consult(dmr_int64) \in {"unused", "null"}
           /\ dmr_int64 # "null" => Reset = "null"
           /\ Consult("live") # "freed"
           /\ Reset # "null" => Reset = dmr_int64
  BY DEF Consult, Reset, PointerInv, PassIDs

\* Fresh metadata are there, and a fresh DDS has the attributes it was built with.
LEMMA FreshFields ==
    ASSUME TypeOK, NEW f \in File
    PROVE  /\ \A d : FreshDds(f, d) # Absent => FreshDds(f, d).das = d
           /\ FreshDds(f, Absent) # Absent /\ FreshDas(f) # Absent
           /\ \A d \in Das \cup {Garbled, Absent} : FreshDds(f, d) # Absent
           /\ \A b \in BOOLEAN : FreshDmr(f, b) # Absent
<1>1. \A d : FreshDds(f, d).das = d
  BY DEF FreshDds
<1> QED BY <1>1, FreshType, SentinelAssumption DEF TypeOK


\* Every step keeps what the caches hold.
LEMMA CacheStep ==
    ASSUME TypeOK, CacheContents, [Next]_vars
    PROVE  CacheContents'
<1>0. /\ dds_cache \in [File -> Dds \cup {Absent}]
      /\ datadds_cache \in [File -> Dds \cup {Absent}]
      /\ dmr_cache \in [File -> Dmr \cup {Absent}]
  BY DEF TypeOK
<1>1. ASSUME NEW f \in File, DasFromMemory(f) PROVE CacheContents'
  BY <1>1 DEF DasFromMemory, CacheContents, caches, files
<1>2. ASSUME NEW f \in File, DasFromDisk(f) PROVE CacheContents'
  BY <1>2 DEF DasFromDisk, CacheContents, caches, files
<1>3. ASSUME NEW f \in File, NEW fault, DasFromFile(f, fault) PROVE CacheContents'
  BY <1>3 DEF DasFromFile, CacheContents, caches, files
<1>4. ASSUME NEW f \in File, DdsFromMemory(f) PROVE CacheContents'
  BY <1>4 DEF DdsFromMemory, CacheContents, caches, files
<1>5. ASSUME NEW f \in File, DdsFromDisk(f) PROVE CacheContents'
  <2> DEFINE dds(o) == [dds_file[BaseName[f]] EXCEPT !.das = o.das]
  <2>1. CASE UNCHANGED dds_cache
    BY <1>5, <2>1 DEF DdsFromDisk, CacheContents
  <2>2. ASSUME NEW o \in Outcome, o.das # Absent, dds_cache' \in Added(dds_cache, f, dds(o)),
               dds_file[BaseName[f]] \notin {Absent, Garbled}
        PROVE  CacheContents'
    <3>1. dds_file[BaseName[f]] \in Dds
      BY <2>2, BaseNameAssumption DEF TypeOK
    <3>2. dds(o).das # Absent
      BY <2>2, <3>1 DEF Dds
    <3> HIDE DEF dds
    <3>3. \A g \in File : dds_cache'[g] \in {dds_cache[g], Absent} \/ dds_cache'[g] = dds(o)
      BY <1>0, <2>2, AddedContents
    <3> QED BY <1>5, <3>2, <3>3 DEF DdsFromDisk, CacheContents
  <2> QED BY <1>5, <2>1, <2>2 DEF DdsFromDisk, DdsOnDisk
<1>6. ASSUME NEW f \in File, NEW fault, DdsFromFileFails(f, fault) PROVE CacheContents'
  BY <1>6 DEF DdsFromFileFails, CacheContents, caches, files
<1>7. ASSUME NEW f \in File, NEW fault, DdsFromFile(f, fault) PROVE CacheContents'
  <2>1. CASE UNCHANGED dds_cache
    BY <1>7, <2>1 DEF DdsFromFile, CacheContents
  <2>2. ASSUME NEW o \in Outcome, o.das # Absent,
               dds_cache' \in Added(dds_cache, f, FreshDds(f, o.das))
        PROVE  CacheContents'
    <3>1. FreshDds(f, o.das).das # Absent
      BY <2>2 DEF FreshDds
    <3>2. \A g \in File : dds_cache'[g] \in {dds_cache[g], Absent} \/ dds_cache'[g] = FreshDds(f, o.das)
      BY <1>0, <2>2, AddedContents
    <3> QED BY <1>7, <3>1, <3>2 DEF DdsFromFile, CacheContents
  <2> QED BY <1>7, <2>1, <2>2 DEF DdsFromFile
<1>8. ASSUME NEW f \in File, DataFromMemory(f) PROVE CacheContents'
  BY <1>8 DEF DataFromMemory, CacheContents, caches, files
<1>9. ASSUME NEW f \in File, NEW fault, DataFromFile(f, fault) PROVE CacheContents'
  <2>1. FreshDds(f, Absent).das = Absent
    BY DEF FreshDds
  <2>2. \/ datadds_cache' = datadds_cache
        \/ datadds_cache' \in Added(datadds_cache, f, FreshDds(f, Absent))
    BY <1>9 DEF DataFromFile
  <2>3. \A g \in File : datadds_cache'[g] \in {datadds_cache[g], Absent, FreshDds(f, Absent)}
    BY <2>2, AddedContents
  <2> QED BY <1>9, <2>1, <2>3 DEF DataFromFile, CacheContents
<1>10. ASSUME NEW f \in File, NEW fault, DataWithIDs(f, fault) PROVE CacheContents'
  BY <1>10 DEF DataWithIDs, CacheContents, caches, files
<1>11. ASSUME NEW f \in File, DmrFromMemory(f) PROVE CacheContents'
  BY <1>11 DEF DmrFromMemory, CacheContents, caches, files
<1>12. ASSUME NEW f \in File, NEW fault, DmrDirect(f, fault) PROVE CacheContents'
  BY <1>12 DEF DmrDirect, CacheContents, caches, files
<1>13. ASSUME NEW f \in File, NEW fault, DmrFromDds(f, fault) PROVE CacheContents'
  BY <1>13 DEF DmrFromDds, CacheContents, caches, files
<1>14. ASSUME NEW f \in File, NEW fault, DmrWithIDs(f, fault) PROVE CacheContents'
  BY <1>14 DEF DmrWithIDs, CacheContents, caches, files
<1>15. ASSUME NEW f \in File, NEW fault, DmrDefault(f, fault) PROVE CacheContents'
  BY <1>15 DEF DmrDefault, CacheContents, caches, files
<1>16. ASSUME NEW f \in File, ReplaceFile(f) PROVE CacheContents'
  BY <1>16 DEF ReplaceFile, CacheContents, caches, files
<1>17. CASE AddAttributesFromMemory
  BY <1>17 DEF AddAttributesFromMemory, CacheContents, caches, files
<1>18. ASSUME NEW fault, AddAttributesFromFile(fault) PROVE CacheContents'
  BY <1>18 DEF AddAttributesFromFile, CacheContents, caches, files
<1>19. CASE Release
  BY <1>19 DEF Release, CacheContents, caches, files
<1>20. CASE Restart
  BY <1>20 DEF Restart, CacheContents, caches, files
<1>21. CASE UNCHANGED vars
  BY <1>21 DEF vars, CacheContents, caches, files
<1> QED BY <1>1, <1>2, <1>3, <1>4, <1>5, <1>6, <1>7, <1>8, <1>9, <1>10, <1>11, <1>12, <1>13, <1>14, <1>15, <1>16, <1>17, <1>18, <1>19, <1>20, <1>21 DEF Next

\* Every step keeps the two facts about dmr_int64.
LEMMA PointerStep ==
    ASSUME TypeOK, PointerInv, TypeOK', [Next]_vars
    PROVE  PointerInv'
<1>0. resp' # Absent => resp' \in Response
  BY DEF TypeOK
<1>1. ASSUME NEW f \in File, DasFromMemory(f) PROVE PointerInv'
  BY <1>1, Consulted DEF DasFromMemory, PointerInv, Idle, TypeOK, caches, files
<1>2. ASSUME NEW f \in File, DasFromDisk(f) PROVE PointerInv'
  BY <1>2, Consulted DEF DasFromDisk, PointerInv, Idle, TypeOK, caches, files
<1>3. ASSUME NEW f \in File, NEW fault, DasFromFile(f, fault) PROVE PointerInv'
  BY <1>3, Consulted DEF DasFromFile, PointerInv, Idle, TypeOK, caches, files
<1>4. ASSUME NEW f \in File, DdsFromMemory(f) PROVE PointerInv'
  BY <1>4, Consulted DEF DdsFromMemory, PointerInv, Idle, TypeOK, caches, files
<1>5. ASSUME NEW f \in File, DdsFromDisk(f) PROVE PointerInv'
  BY <1>5, Consulted DEF DdsFromDisk, PointerInv, Idle, TypeOK, caches, files
<1>6. ASSUME NEW f \in File, NEW fault, DdsFromFileFails(f, fault) PROVE PointerInv'
  BY <1>6, Consulted DEF DdsFromFileFails, PointerInv, Idle, TypeOK, caches, files
<1>7. ASSUME NEW f \in File, NEW fault, DdsFromFile(f, fault) PROVE PointerInv'
  BY <1>7, Consulted DEF DdsFromFile, PointerInv, Idle, TypeOK, caches, files
<1>8. ASSUME NEW f \in File, DataFromMemory(f) PROVE PointerInv'
  BY <1>8, Consulted DEF DataFromMemory, PointerInv, Idle, TypeOK, caches, files
<1>9. ASSUME NEW f \in File, NEW fault, DataFromFile(f, fault) PROVE PointerInv'
  BY <1>9, Consulted DEF DataFromFile, PointerInv, Idle, TypeOK, caches, files
<1>10. ASSUME NEW f \in File, NEW fault, DataWithIDs(f, fault) PROVE PointerInv'
  BY <1>10, Consulted DEF DataWithIDs, PointerInv, Idle, TypeOK, caches, files
<1>11. ASSUME NEW f \in File, DmrFromMemory(f) PROVE PointerInv'
  BY <1>11, Consulted DEF DmrFromMemory, PointerInv, Idle, TypeOK, caches, files
<1>12. ASSUME NEW f \in File, NEW fault, DmrDirect(f, fault) PROVE PointerInv'
  BY <1>12, Consulted DEF DmrDirect, PointerInv, Idle, TypeOK, caches, files
<1>13. ASSUME NEW f \in File, NEW fault, DmrFromDds(f, fault) PROVE PointerInv'
  <2>1. resp'.kind = "dmr" \/ dmr_int64' = dmr_int64
    BY <1>13, ResponseFields DEF DmrFromDds
  <2>2. dmr_int64' = "live" => resp' # Absent
    <3>1. Consult("live") \in {"unused"} \cup Pointer /\ "unused" \in {"unused"} \cup Pointer
      BY DEF Consult, Pointer
    <3>2. FreshDmr(f, Consult("live") = "live") \in Dmr
      BY FreshType DEF TypeOK
    <3>3. resp' \in Response
      BY <1>13, <3>1, <3>2, ResponseType DEF DmrFromDds
    <3> QED BY <3>3, SentinelAssumption
  <2> QED BY <1>13, <2>1, <2>2 DEF DmrFromDds, PointerInv, Idle
<1>14. ASSUME NEW f \in File, NEW fault, DmrWithIDs(f, fault) PROVE PointerInv'
  BY <1>14, Consulted DEF DmrWithIDs, PointerInv, Idle, TypeOK, caches, files
<1>15. ASSUME NEW f \in File, NEW fault, DmrDefault(f, fault) PROVE PointerInv'
  BY <1>15, Consulted DEF DmrDefault, PointerInv, Idle, TypeOK, caches, files
<1>16. ASSUME NEW f \in File, ReplaceFile(f) PROVE PointerInv'
  BY <1>16, Consulted DEF ReplaceFile, PointerInv, Idle, TypeOK, caches, files
<1>17. CASE AddAttributesFromMemory
  BY <1>17 DEF AddAttributesFromMemory, PointerInv
<1>18. ASSUME NEW fault, AddAttributesFromFile(fault) PROVE PointerInv'
  BY <1>18 DEF AddAttributesFromFile, PointerInv
<1>19. CASE Release
  BY <1>19, Consulted DEF Release, PointerInv, Idle, TypeOK, caches, files
<1>20. CASE Restart
  BY <1>20, Consulted DEF Restart, PointerInv, Idle, TypeOK, caches, files
<1>21. CASE UNCHANGED vars
  BY <1>21, Consulted DEF vars, PointerInv, Idle, TypeOK, caches, files
<1> QED BY <1>1, <1>2, <1>3, <1>4, <1>5, <1>6, <1>7, <1>8, <1>9, <1>10, <1>11, <1>12, <1>13, <1>14, <1>15, <1>16, <1>17, <1>18, <1>19, <1>20, <1>21 DEF Next

\* When the responses that the handlers make are sound.
LEMMA SoundMade ==
    ASSUME NEW f, NEW int64
    PROVE  /\ \A das : int64 \in {"unused", "null"} => Sound(DasResponse(f, das, int64))
           /\ \A dds : /\ dds # Absent /\ dds.das # Absent
                       /\ int64 \in {"unused", "null"} \/ cfg["disk_dds_cache"]
                       => Sound(DdsResponse(f, dds, int64))
           /\ \A dds, ia, fd : /\ dds # Absent /\ (ia <=> dds.das # Absent)
                               /\ int64 \in {"unused", "null"}
                               /\ fd = IF PassIDs THEN "owned" ELSE "none"
                               => Sound(DataResponse(f, dds, ia, int64, fd))
           /\ \A dmr, fd : /\ int64 # "freed"
                           /\ fd = IF PassIDs /\ ~cfg["usecfdmr"] THEN "owned" ELSE "none"
                           => Sound(DmrResponse(f, dmr, int64, fd))
           /\ \A fd : /\ int64 \in {"unused", "null"} => Sound(Failed("das", f, int64, fd))
                      /\ int64 \in {"unused", "null"} \/ cfg["disk_dds_cache"]
                           => Sound(Failed("dds", f, int64, fd))
                      /\ int64 \in {"unused", "null"} => Sound(Failed("data", f, int64, fd))
                      /\ int64 # "freed" => Sound(Failed("dmr", f, int64, fd))
  BY ResponseFields DEF Sound

\* Every step yields a sound response.
LEMMA ResponseStep ==
    ASSUME TypeOK, TypeOK', CacheContents, PointerInv, CurrentSound, [Next]_vars
    PROVE  CurrentSound'
<1> USE DEF CurrentSound
<1> DEFINE Good == resp' # Absent => Sound(resp')
<1>0. cfg' = cfg /\ Good => (resp' # Absent => Sound(resp)')
  BY DEF Sound, PassIDs
<1>1. ASSUME NEW f \in File, DasFromMemory(f) PROVE cfg' = cfg /\ Good
  BY <1>1, SoundMade, Consulted, FreshFields DEF DasFromMemory, PassIDs, CacheContents
<1>2. ASSUME NEW f \in File, DasFromDisk(f) PROVE cfg' = cfg /\ Good
  BY <1>2, SoundMade DEF DasFromDisk
<1>3. ASSUME NEW f \in File, NEW fault, DasFromFile(f, fault) PROVE cfg' = cfg /\ Good
  BY <1>3, SoundMade, Consulted DEF DasFromFile
<1>4. ASSUME NEW f \in File, DdsFromMemory(f) PROVE cfg' = cfg /\ Good
  BY <1>4, SoundMade, Consulted, FreshFields DEF DdsFromMemory, PassIDs, CacheContents
<1>5. ASSUME NEW f \in File, DdsFromDisk(f) PROVE cfg' = cfg /\ Good
  <2>1. cfg' = cfg /\ cfg["disk_dds_cache"]
    BY <1>5 DEF DdsFromDisk, DdsOnDisk
  <2>2. ASSUME NEW int64, NEW fd, resp' = Failed("dds", f, int64, fd) PROVE Good
    BY <2>1, <2>2, SoundMade
  <2>3. ASSUME NEW o \in Outcome, o.das # Absent, dds_file[BaseName[f]] \notin {Absent, Garbled},
               resp' = DdsResponse(f, [dds_file[BaseName[f]] EXCEPT !.das = o.das], o.int64)
        PROVE  Good
    <3> DEFINE d == dds_file[BaseName[f]]
               e == [d EXCEPT !.das = o.das]
    <3>1. d \in Dds
      BY <2>3, BaseNameAssumption DEF TypeOK
    <3>2. e \in Dds /\ e.das # Absent
      BY <2>3, <3>1 DEF Dds, Outcome
    <3>3. e # Absent
      BY <3>2, SentinelAssumption
    <3>4. resp' = DdsResponse(f, e, o.int64)
      BY <2>3
    <3> HIDE DEF e
    <3> QED BY <2>1, <3>2, <3>3, <3>4, SoundMade
  <2> QED BY <1>5, <2>1, <2>2, <2>3 DEF DdsFromDisk, DdsOnDisk
<1>6. ASSUME NEW f \in File, NEW fault, DdsFromFileFails(f, fault) PROVE cfg' = cfg /\ Good
  BY <1>6, SoundMade, Consulted, FreshFields DEF DdsFromFileFails, PassIDs, CacheContents
<1>7. ASSUME NEW f \in File, NEW fault, DdsFromFile(f, fault) PROVE cfg' = cfg /\ Good
  <2>1. PICK o \in Outcome :
             /\ dmr_int64' = Reset /\ cfg' = cfg
             /\ IF o.das # Absent
                THEN resp' = DdsResponse(f, FreshDds(f, o.das), Consult(Reset))
                ELSE resp' = Failed("dds", f, Consult(Reset), o.fd)
    BY <1>7 DEF DdsFromFile
  <2>2. FreshDds(f, o.das) # Absent /\ FreshDds(f, o.das).das = o.das
    BY FreshFields DEF FreshDds, Outcome
  <2> QED BY <2>1, <2>2, SoundMade, Consulted
<1>8. ASSUME NEW f \in File, DataFromMemory(f) PROVE cfg' = cfg /\ Good
  BY <1>8, SoundMade, Consulted, FreshFields DEF DataFromMemory, PassIDs, CacheContents
<1>9. ASSUME NEW f \in File, NEW fault, DataFromFile(f, fault) PROVE cfg' = cfg /\ Good
  <2>1. FreshDds(f, Absent) # Absent /\ FreshDds(f, Absent).das = Absent
    BY FreshFields DEF FreshDds
  <2>2. CASE fault = "none"
    <3>1. resp' = DataResponse(f, FreshDds(f, Absent), FALSE, Consult(Reset), "none") /\ ~PassIDs
      BY <1>9, <2>2 DEF DataFromFile
    <3>2. Sound(resp')
      BY <2>1, <3>1, SoundMade, Consulted
    <3> QED BY <1>9, <3>2 DEF DataFromFile
  <2>3. CASE fault = "open"
    BY <1>9, <2>3, SoundMade DEF DataFromFile
  <2>4. CASE fault \notin {"none", "open"}
    BY <1>9, <2>4, SoundMade, Consulted DEF DataFromFile
  <2> QED BY <2>2, <2>3, <2>4
<1>10. ASSUME NEW f \in File, NEW fault, DataWithIDs(f, fault) PROVE cfg' = cfg /\ Good
  <2>1. FreshDds(f, FreshDas(f)) # Absent /\ FreshDds(f, FreshDas(f)).das # Absent
    BY FreshFields, FreshType DEF FreshDds, TypeOK
  <2>2. CASE fault = "none"
    <3>1. resp' = DataResponse(f, FreshDds(f, FreshDas(f)), TRUE, Consult(dmr_int64), "owned")
          /\ PassIDs
      BY <1>10, <2>2 DEF DataWithIDs
    <3>2. Sound(resp')
      BY <2>1, <3>1, SoundMade, Consulted
    <3> QED BY <1>10, <3>2 DEF DataWithIDs
  <2>3. CASE fault = "open"
    BY <1>10, <2>3, SoundMade DEF DataWithIDs
  <2>4. CASE fault \notin {"none", "open"}
    BY <1>10, <2>4, SoundMade, Consulted DEF DataWithIDs
  <2> QED BY <2>2, <2>3, <2>4
<1>11. ASSUME NEW f \in File, DmrFromMemory(f) PROVE cfg' = cfg /\ Good
  BY <1>11, SoundMade, Consulted, FreshFields DEF DmrFromMemory, PassIDs, CacheContents
<1>12. ASSUME NEW f \in File, NEW fault, DmrDirect(f, fault) PROVE cfg' = cfg /\ Good
  BY <1>12, SoundMade, Consulted, FreshFields DEF DmrDirect, PassIDs, CacheContents
<1>13. ASSUME NEW f \in File, NEW fault, DmrFromDds(f, fault) PROVE cfg' = cfg /\ Good
  <2>1. ~PassIDs /\ cfg' = cfg
    BY <1>13 DEF DmrFromDds, PassIDs
  <2>2. CASE fault = "none"
    <3>1. resp' = DmrResponse(f, FreshDmr(f, Consult("live") = "live"), Consult("live"), "none")
      BY <1>13, <2>2 DEF DmrFromDds
    <3> QED BY <2>1, <3>1, SoundMade, Consulted
  <2>3. CASE fault = "open"
    BY <1>13, <2>1, <2>3, SoundMade DEF DmrFromDds
  <2>4. CASE fault \notin {"none", "open"}
    BY <1>13, <2>1, <2>4, SoundMade, Consulted DEF DmrFromDds
  <2> QED BY <2>2, <2>3, <2>4
<1>14. ASSUME NEW f \in File, NEW fault, DmrWithIDs(f, fault) PROVE cfg' = cfg /\ Good
  <2>1. PassIDs /\ ~cfg["usecfdmr"] /\ cfg' = cfg
    BY <1>14 DEF DmrWithIDs, PassIDs
  <2>2. CASE fault = "none"
    BY <1>14, <2>1, <2>2, SoundMade, Consulted DEF DmrWithIDs, DmrId
  <2>3. CASE fault = "open"
    BY <1>14, <2>1, <2>3, SoundMade DEF DmrWithIDs, DmrId
  <2>4. CASE fault \notin {"none", "open"}
    BY <1>14, <2>1, <2>4, SoundMade, Consulted DEF DmrWithIDs, DmrId
  <2> QED BY <2>2, <2>3, <2>4
<1>15. ASSUME NEW f \in File, NEW fault, DmrDefault(f, fault) PROVE cfg' = cfg /\ Good
  BY <1>15, SoundMade DEF DmrDefault, PassIDs
<1>16. ASSUME NEW f \in File, ReplaceFile(f) PROVE cfg' = cfg /\ Good
  BY <1>16 DEF ReplaceFile
<1>17. ASSUME AddAttributesFromMemory PROVE cfg' = cfg /\ Good
  <2> DEFINE a == das_cache[resp.file]
             d == [resp.dds EXCEPT !.das = a]
  <2>1. /\ resp \in Response /\ resp # Absent /\ resp.kind = "data" /\ resp.ok /\ ~resp.ia
        /\ a # Absent /\ resp.dds \in Dds /\ cfg' = cfg
    BY <1>17 DEF AddAttributesFromMemory, TypeOK, Response, Sound
  <2>2. d # Absent /\ d.das = a
    <3>1. a \in Das \cup {Garbled, Absent}
      BY <2>1 DEF TypeOK, Response
    <3>2. d \in Dds /\ d.das = a
      BY <2>1, <3>1 DEF Dds
    <3> QED BY <3>2, SentinelAssumption
  <2>3. resp' = [resp EXCEPT !.dds = d, !.ia = TRUE]
    BY <1>17, <2>1 DEF AddAttributesFromMemory, Response
  <2> HIDE DEF d, a
  <2>4. /\ resp'.ok = resp.ok /\ resp'.kind = resp.kind /\ resp'.int64 = resp.int64
        /\ resp'.fd = resp.fd /\ resp'.dds = d /\ resp'.ia = TRUE
    BY <2>1, <2>3 DEF Response
  <2> QED BY <2>1, <2>2, <2>4 DEF Sound
<1>18. ASSUME NEW fault, AddAttributesFromFile(fault) PROVE cfg' = cfg /\ Good
  <2>1. /\ resp \in Response /\ resp # Absent /\ resp.kind = "data" /\ resp.ok /\ ~resp.ia
        /\ resp.dds \in Dds /\ resp.file \in File /\ cfg' = cfg
    BY <1>18 DEF AddAttributesFromFile, TypeOK, Response, Sound
  <2> DEFINE a == FreshDas(resp.file)
             d == [resp.dds EXCEPT !.das = a]
  <2>2. CASE fault = "none"
    <3>1. a \in Das /\ a # Absent
      BY <2>1, FreshType, FreshFields DEF TypeOK
    <3>2. d \in Dds /\ d.das = a
      BY <2>1, <3>1 DEF Dds
    <3>3. d # Absent
      BY <3>2, SentinelAssumption
    <3>4. resp' = [resp EXCEPT !.dds = d, !.ia = TRUE, !.int64 = Consult(dmr_int64)]
      BY <1>18, <2>1, <2>2 DEF AddAttributesFromFile, Response
    <3> HIDE DEF d, a
    <3>5. /\ resp'.ok = resp.ok /\ resp'.kind = resp.kind /\ resp'.int64 = Consult(dmr_int64)
          /\ resp'.fd = resp.fd /\ resp'.dds = d /\ resp'.ia = TRUE
      BY <2>1, <3>4 DEF Response
    <3> QED BY <2>1, <3>1, <3>2, <3>3, <3>5, Consulted DEF Sound
  <2>3. CASE fault # "none"
    <3>1. /\ resp'.ok = FALSE /\ resp'.kind = "data"
          /\ resp'.int64 \in {resp.int64, Consult(dmr_int64)}
      BY <1>18, <2>1, <2>3 DEF AddAttributesFromFile, Response
    <3> QED BY <2>1, <3>1, Consulted DEF Sound
  <2> QED BY <2>2, <2>3
<1>19. ASSUME Release PROVE cfg' = cfg /\ Good
  BY <1>19 DEF Release
<1>20. ASSUME Restart PROVE cfg' = cfg /\ Good
  BY <1>20 DEF Restart
<1>21. ASSUME UNCHANGED vars PROVE cfg' = cfg /\ Good
  BY <1>21 DEF vars, Sound
<1> QED BY <1>0, <1>1, <1>2, <1>3, <1>4, <1>5, <1>6, <1>7, <1>8, <1>9, <1>10, <1>11, <1>12, <1>13, <1>14, <1>15, <1>16, <1>17, <1>18, <1>19, <1>20, <1>21 DEF Next

\* The invariant holds initially and every step keeps it.
LEMMA Invariant == Spec => []IInv
<1>1. Init => IInv
  BY MaxVersionAssumption DEF Init, IInv, TypeOK, Version, ResponseHasDds, CacheContents, PointerInv,
     DDSIncludesDAS, IncludeAttributesFlag, MappingTarget, HandleOwnership
<1>2. IInv /\ [Next]_vars => IInv'
  <2> SUFFICES ASSUME IInv, [Next]_vars PROVE IInv'
    OBVIOUS
  <2>1. /\ TypeOK /\ ResponseHasDds /\ CacheContents /\ PointerInv
        /\ CurrentSound
    BY SoundResponse DEF IInv
  <2>2. TypeOK'
    BY <2>1, TypeStep
  <2>3. CacheContents' /\ PointerInv'
    BY <2>1, <2>2, CacheStep, PointerStep
  <2>4. CurrentSound'
    BY <2>1, <2>2, ResponseStep
  <2>5. TypeOK' => (CurrentSound' <=>
             /\ ResponseHasDds' /\ DDSIncludesDAS' /\ IncludeAttributesFlag'
             /\ MappingTarget' /\ HandleOwnership')
    BY SoundResponse, PTL
  <2> QED BY <2>2, <2>3, <2>4, <2>5 DEF IInv
<1> QED BY <1>1, <1>2, PTL DEF Spec

\* Every variable keeps to its type, whatever the files, keys and faults.
THEOREM TypeCorrect == Spec => []TypeOK
  BY Invariant, PTL DEF IInv

\* "Assume that any cached DDS includes the DAS information": a DDS response
\* carries attributes along every path, with any cache and after any failure.
THEOREM CachedDDSIncludesDAS == Spec => []DDSIncludesDAS
  BY Invariant, PTL DEF IInv

\* The include-attribute flag of a DataDDS is set exactly when its DDS has
\* attributes.
THEOREM FlagTellsTheTruth == Spec => []IncludeAttributesFlag
  BY Invariant, PTL DEF IInv

\* A CF generator meets a destroyed DMR in dmr_int64 only while it adds
\* attributes late or to a DDS from a cache file.
THEOREM MappingTargetSafe == Spec => []MappingTarget
  BY Invariant, PTL DEF IInv

\* A usable response owns the file id it reads through when EnablePassFileID
\* is on, and no other usable response leaves a file open.
THEOREM HandlesOwned == Spec => []HandleOwnership
  BY Invariant, PTL DEF IInv

-----------------------------------------------------------------------------
(***************************************************************************)
(* Files of different names                                                *)
(***************************************************************************)

InjectiveNames == \A f, g \in File : BaseName[f] = BaseName[g] => f = g

\* r holds metadata of the file it was built for.
Requested(r) ==
    r.ok => /\ Of(r.das, r.file)
            /\ Of(r.dds, r.file)
            /\ r.dds # Absent => Of(r.dds.das, r.file)
            /\ Of(r.dmr, r.file)

\* Adding an entry of a file, and writing its cache file, keeps every entry
\* and cache file to its own file.
LEMMA AddedOf ==
    ASSUME NEW c, CacheOf(c), NEW f \in File, NEW v, Of(v, f)
    PROVE  \A d \in Added(c, f, v) : CacheOf(d)
  BY AddedContents DEF CacheOf, Of

\* A cache of DDSs with attributes of their own files stays one when a DDS with
\* attributes of its file is added.
LEMMA AddedAttributesOf ==
    ASSUME NEW c, AttributesOf(c), NEW f \in File, NEW v, Of(v.das, f)
    PROVE  \A d \in Added(c, f, v) : AttributesOf(d)
<1> SUFFICES ASSUME NEW d \in Added(c, f, v), NEW g \in File, d[g] # Absent
             PROVE  Of(d[g].das, g)
  BY DEF AttributesOf
<1>1. d[g] = c[g] \/ (g = f /\ d[g] = v)
  BY AddedContents
<1> QED BY <1>1 DEF AttributesOf

\* Files with metadata of their own data files stay that when one is written with
\* metadata of its data file.
LEMMA WrittenOf ==
    ASSUME InjectiveNames, NEW S, NEW w \in [Name -> S], FileOf(w),
           NEW f \in File, NEW v, Of(v, f), NEW fault
    PROVE  \A x \in Written(w, BaseName[f], v, fault) : FileOf(x)
<1> SUFFICES ASSUME NEW x \in Written(w, BaseName[f], v, fault), NEW g \in File
             PROVE  Of(x[BaseName[g]], g)
  BY DEF FileOf
<1>1. BaseName[f] \in Name /\ BaseName[g] \in Name
  BY BaseNameAssumption
<1>2. x[BaseName[g]] \in {w[BaseName[g]], Garbled} \/ (BaseName[g] = BaseName[f] /\ x[BaseName[g]] = v)
  BY <1>1, WrittenContents
<1> QED BY <1>2 DEF FileOf, Of, InjectiveNames

\* Fresh metadata of a file are metadata of that file.
LEMMA FreshOf ==
    ASSUME NEW f
    PROVE  /\ Of(FreshDas(f), f)
           /\ \A d : Of(FreshDds(f, d), f) /\ FreshDds(f, d).das = d
           /\ \A b : Of(FreshDmr(f, b), f)
           /\ Of(Absent, f)
  BY DEF Of, FreshDas, FreshDds, FreshDmr

\* The cache files as typed functions, for WrittenOf.
LEMMA FilesOf ==
    ASSUME InjectiveNames, TypeOK, FileOf(das_file), FileOf(dds_file), NEW f \in File, NEW fault
    PROVE  /\ \A x \in Written(das_file, BaseName[f], FreshDas(f), fault) : FileOf(x)
           /\ \A x \in Written(dds_file, BaseName[f], FreshDds(f, Absent), fault) : FileOf(x)
<1>1. /\ das_file \in [Name -> Das \cup {Garbled, Absent}]
      /\ dds_file \in [Name -> Dds \cup {Garbled, Absent}]
  BY DEF TypeOK
<1> QED BY <1>1, WrittenOf, FreshOf

\* add_das_to_dds transfers attributes of the file it is called for.
LEMMA AddDasOf ==
    ASSUME InjectiveNames, TypeOK, CacheOf(das_cache), FileOf(das_file), FileOf(dds_file),
           NEW f \in File, NEW opened, NEW ptr, NEW o \in Outcome, AddDas(f, opened, ptr, o)
    PROVE  CacheOf(das_cache') /\ FileOf(das_file') /\ Of(o.das, f)
<1>0. Of(das_cache[f], f) /\ Of(das_file[BaseName[f]], f)
  BY DEF CacheOf, FileOf
<1>1. CASE AddDasFromMemory(f, o)
  BY <1>0, <1>1 DEF AddDasFromMemory, Ends
<1>2. CASE AddDasFromDisk(f, o)
  BY <1>0, <1>2, AddedOf, FreshOf DEF AddDasFromDisk, Ends
<1>3. ASSUME NEW fault, AddDasFromFile(f, opened, ptr, fault, o)
      PROVE  CacheOf(das_cache') /\ FileOf(das_file') /\ Of(o.das, f)
  <2>1. o.das \in {FreshDas(f), Absent}
    BY <1>3 DEF AddDasFromFile, Ends
  <2>2. CacheOf(das_cache')
    BY <1>3, AddedOf, FreshOf DEF AddDasFromFile
  <2>3. FileOf(das_file')
    BY <1>3, FilesOf DEF AddDasFromFile
  <2> QED BY <2>1, <2>2, <2>3, FreshOf
<1> QED BY <1>1, <1>2, <1>3 DEF AddDas

\* When the responses that the handlers make are of the requested file.
LEMMA RequestedMade ==
    ASSUME NEW f, NEW int64
    PROVE  /\ \A das : Of(das, f) => Requested(DasResponse(f, das, int64))
           /\ \A dds : Of(dds, f) /\ Of(dds.das, f) => Requested(DdsResponse(f, dds, int64))
           /\ \A dds, ia, fd : Of(dds, f) /\ Of(dds.das, f) =>
                                 Requested(DataResponse(f, dds, ia, int64, fd))
           /\ \A dmr, fd : Of(dmr, f) => Requested(DmrResponse(f, dmr, int64, fd))
           /\ \A kind, fd : Requested(Failed(kind, f, int64, fd))
  BY ResponseFields, FreshOf DEF Requested

\* What a step has to keep.
FileInv == ContentsOfFile /\ (resp # Absent => Requested(resp))

\* Every step keeps the metadata in caches, files and response with their data files.
LEMMA FileStep ==
    ASSUME InjectiveNames, TypeOK, CacheContents, ResponseHasDds, FileInv, [Next]_vars
    PROVE  FileInv'
<1> DEFINE Goal == FileInv'
<1>0. ASSUME NEW f \in File
      PROVE  /\ Of(das_cache[f], f) /\ Of(dds_cache[f], f) /\ Of(datadds_cache[f], f)
             /\ Of(dmr_cache[f], f)
             /\ dds_cache[f] # Absent => Of(dds_cache[f].das, f)
             /\ datadds_cache[f] # Absent => Of(datadds_cache[f].das, f)
             /\ Of(das_file[BaseName[f]], f) /\ Of(dds_file[BaseName[f]], f)
  BY FreshOf DEF FileInv, ContentsOfFile, CacheOf, AttributesOf, FileOf, CacheContents
<1>1. ASSUME NEW f \in File, DasFromMemory(f) PROVE Goal
  BY <1>1, <1>0, RequestedMade, FreshOf DEF DasFromMemory, FileInv, ContentsOfFile, caches, files
<1>2. ASSUME NEW f \in File, DasFromDisk(f) PROVE Goal
  <2>1. CacheOf(das_cache')
    BY <1>2, <1>0, AddedOf DEF DasFromDisk, FileInv, ContentsOfFile
  <2>2. Requested(resp')
    BY <1>2, <1>0, RequestedMade DEF DasFromDisk
  <2> QED BY <1>2, <2>1, <2>2 DEF DasFromDisk, FileInv, ContentsOfFile, files
<1>3. ASSUME NEW f \in File, NEW fault, DasFromFile(f, fault) PROVE Goal
  <2>1. CacheOf(das_cache')
    BY <1>3, AddedOf, FreshOf DEF DasFromFile, FileInv, ContentsOfFile
  <2>2. FileOf(das_file')
    BY <1>3, FilesOf DEF DasFromFile, FileInv, ContentsOfFile
  <2>3. Requested(resp')
    BY <1>3, RequestedMade, FreshOf DEF DasFromFile
  <2> QED BY <1>3, <2>1, <2>2, <2>3 DEF DasFromFile, FileInv, ContentsOfFile
<1>4. ASSUME NEW f \in File, DdsFromMemory(f) PROVE Goal
  BY <1>4, <1>0, RequestedMade, FreshOf DEF DdsFromMemory, FileInv, ContentsOfFile, caches, files
<1>5. ASSUME NEW f \in File, DdsFromDisk(f) PROVE Goal
  <2>1. ASSUME NEW int64, NEW fd, resp' = Failed("dds", f, int64, fd) PROVE Requested(resp')
    BY <2>1, RequestedMade
  <2>2. ASSUME NEW o \in Outcome, AddDas(f, FALSE, dmr_int64, o),
               dds_file[BaseName[f]] \notin {Garbled, Absent}
        PROVE  /\ CacheOf(das_cache') /\ FileOf(das_file') /\ Of(o.das, f)
               /\ LET dds == [dds_file[BaseName[f]] EXCEPT !.das = o.das]
                  IN dds.das = o.das /\ Of(dds, f)
    <3>1. CacheOf(das_cache') /\ FileOf(das_file') /\ Of(o.das, f)
      BY <2>2, AddDasOf DEF FileInv, ContentsOfFile
    <3>2. dds_file[BaseName[f]] \in Dds /\ dds_file[BaseName[f]].file = f
      BY <1>0, <2>2, BaseNameAssumption DEF TypeOK, Of
    <3>3. LET dds == [dds_file[BaseName[f]] EXCEPT !.das = o.das]
          IN dds.das = o.das /\ dds.file = f
      BY <3>2 DEF Dds
    <3> QED BY <3>1, <3>3 DEF Of
  <2>3. ASSUME NEW o \in Outcome, AddDas(f, FALSE, dmr_int64, o),
               dds_file[BaseName[f]] \notin {Garbled, Absent}, o.das # Absent,
               dds_cache' \in Added(dds_cache, f, [dds_file[BaseName[f]] EXCEPT !.das = o.das]),
               resp' = DdsResponse(f, [dds_file[BaseName[f]] EXCEPT !.das = o.das], o.int64)
        PROVE  Goal
    <3> DEFINE dds == [dds_file[BaseName[f]] EXCEPT !.das = o.das]
    <3>1. /\ CacheOf(das_cache') /\ FileOf(das_file') /\ Of(dds.das, f) /\ Of(dds, f)
          /\ dds_cache' \in Added(dds_cache, f, dds) /\ resp' = DdsResponse(f, dds, o.int64)
      BY <2>2, <2>3
    <3> HIDE DEF dds
    <3>2. Requested(resp') /\ CacheOf(dds_cache') /\ AttributesOf(dds_cache')
      BY <3>1, RequestedMade, AddedOf, AddedAttributesOf DEF FileInv, ContentsOfFile
    <3> QED BY <1>5, <3>1, <3>2 DEF DdsFromDisk, FileInv, ContentsOfFile
  <2>4. ASSUME NEW o \in Outcome, AddDas(f, FALSE, dmr_int64, o), UNCHANGED dds_cache,
               dds_file[BaseName[f]] \notin {Garbled, Absent},
               resp' = Failed("dds", f, o.int64, o.fd)
        PROVE  Goal
    BY <1>5, <2>1, <2>2, <2>4 DEF DdsFromDisk, FileInv, ContentsOfFile
  <2>5. ASSUME resp' = Failed("dds", f, "unused", "none"), UNCHANGED <<das_cache, dds_cache, das_file>>
        PROVE  Goal
    BY <1>5, <2>1, <2>5 DEF DdsFromDisk, FileInv, ContentsOfFile
  <2> QED BY <1>5, <2>3, <2>4, <2>5 DEF DdsFromDisk, DdsOnDisk
<1>6. ASSUME NEW f \in File, NEW fault, DdsFromFileFails(f, fault) PROVE Goal
  <2>1. FileOf(dds_file')
    BY <1>6, FilesOf DEF DdsFromFileFails, FileInv, ContentsOfFile
  <2>2. Requested(resp')
    BY <1>6, RequestedMade DEF DdsFromFileFails
  <2> QED BY <1>6, <2>1, <2>2 DEF DdsFromFileFails, FileInv, ContentsOfFile, caches
<1>7. ASSUME NEW f \in File, NEW fault, DdsFromFile(f, fault) PROVE Goal
  <2>1. FileOf(dds_file')
    BY <1>7, FilesOf DEF DdsFromFile, FileInv, ContentsOfFile
  <2>2. PICK o \in Outcome :
           /\ AddDas(f, TRUE, Reset, o)
           /\ IF o.das # Absent
              THEN /\ dds_cache' \in Added(dds_cache, f, FreshDds(f, o.das))
                   /\ resp' = DdsResponse(f, FreshDds(f, o.das), Consult(Reset))
              ELSE /\ UNCHANGED dds_cache
                   /\ resp' = Failed("dds", f, Consult(Reset), o.fd)
    BY <1>7 DEF DdsFromFile
  <2>3. CacheOf(das_cache') /\ FileOf(das_file') /\ Of(o.das, f)
    BY <2>2, AddDasOf DEF FileInv, ContentsOfFile
  <2>4. Of(FreshDds(f, o.das), f) /\ Of(FreshDds(f, o.das).das, f)
    BY <2>3, FreshOf
  <2>5. CacheOf(dds_cache') /\ AttributesOf(dds_cache')
    BY <2>2, <2>4, AddedOf, AddedAttributesOf DEF FileInv, ContentsOfFile
  <2>6. Requested(resp')
    BY <2>2, <2>4, RequestedMade
  <2> QED BY <1>7, <2>1, <2>3, <2>5, <2>6 DEF DdsFromFile, FileInv, ContentsOfFile
<1>8. ASSUME NEW f \in File, DataFromMemory(f) PROVE Goal
  BY <1>8, <1>0, RequestedMade, FreshOf DEF DataFromMemory, FileInv, ContentsOfFile, caches, files
<1>9. ASSUME NEW f \in File, NEW fault, DataFromFile(f, fault) PROVE Goal
  <2>1. CacheOf(datadds_cache')
    BY <1>9, AddedOf, FreshOf DEF DataFromFile, FileInv, ContentsOfFile
  <2>2. Of(FreshDds(f, Absent), f) /\ Of(FreshDds(f, Absent).das, f)
    BY FreshOf
  <2>3. Requested(resp')
    BY <1>9, <2>2, RequestedMade DEF DataFromFile
  <2> QED BY <1>9, <2>1, <2>3 DEF DataFromFile, FileInv, ContentsOfFile, files
<1>10. ASSUME NEW f \in File, NEW fault, DataWithIDs(f, fault) PROVE Goal
  <2>1. Of(FreshDds(f, FreshDas(f)), f) /\ Of(FreshDds(f, FreshDas(f)).das, f)
    BY FreshOf
  <2>2. Requested(resp')
    BY <1>10, <2>1, RequestedMade DEF DataWithIDs
  <2> QED BY <1>10, <2>2 DEF DataWithIDs, FileInv, ContentsOfFile, caches, files
<1>11. ASSUME NEW f \in File, DmrFromMemory(f) PROVE Goal
  BY <1>11, <1>0, RequestedMade, FreshOf DEF DmrFromMemory, FileInv, ContentsOfFile, caches, files
<1>12. ASSUME NEW f \in File, NEW fault, DmrDirect(f, fault) PROVE Goal
  <2>1. Requested(resp')
    BY <1>12, RequestedMade, FreshOf DEF DmrDirect
  <2> QED BY <1>12, <2>1 DEF DmrDirect, FileInv, ContentsOfFile, caches, files
<1>13. ASSUME NEW f \in File, NEW fault, DmrFromDds(f, fault) PROVE Goal
  <2>1. CacheOf(dmr_cache')
    BY <1>13, AddedOf, FreshOf DEF DmrFromDds, FileInv, ContentsOfFile
  <2>2. CASE fault = "none"
    <3>1. resp' = DmrResponse(f, FreshDmr(f, Consult("live") = "live"), Consult("live"), "none")
      BY <1>13, <2>2 DEF DmrFromDds
    <3>2. Requested(resp')
      BY <3>1, RequestedMade, FreshOf
    <3> QED BY <1>13, <2>1, <3>2 DEF DmrFromDds, FileInv, ContentsOfFile, files
  <2>3. CASE fault # "none"
    <3>1. Requested(resp')
      BY <1>13, <2>3, RequestedMade DEF DmrFromDds
    <3> QED BY <1>13, <2>1, <3>1 DEF DmrFromDds, FileInv, ContentsOfFile, files
  <2> QED BY <2>2, <2>3
<1>14. ASSUME NEW f \in File, NEW fault, DmrWithIDs(f, fault) PROVE Goal
  <2>1. Requested(resp')
    BY <1>14, RequestedMade, FreshOf DEF DmrWithIDs
  <2> QED BY <1>14, <2>1 DEF DmrWithIDs, FileInv, ContentsOfFile, caches, files
<1>15. ASSUME NEW f \in File, NEW fault, DmrDefault(f, fault) PROVE Goal
  <2>1. CacheOf(dmr_cache')
    BY <1>15, AddedOf, FreshOf DEF DmrDefault, FileInv, ContentsOfFile
  <2>2. Requested(resp')
    BY <1>15, RequestedMade, FreshOf DEF DmrDefault
  <2> QED BY <1>15, <2>1, <2>2 DEF DmrDefault, FileInv, ContentsOfFile, files
<1>16. ASSUME NEW f \in File, ReplaceFile(f) PROVE Goal
  BY <1>16 DEF ReplaceFile, FileInv, ContentsOfFile, vars, caches, files
<1>17. ASSUME AddAttributesFromMemory PROVE Goal
  <2> DEFINE a == das_cache[resp.file]
             d == [resp.dds EXCEPT !.das = a]
  <2>1. /\ resp \in Response /\ resp.dds \in Dds /\ resp.file \in File /\ resp # Absent /\ resp.ok
    BY <1>17 DEF AddAttributesFromMemory, TypeOK, Response, ResponseHasDds
  <2>2. Of(a, resp.file) /\ Requested(resp)
    BY <1>0, <2>1 DEF FileInv
  <2>3. d.das = a /\ d.file = resp.dds.file
    BY <2>1 DEF Dds
  <2>4. Of(d, resp.file)
    BY <2>1, <2>2, <2>3, SentinelAssumption DEF Of, Requested
  <2>5. resp' = [resp EXCEPT !.dds = d, !.ia = TRUE]
    BY <1>17, <2>1 DEF AddAttributesFromMemory, Response
  <2> HIDE DEF a, d
  <2>6. resp'.das = resp.das /\ resp'.dmr = resp.dmr /\ resp'.file = resp.file /\ resp'.dds = d
    BY <2>1, <2>5 DEF Response
  <2>7. Requested(resp')
    BY <2>1, <2>2, <2>3, <2>4, <2>6 DEF Requested
  <2> QED BY <1>17, <2>7 DEF AddAttributesFromMemory, FileInv, ContentsOfFile, caches, files
<1>18. ASSUME NEW fault, AddAttributesFromFile(fault) PROVE Goal
  <2> DEFINE a == FreshDas(resp.file)
             d == [resp.dds EXCEPT !.das = a]
  <2>1. /\ resp \in Response /\ resp.dds \in Dds /\ resp.file \in File /\ resp # Absent /\ resp.ok
    BY <1>18 DEF AddAttributesFromFile, TypeOK, Response, ResponseHasDds
  <2>2. Of(a, resp.file) /\ Requested(resp)
    BY <2>1, FreshOf DEF FileInv
  <2>3. d.das = a /\ d.file = resp.dds.file
    BY <2>1 DEF Dds
  <2>4. Of(d, resp.file)
    BY <2>1, <2>2, <2>3, SentinelAssumption DEF Of, Requested
  <2>5. CASE fault = "none"
    <3>1. resp' = [resp EXCEPT !.dds = d, !.ia = TRUE, !.int64 = Consult(dmr_int64)]
      BY <1>18, <2>1, <2>5 DEF AddAttributesFromFile, Response
    <3>2. CacheOf(das_cache')
      BY <1>18, <2>1, <2>2, <2>5, AddedOf DEF AddAttributesFromFile, FileInv, ContentsOfFile
    <3> HIDE DEF a, d
    <3>3. resp'.das = resp.das /\ resp'.dmr = resp.dmr /\ resp'.file = resp.file /\ resp'.dds = d
      BY <2>1, <3>1 DEF Response
    <3>4. Requested(resp')
      BY <2>1, <2>2, <2>3, <2>4, <3>3 DEF Requested
    <3> QED BY <1>18, <3>2, <3>4 DEF AddAttributesFromFile, FileInv, ContentsOfFile, files
  <2>6. CASE fault # "none"
    <3>1. ~resp'.ok
      BY <1>18, <2>1, <2>6 DEF AddAttributesFromFile, Response
    <3> QED BY <1>18, <2>6, <3>1 DEF AddAttributesFromFile, FileInv, ContentsOfFile, files, Requested
  <2> QED BY <2>5, <2>6
<1>19. ASSUME Release PROVE Goal
  BY <1>19 DEF Release, FileInv, ContentsOfFile, vars, caches, files
<1>20. ASSUME Restart PROVE Goal
  BY <1>20 DEF Restart, FileInv, ContentsOfFile, files, CacheOf, AttributesOf, Of
<1>21. ASSUME UNCHANGED vars PROVE Goal
  BY <1>21 DEF vars, FileInv, ContentsOfFile, vars, caches, files
<1> QED BY <1>1, <1>2, <1>3, <1>4, <1>5, <1>6, <1>7, <1>8, <1>9, <1>10, <1>11, <1>12, <1>13, <1>14, <1>15, <1>16, <1>17, <1>18, <1>19, <1>20, <1>21 DEF Next

\* When no two files share a name, a successful response holds metadata of the
\* requested file, through every cache, cache file and failure.
THEOREM RequestedFile ==
    ASSUME InjectiveNames
    PROVE  Spec => []ResponseOfRequestedFile
<1>1. Init => FileInv
  BY BaseNameAssumption DEF Init, FileInv, ContentsOfFile, CacheOf, AttributesOf, FileOf, Of
<1>2. IInv /\ FileInv /\ [Next]_vars => FileInv'
  BY FileStep DEF IInv
<1>3. FileInv => ResponseOfRequestedFile
  BY DEF FileInv, ResponseOfRequestedFile, Requested
<1> QED BY <1>1, <1>2, <1>3, Invariant, PTL DEF Spec

-----------------------------------------------------------------------------
(***************************************************************************)
(* The DAS cache file                                                      *)
(***************************************************************************)

\* A write happens only where no cache file is.
LEMMA WriteAbsent ==
    ASSUME TypeOK, NEW f \in File, ~DasOnDisk(f), cfg["disk_meta_cache"], NEW v, NEW fault,
           das_file' \in Written(das_file, BaseName[f], v, fault), NEW n \in Name,
           das_file[n] # Absent
    PROVE  das_file'[n] = das_file[n]
<1>1. das_file \in [Name -> Das \cup {Garbled, Absent}] /\ BaseName[f] # n
  BY DEF DasOnDisk, TypeOK
<1> QED BY <1>1 DEF Written

\* add_das_to_dds writes no DAS cache file that is there.
LEMMA AddDasOnce ==
    ASSUME TypeOK, NEW f \in File, NEW opened, NEW ptr, NEW o, AddDas(f, opened, ptr, o),
           NEW n \in Name, das_file[n] # Absent
    PROVE  das_file'[n] = das_file[n]
<1>1. CASE AddDasFromMemory(f, o)
  BY <1>1 DEF AddDasFromMemory
<1>2. CASE AddDasFromDisk(f, o)
  BY <1>2 DEF AddDasFromDisk
<1>3. ASSUME NEW fault, AddDasFromFile(f, opened, ptr, fault, o)
      PROVE  das_file'[n] = das_file[n]
  BY <1>3, WriteAbsent DEF AddDasFromFile
<1> QED BY <1>1, <1>2, <1>3 DEF AddDas

\* Once there, a DAS cache file is never written again.
THEOREM WrittenOnce == Spec => DASFileWrittenOnce
<1>1. TypeOK /\ [Next]_vars =>
        [\A n \in Name : das_file[n] # Absent => das_file'[n] = das_file[n]]_vars
  <2> SUFFICES ASSUME TypeOK, [Next]_vars, NEW n \in Name, das_file[n] # Absent
               PROVE  das_file'[n] = das_file[n]
    OBVIOUS
  <2>1. ASSUME NEW f \in File, DasFromMemory(f) PROVE das_file'[n] = das_file[n]
    BY <2>1 DEF DasFromMemory, files
  <2>2. ASSUME NEW f \in File, DasFromDisk(f) PROVE das_file'[n] = das_file[n]
    BY <2>2 DEF DasFromDisk, files
  <2>3. ASSUME NEW f \in File, NEW fault, DasFromFile(f, fault) PROVE das_file'[n] = das_file[n]
    BY <2>3, WriteAbsent DEF DasFromFile
  <2>4. ASSUME NEW f \in File, DdsFromMemory(f) PROVE das_file'[n] = das_file[n]
    BY <2>4 DEF DdsFromMemory, files
  <2>5. ASSUME NEW f \in File, DdsFromDisk(f) PROVE das_file'[n] = das_file[n]
    BY <2>5, AddDasOnce DEF DdsFromDisk
  <2>6. ASSUME NEW f \in File, NEW fault, DdsFromFileFails(f, fault) PROVE das_file'[n] = das_file[n]
    BY <2>6 DEF DdsFromFileFails, files
  <2>7. ASSUME NEW f \in File, NEW fault, DdsFromFile(f, fault) PROVE das_file'[n] = das_file[n]
    BY <2>7, AddDasOnce DEF DdsFromFile
  <2>8. ASSUME NEW f \in File, DataFromMemory(f) PROVE das_file'[n] = das_file[n]
    BY <2>8 DEF DataFromMemory, files
  <2>9. ASSUME NEW f \in File, NEW fault, DataFromFile(f, fault) PROVE das_file'[n] = das_file[n]
    BY <2>9 DEF DataFromFile, files
  <2>10. ASSUME NEW f \in File, NEW fault, DataWithIDs(f, fault) PROVE das_file'[n] = das_file[n]
    BY <2>10 DEF DataWithIDs, files
  <2>11. ASSUME NEW f \in File, DmrFromMemory(f) PROVE das_file'[n] = das_file[n]
    BY <2>11 DEF DmrFromMemory, files
  <2>12. ASSUME NEW f \in File, NEW fault, DmrDirect(f, fault) PROVE das_file'[n] = das_file[n]
    BY <2>12 DEF DmrDirect, files
  <2>13. ASSUME NEW f \in File, NEW fault, DmrFromDds(f, fault) PROVE das_file'[n] = das_file[n]
    BY <2>13 DEF DmrFromDds, files
  <2>14. ASSUME NEW f \in File, NEW fault, DmrWithIDs(f, fault) PROVE das_file'[n] = das_file[n]
    BY <2>14 DEF DmrWithIDs, files
  <2>15. ASSUME NEW f \in File, NEW fault, DmrDefault(f, fault) PROVE das_file'[n] = das_file[n]
    BY <2>15 DEF DmrDefault, files
  <2>16. ASSUME NEW f \in File, ReplaceFile(f) PROVE das_file'[n] = das_file[n]
    BY <2>16 DEF ReplaceFile, files
  <2>17. CASE AddAttributesFromMemory
    BY <2>17 DEF AddAttributesFromMemory, files
  <2>18. ASSUME NEW fault, AddAttributesFromFile(fault) PROVE das_file'[n] = das_file[n]
    BY <2>18 DEF AddAttributesFromFile, files
  <2>19. CASE Release
    BY <2>19 DEF Release, files
  <2>20. CASE Restart
    BY <2>20 DEF Restart, files
  <2>21. CASE UNCHANGED vars
    BY <2>21 DEF vars, files
  <2> QED BY <2>1, <2>2, <2>3, <2>4, <2>5, <2>6, <2>7, <2>8, <2>9, <2>10, <2>11, <2>12, <2>13, <2>14, <2>15, <2>16, <2>17, <2>18, <2>19, <2>20, <2>21 DEF Next
<1> QED BY <1>1, TypeCorrect, PTL DEF Spec, DASFileWrittenOnce

-----------------------------------------------------------------------------
(***************************************************************************)
(* 64-bit integers in the DMR                                              *)
(***************************************************************************)

\* No setting asks for 64-bit integers in a DMR that is made from DDS and DAS and
\* owns a file id: hdf5_build_dmr_with_IDs does not set dmr_int64.
No64BitWithIDs ==
    \A c \in Configs :
      c["dmr_long_int"] /\ c["usecf"] /\ ~c["usecfdmr"] => ~c["pass_fileid"]

\* The DMRs in the memory cache have them.
Cached64Bit == cfg["dmr_long_int"] => \A f \in File : dmr_cache[f] # Absent => dmr_cache[f].int64

Int64Inv == Cached64Bit /\ DMRHas64BitIntegers

\* A cache of DMRs with 64-bit integers stays one when such a DMR is added.
LEMMA Added64Bit ==
    ASSUME TypeOK, Cached64Bit, NEW f \in File, NEW d \in Dmr, d.int64, cfg["dmr_long_int"],
           dmr_cache' \in Added(dmr_cache, f, d)
    PROVE  \A g \in File : dmr_cache'[g] # Absent => dmr_cache'[g].int64
<1>1. ASSUME NEW g \in File, dmr_cache'[g] # Absent PROVE dmr_cache'[g].int64
  <2>1. dmr_cache'[g] = d \/ dmr_cache'[g] = dmr_cache[g]
    BY <1>1 DEF Added
  <2> QED BY <1>1, <2>1 DEF Cached64Bit
<1> QED BY <1>1

\* A response of another kind, and a failed one, say nothing of 64-bit integers.
LEMMA NotADmr ==
    ASSUME NEW f, NEW int64, NEW fd
    PROVE  /\ \A das : DasResponse(f, das, int64).kind # "dmr"
           /\ \A dds : DdsResponse(f, dds, int64).kind # "dmr"
           /\ \A dds, ia : DataResponse(f, dds, ia, int64, fd).kind # "dmr"
           /\ \A kind : ~Failed(kind, f, int64, fd).ok
BY DEF DasResponse, DdsResponse, DataResponse, Failed, Blank

\* A DMR response holds the DMR it was made with.
LEMMA ADmr ==
    ASSUME NEW f, NEW dmr, NEW int64, NEW fd
    PROVE  DmrResponse(f, dmr, int64, fd).dmr = dmr
BY DEF DmrResponse, Blank

\* Every step keeps the DMRs of the cache and of the response with their 64-bit
\* integers.
LEMMA Int64Step ==
    ASSUME No64BitWithIDs
    PROVE  TypeOK /\ Int64Inv /\ [Next]_vars => Int64Inv'
<1> SUFFICES ASSUME TypeOK, Int64Inv, [Next]_vars PROVE Int64Inv'
  OBVIOUS
<1> DEFINE Silent(r) == r # Absent => r.kind # "dmr" \/ ~r.ok
           Goal == Int64Inv'
<1>0. ASSUME cfg' = cfg, dmr_cache' = dmr_cache,
             Silent(resp') \/ resp' = resp \/ (cfg["dmr_long_int"] => resp'.dmr.int64)
      PROVE  Goal
  BY <1>0 DEF Int64Inv, Cached64Bit, DMRHas64BitIntegers
<1>1. ASSUME NEW f \in File, DasFromMemory(f) PROVE Goal
  BY <1>0, <1>1, NotADmr DEF DasFromMemory, caches
<1>2. ASSUME NEW f \in File, DasFromDisk(f) PROVE Goal
  BY <1>0, <1>2, NotADmr DEF DasFromDisk
<1>3. ASSUME NEW f \in File, NEW fault, DasFromFile(f, fault) PROVE Goal
  BY <1>0, <1>3, NotADmr DEF DasFromFile
<1>4. ASSUME NEW f \in File, DdsFromMemory(f) PROVE Goal
  BY <1>0, <1>4, NotADmr DEF DdsFromMemory, caches
<1>5. ASSUME NEW f \in File, DdsFromDisk(f) PROVE Goal
  BY <1>0, <1>5, NotADmr DEF DdsFromDisk
<1>6. ASSUME NEW f \in File, NEW fault, DdsFromFileFails(f, fault) PROVE Goal
  BY <1>0, <1>6, NotADmr DEF DdsFromFileFails, caches
<1>7. ASSUME NEW f \in File, NEW fault, DdsFromFile(f, fault) PROVE Goal
  BY <1>0, <1>7, NotADmr DEF DdsFromFile
<1>8. ASSUME NEW f \in File, DataFromMemory(f) PROVE Goal
  BY <1>0, <1>8, NotADmr DEF DataFromMemory, caches
<1>9. ASSUME NEW f \in File, NEW fault, DataFromFile(f, fault) PROVE Goal
  BY <1>0, <1>9, NotADmr DEF DataFromFile
<1>10. ASSUME NEW f \in File, NEW fault, DataWithIDs(f, fault) PROVE Goal
  BY <1>0, <1>10, NotADmr DEF DataWithIDs, caches
<1>11. ASSUME NEW f \in File, DmrFromMemory(f) PROVE Goal
  <2>1. cfg["dmr_long_int"] => dmr_cache[f].int64
    BY <1>11 DEF DmrFromMemory, Int64Inv, Cached64Bit
  <2> QED BY <1>0, <1>11, <2>1, ADmr DEF DmrFromMemory, caches
<1>12. ASSUME NEW f \in File, NEW fault, DmrDirect(f, fault) PROVE Goal
  BY <1>0, <1>12, NotADmr, ADmr DEF DmrDirect, caches, FreshDmr
<1>13. ASSUME NEW f \in File, NEW fault, DmrFromDds(f, fault) PROVE Goal
  <2> DEFINE d == FreshDmr(f, Consult("live") = "live")
  <2>1. d \in Dmr /\ (cfg["dmr_long_int"] => d.int64)
    BY <1>13, FreshType DEF DmrFromDds, Consult, FreshDmr, TypeOK
  <2>2. CASE fault = "none"
    <3>1. /\ cfg' = cfg /\ dmr_cache' \in Added(dmr_cache, f, d)
          /\ resp' = DmrResponse(f, d, Consult("live"), "none")
      BY <1>13, <2>2 DEF DmrFromDds
    <3> HIDE DEF d
    <3>2. resp'.dmr = d
      BY <3>1, ADmr
    <3>3. Cached64Bit'
      BY <2>1, <3>1, Added64Bit DEF Int64Inv, Cached64Bit
    <3> QED BY <2>1, <3>1, <3>2, <3>3 DEF Int64Inv, DMRHas64BitIntegers
  <2>3. CASE fault # "none"
    BY <1>0, <1>13, <2>3, NotADmr DEF DmrFromDds
  <2> QED BY <2>2, <2>3
<1>14. ASSUME NEW f \in File, NEW fault, DmrWithIDs(f, fault) PROVE Goal
  <2>1. ~cfg["dmr_long_int"] /\ cfg' = cfg /\ dmr_cache' = dmr_cache
    BY <1>14 DEF DmrWithIDs, No64BitWithIDs, TypeOK, caches
  <2> QED BY <1>0, <2>1
<1>15. ASSUME NEW f \in File, NEW fault, DmrDefault(f, fault) PROVE Goal
  <2> DEFINE d == FreshDmr(f, TRUE)
  <2>1. d \in Dmr /\ d.int64
    BY FreshType DEF FreshDmr, TypeOK
  <2>2. CASE fault = "none"
    <3>1. /\ cfg' = cfg /\ dmr_cache' \in Added(dmr_cache, f, d)
          /\ resp' = DmrResponse(f, d, "unused", "none")
      BY <1>15, <2>2 DEF DmrDefault
    <3> HIDE DEF d
    <3>2. resp'.dmr = d
      BY <3>1, ADmr
    <3>3. Cached64Bit'
      BY <2>1, <3>1, Added64Bit DEF Int64Inv, Cached64Bit
    <3> QED BY <2>1, <3>1, <3>2, <3>3 DEF Int64Inv, DMRHas64BitIntegers
  <2>3. CASE fault # "none"
    BY <1>0, <1>15, <2>3, NotADmr DEF DmrDefault
  <2> QED BY <2>2, <2>3
<1>16. ASSUME NEW f \in File, ReplaceFile(f) PROVE Goal
  BY <1>0, <1>16 DEF ReplaceFile, caches
<1>17. ASSUME AddAttributesFromMemory PROVE Goal
  <2>1. resp \in Response /\ resp.kind = "data"
    BY <1>17 DEF AddAttributesFromMemory, TypeOK
  <2>2. resp'.kind = "data"
    BY <1>17, <2>1 DEF AddAttributesFromMemory, Response
  <2> QED BY <1>0, <1>17, <2>2 DEF AddAttributesFromMemory, caches
<1>18. ASSUME NEW fault, AddAttributesFromFile(fault) PROVE Goal
  <2>1. resp \in Response /\ resp.kind = "data"
    BY <1>18 DEF AddAttributesFromFile, TypeOK
  <2>2. resp'.kind = "data"
    BY <1>18, <2>1 DEF AddAttributesFromFile, Response
  <2> QED BY <1>0, <1>18, <2>2 DEF AddAttributesFromFile
<1>19. CASE Release
  BY <1>0, <1>19 DEF Release, caches
<1>20. CASE Restart
  BY <1>20 DEF Restart, Int64Inv, Cached64Bit, DMRHas64BitIntegers
<1>21. CASE UNCHANGED vars
  BY <1>0, <1>21 DEF vars, caches
<1> QED BY <1>1, <1>2, <1>3, <1>4, <1>5, <1>6, <1>7, <1>8, <1>9, <1>10, <1>11, <1>12, <1>13, <1>14, <1>15, <1>16, <1>17, <1>18, <1>19, <1>20, <1>21 DEF Next

\* With EnableDMR64bitInt a DMR response has the 64-bit integers of the file, however
\* it is made and whether or not it comes from the memory cache, except for the one
\* way that does not set dmr_int64.
THEOREM DmrHas64Bit ==
    ASSUME No64BitWithIDs
    PROVE  Spec => []DMRHas64BitIntegers
<1>1. Init => Int64Inv
  BY DEF Init, Int64Inv, Cached64Bit, DMRHas64BitIntegers
<1>2. TypeOK /\ Int64Inv /\ [Next]_vars => Int64Inv'
  BY Int64Step
<1>3. Int64Inv => DMRHas64BitIntegers
  BY DEF Int64Inv
<1> QED BY <1>1, <1>2, <1>3, TypeCorrect, PTL DEF Spec
=============================================================================
