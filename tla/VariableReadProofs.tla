------------------------- MODULE VariableReadProofs -------------------------
(***************************************************************************)
(* Proofs about VariableRead, for every set of variables and every         *)
(* configuration: the caches keep to their keys, and in the configurations *)
(* that CleanConfig describes every request gets the data of its variable  *)
(* and a cache file that is there is used.                                 *)
(***************************************************************************)
EXTENDS VariableRead, TLAPS

\* An entry of a cache that was purged and then given a key is the new one
\* or was there before.
LEMMA AddedEntries ==
    ASSUME NEW cache, NEW purged, NEW key, NEW value,
           NEW k \in DOMAIN With(Without(cache, purged), key, value)
    PROVE  \/ k = key /\ With(Without(cache, purged), key, value)[k] = value
           \/ k \in DOMAIN cache /\ With(Without(cache, purged), key, value)[k] = cache[k]
<1>1. DOMAIN Without(cache, purged) = DOMAIN cache \ purged
      /\ \A j \in DOMAIN cache \ purged : Without(cache, purged)[j] = cache[j]
  BY DEF Without
<1>2. /\ DOMAIN With(Without(cache, purged), key, value) = DOMAIN Without(cache, purged) \cup {key}
      /\ With(Without(cache, purged), key, value)[key] = value
      /\ \A j \in DOMAIN Without(cache, purged) \ {key} :
           With(Without(cache, purged), key, value)[j] = Without(cache, purged)[j]
  BY DEF With
<1> QED
  BY <1>1, <1>2

\* Each variable has at most one memory cache.
LEMMA OneMemoryCache ==
    ASSUME NEW v PROVE ~(InSmall(v) /\ InLarge(v))
BY DEF InLarge

\* Every entry of the memory caches after Add was there or is the new one.
LEMMA AddEffect ==
    ASSUME NEW v, NEW data, Add(v, data)
    PROVE  /\ \A k \in DOMAIN srdata' :
                \/ InSmall(v) /\ k = Key(v) /\ srdata'[k] = data
                \/ k \in DOMAIN srdata /\ srdata'[k] = srdata[k]
           /\ \A k \in DOMAIN lrdata' :
                \/ InLarge(v) /\ k = Key(v) /\ lrdata'[k] = data
                \/ k \in DOMAIN lrdata /\ lrdata'[k] = lrdata[k]
<1>1. ASSUME NEW k \in DOMAIN srdata'
      PROVE  \/ InSmall(v) /\ k = Key(v) /\ srdata'[k] = data
             \/ k \in DOMAIN srdata /\ srdata'[k] = srdata[k]
  <2>1. CASE InSmall(v)
    <3>1. PICK purged \in SUBSET (DOMAIN srdata) :
            srdata' = With(Without(srdata, purged), Key(v), data)
      BY <2>1 DEF Add
    <3> QED
      BY <1>1, <2>1, <3>1, AddedEntries
  <2>2. CASE ~InSmall(v)
    BY <1>1, <2>2 DEF Add
  <2> QED
    BY <2>1, <2>2
<1>2. ASSUME NEW k \in DOMAIN lrdata'
      PROVE  \/ InLarge(v) /\ k = Key(v) /\ lrdata'[k] = data
             \/ k \in DOMAIN lrdata /\ lrdata'[k] = lrdata[k]
  <2>1. CASE InLarge(v)
    <3>1. PICK purged \in SUBSET (DOMAIN lrdata) :
            lrdata' = With(Without(lrdata, purged), Key(v), data)
      BY <2>1 DEF Add
    <3> QED
      BY <1>2, <2>1, <3>1, AddedEntries
  <2>2. CASE ~InLarge(v)
    BY <1>2, <2>2 DEF Add
  <2> QED
    BY <2>1, <2>2
<1> QED
  BY <1>1, <1>2

\* Every file of the disk cache after a purge or Store was there or is new.
DiskFrom(v, dap4) ==
    \A f \in DOMAIN disk' :
      \/ OnDisk(v) /\ f = CacheFile(v) /\ disk'[f] = Content(v, dap4)
      \/ f \in DOMAIN disk /\ disk'[f] = disk[f]

\* What storing the data does to the cache files.
LEMMA StoreEffect ==
    ASSUME NEW v, NEW dap4, Store(v, dap4)
    PROVE  DiskFrom(v, dap4)
<1> SUFFICES ASSUME NEW f \in DOMAIN disk'
             PROVE  \/ OnDisk(v) /\ f = CacheFile(v) /\ disk'[f] = Content(v, dap4)
                    \/ f \in DOMAIN disk /\ disk'[f] = disk[f]
  BY DEF DiskFrom
<1>1. CASE UNCHANGED disk
  BY <1>1
<1>2. CASE disk' = Without(disk, {CacheFile(v)})
  BY <1>2 DEF Without
<1>3. CASE OnDisk(v) /\ \E purged \in SUBSET (DOMAIN disk) :
             disk' = With(Without(disk, purged), CacheFile(v), Content(v, dap4))
  <2>1. PICK purged \in SUBSET (DOMAIN disk) :
          disk' = With(Without(disk, purged), CacheFile(v), Content(v, dap4))
    BY <1>3
  <2> QED
    BY <1>3, <2>1, AddedEntries
<1> QED
  BY <1>1, <1>2, <1>3 DEF Store

\* What a failed read does to the cache files.
LEMMA FailureEffect ==
    ASSUME NEW v, NEW dap4, ReadFails(v)
    PROVE  DiskFrom(v, dap4)
<1>1. PICK gone \in SUBSET {CacheFile(v)} :
        disk' = IF OnDisk(v) THEN Without(disk, gone) ELSE disk
  BY DEF ReadFails
<1>2. CASE OnDisk(v)
  BY <1>1, <1>2 DEF Without, DiskFrom
<1>3. CASE ~OnDisk(v)
  BY <1>1, <1>3 DEF DiskFrom
<1> QED
  BY <1>2, <1>3

\* A step of a read leaves in every cache what was there or what it adds; the
\* buffer it adds is the data, or zeros for one that came from the disk or
\* was projected.
ReadEffect(v, dap4) ==
    /\ \A k \in DOMAIN srdata' :
         \/ k \in DOMAIN srdata /\ srdata'[k] = srdata[k]
         \/ /\ InSmall(v) /\ k = Key(v)
            /\ srdata'[k] = v.data \/ OnDisk(v) \/ v.class = "projected"
    /\ \A k \in DOMAIN lrdata' :
         \/ k \in DOMAIN lrdata /\ lrdata'[k] = lrdata[k]
         \/ /\ InLarge(v) /\ k = Key(v)
            /\ lrdata'[k] = v.data \/ OnDisk(v) \/ v.class = "projected"
    /\ DiskFrom(v, dap4)

\* A read does to the caches and their files what ReadEffect says.
LEMMA ReadHasEffect ==
    ASSUME NEW v \in Var, NEW dap4 \in Protocol, Read(v, dap4)
    PROVE  ReadEffect(v, dap4)
<1>1. CASE MemoryHit(v, dap4)
  BY <1>1 DEF MemoryHit, ReadEffect, DiskFrom
<1>2. CASE ReadFromDisk(v, dap4)
  <2>1. OnDisk(v) /\ Add(v, Zeros) /\ UNCHANGED disk
    BY <1>2 DEF ReadFromDisk, Valid
  <2> QED
    BY <2>1, AddEffect DEF ReadEffect, DiskFrom
<1>3. CASE ReadFromSource(v, dap4) \/ ReadAfterDiskError(v, dap4)
  <2> DEFINE data == IF v.class = "projected" THEN Zeros ELSE v.data
  <2>1. Add(v, data) /\ Store(v, dap4)
    BY <1>3 DEF ReadFromSource, ReadAfterDiskError
  <2>2. data = v.data \/ v.class = "projected"
    OBVIOUS
  <2>3. DiskFrom(v, dap4)
    BY <2>1, StoreEffect
  <2> HIDE DEF data
  <2> QED
    BY <2>1, <2>2, <2>3, AddEffect DEF ReadEffect
<1>4. CASE ReadFails(v)
  <2>1. UNCHANGED <<srdata, lrdata>>
    BY <1>4 DEF ReadFails
  <2> QED
    BY <1>4, <2>1, FailureEffect DEF ReadEffect
<1> QED
  BY <1>1, <1>2, <1>3, <1>4 DEF Read

\* The reply of a read names the variable and where its values are from.
LEMMA ReadReplies ==
    ASSUME NEW v \in Var, NEW dap4 \in Protocol, Read(v, dap4)
    PROVE  /\ reply'.var = v
           /\ reply'.values \in {"right", "wrong", "none"}
           /\ reply'.from \in {"memory", "disk", "source", "fallback", "error"}
<1> USE DEF Reply, Values
<1>1. CASE MemoryHit(v, dap4)
  BY <1>1 DEF MemoryHit
<1>2. CASE ReadFromDisk(v, dap4)
  BY <1>2 DEF ReadFromDisk
<1>3. CASE ReadFromSource(v, dap4)
  BY <1>3 DEF ReadFromSource
<1>4. CASE ReadAfterDiskError(v, dap4)
  BY <1>4 DEF ReadAfterDiskError
<1>5. CASE ReadFails(v)
  BY <1>5 DEF ReadFails
<1> QED
  BY <1>1, <1>2, <1>3, <1>4, <1>5 DEF Read

\* Other steps only take things away.
LEMMA OtherSteps ==
    ASSUME Restart \/ (\E f \in DOMAIN disk : PurgeDisk(f)) \/ UNCHANGED vars
    PROVE  /\ \A k \in DOMAIN srdata' : k \in DOMAIN srdata /\ srdata'[k] = srdata[k]
           /\ \A k \in DOMAIN lrdata' : k \in DOMAIN lrdata /\ lrdata'[k] = lrdata[k]
           /\ \A f \in DOMAIN disk' : f \in DOMAIN disk /\ disk'[f] = disk[f]
           /\ reply' = reply
<1>1. CASE Restart
  BY <1>1 DEF Restart
<1>2. CASE \E f \in DOMAIN disk : PurgeDisk(f)
  <2>1. PICK f \in DOMAIN disk : PurgeDisk(f)
    BY <1>2
  <2> QED
    BY <2>1 DEF PurgeDisk, Without
<1>3. CASE UNCHANGED vars
  BY <1>3 DEF vars
<1> QED
  BY <1>1, <1>2, <1>3

-----------------------------------------------------------------------------
\* The caches hold buffers under keys and files of the variables that use
\* them (read() and handle_data_with_mem_cache, for every configuration).
THEOREM TypeCorrect == Spec => []TypeOK
<1>1. Init => TypeOK
  BY DEF Init, TypeOK
<1>2. TypeOK /\ [Next]_vars => TypeOK'
  <2> SUFFICES ASSUME TypeOK, [Next]_vars PROVE TypeOK'
    OBVIOUS
  <2>1. ASSUME NEW v \in Var, NEW dap4 \in Protocol, Read(v, dap4)
        PROVE  TypeOK'
    <3>1. ReadEffect(v, dap4)
      BY <2>1, ReadHasEffect
    <3>2. DOMAIN srdata' \subseteq {Key(w) : w \in {u \in Var : InSmall(u)}}
      BY <3>1 DEF ReadEffect, TypeOK
    <3>3. DOMAIN lrdata' \subseteq {Key(w) : w \in {u \in Var : InLarge(u)}}
      BY <3>1 DEF ReadEffect, TypeOK
    <3>4. DOMAIN disk' \subseteq {CacheFile(w) : w \in {u \in Var : OnDisk(u)}}
      BY <3>1 DEF ReadEffect, DiskFrom, TypeOK
    <3>5. \A f \in DOMAIN disk' : disk'[f] \in {Content(w, d) : w \in Var, d \in Protocol}
      BY <3>1 DEF ReadEffect, DiskFrom, TypeOK
    <3>6. /\ reply'.var \in Var
          /\ reply'.values \in {"right", "wrong", "none"}
          /\ reply'.from \in {"memory", "disk", "source", "fallback", "error"}
      BY <2>1, ReadReplies
    <3> QED
      BY <3>2, <3>3, <3>4, <3>5, <3>6 DEF TypeOK
  <2>2. ASSUME Restart \/ (\E f \in DOMAIN disk : PurgeDisk(f)) \/ UNCHANGED vars
        PROVE  TypeOK'
    <3>1. /\ DOMAIN srdata' \subseteq DOMAIN srdata
          /\ DOMAIN lrdata' \subseteq DOMAIN lrdata
          /\ \A f \in DOMAIN disk' : f \in DOMAIN disk /\ disk'[f] = disk[f]
          /\ reply' = reply
      BY <2>2, OtherSteps
    <3> QED
      BY <3>1 DEF TypeOK
  <2> QED
    BY <2>1, <2>2 DEF Next
<1> QED
  BY <1>1, <1>2, PTL DEF Spec

-----------------------------------------------------------------------------
\* A clean configuration keeps what the caches hold.
LEMMA CachesInvariant ==
    ASSUME CleanConfig PROVE Spec => []CachesHoldData
<1>1. Init => CachesHoldData
  BY DEF Init, CachesHoldData
<1>2. CachesHoldData /\ [Next]_vars => CachesHoldData'
  <2> SUFFICES ASSUME CachesHoldData, [Next]_vars, NEW w \in Var
               PROVE  /\ InSmall(w) /\ Key(w) \in DOMAIN srdata' => srdata'[Key(w)] = w.data
                      /\ InLarge(w) /\ Key(w) \in DOMAIN lrdata' => lrdata'[Key(w)] = w.data
                      /\ OnDisk(w) /\ CacheFile(w) \in DOMAIN disk' =>
                           \A e \in Protocol : disk'[CacheFile(w)] = Content(w, e)
    BY DEF CachesHoldData
  <2>0. /\ InSmall(w) /\ Key(w) \in DOMAIN srdata => srdata[Key(w)] = w.data
        /\ InLarge(w) /\ Key(w) \in DOMAIN lrdata => lrdata[Key(w)] = w.data
        /\ OnDisk(w) /\ CacheFile(w) \in DOMAIN disk =>
             \A e \in Protocol : disk[CacheFile(w)] = Content(w, e)
    BY DEF CachesHoldData
  <2>1. ASSUME NEW v \in Var, NEW dap4 \in Protocol, Read(v, dap4)
        PROVE  /\ InSmall(w) /\ Key(w) \in DOMAIN srdata' => srdata'[Key(w)] = w.data
               /\ InLarge(w) /\ Key(w) \in DOMAIN lrdata' => lrdata'[Key(w)] = w.data
               /\ OnDisk(w) /\ CacheFile(w) \in DOMAIN disk' =>
                    \A e \in Protocol : disk'[CacheFile(w)] = Content(w, e)
    <3>1. ReadEffect(v, dap4)
      BY <2>1, ReadHasEffect
    <3>2. InSmall(v) \/ InLarge(v) => ~OnDisk(v) /\ v.class # "projected"
      BY DEF CleanConfig, InMemory
    <3>3. InSmall(w) /\ Key(w) \in DOMAIN srdata' => srdata'[Key(w)] = w.data
      <4>1. InSmall(v) /\ InSmall(w) /\ Key(v) = Key(w) => v.data = w.data
        BY DEF CleanConfig
      <4> QED
        BY <2>0, <3>1, <3>2, <4>1 DEF ReadEffect
    <3>4. InLarge(w) /\ Key(w) \in DOMAIN lrdata' => lrdata'[Key(w)] = w.data
      <4>1. InLarge(v) /\ InLarge(w) /\ Key(v) = Key(w) => v.data = w.data
        BY DEF CleanConfig
      <4> QED
        BY <2>0, <3>1, <3>2, <4>1 DEF ReadEffect
    <3>5. OnDisk(w) /\ CacheFile(w) \in DOMAIN disk' =>
            \A e \in Protocol : disk'[CacheFile(w)] = Content(w, e)
      <4>1. OnDisk(v) /\ OnDisk(w) /\ CacheFile(v) = CacheFile(w) =>
              \A e \in Protocol : Content(v, dap4) = Content(w, e)
        BY DEF CleanConfig
      <4> QED
        BY <2>0, <3>1, <4>1 DEF ReadEffect, DiskFrom
    <3> QED
      BY <3>3, <3>4, <3>5
  <2>2. ASSUME Restart \/ (\E f \in DOMAIN disk : PurgeDisk(f)) \/ UNCHANGED vars
        PROVE  /\ InSmall(w) /\ Key(w) \in DOMAIN srdata' => srdata'[Key(w)] = w.data
               /\ InLarge(w) /\ Key(w) \in DOMAIN lrdata' => lrdata'[Key(w)] = w.data
               /\ OnDisk(w) /\ CacheFile(w) \in DOMAIN disk' =>
                    \A e \in Protocol : disk'[CacheFile(w)] = Content(w, e)
    BY <2>0, <2>2, OtherSteps
  <2> QED
    BY <2>1, <2>2 DEF Next
<1> QED
  BY <1>1, <1>2, PTL DEF Spec

\* What a clean configuration writes to the disk is what it expects there.
LEMMA ContentExpected ==
    ASSUME CleanConfig, NEW v \in Var, NEW dap4 \in Protocol, OnDisk(v)
    PROVE  /\ Content(v, dap4).data = v.data
           /\ Content(v, dap4).repr = Expected(v, dap4)
           /\ Content(v, dap4).size = ExpectedSize(v, dap4)
<1>1. v.type = "char" => dap4 = FALSE
  BY ConfigAssumption DEF CleanConfig
<1>2. CASE v.class # "projected" /\ v.type = "char"
  BY <1>1, <1>2 DEF Content, Expected, ExpectedSize
<1>3. CASE ~(v.class # "projected" /\ v.type = "char")
  BY <1>3 DEF Content, Expected, ExpectedSize
<1> QED
  BY <1>2, <1>3

\* In a clean configuration every request that succeeds gets the values of
\* the variable it asked for (HDF5CFArray::read and the other read methods).
THEOREM Served == ASSUME CleanConfig PROVE Spec => []ServedIsData
<1>1. Init => ServedIsData
  BY DEF Init, ServedIsData
<1>2. ServedIsData /\ CachesHoldData /\ [Next]_vars => ServedIsData'
  <2> SUFFICES ASSUME ServedIsData, CachesHoldData, [Next]_vars PROVE ServedIsData'
    OBVIOUS
  <2>1. ASSUME NEW v \in Var, NEW dap4 \in Protocol, MemoryHit(v, dap4)
        PROVE  ServedIsData'
    <3>1. InMemory(v) /\ Key(v) \in DOMAIN Cache(v)
      BY <2>1 DEF MemoryHit, Hit
    <3>2. Cache(v)[Key(v)] = v.data
      BY <3>1 DEF CachesHoldData, Cache, InMemory
    <3>3. v.class # "projected"
      BY <3>1 DEF CleanConfig
    <3>4. ~(v.type = "char" /\ ~dap4)
      <4>1. v.type = "char" => FALSE \notin Protocol
        BY <3>1 DEF CleanConfig
      <4>2. dap4 = TRUE \/ dap4 = FALSE
        BY ConfigAssumption
      <4> QED
        BY <4>1, <4>2
    <3> QED
      BY <2>1, <3>2, <3>3, <3>4 DEF MemoryHit, Reply, Values, ServedIsData
  <2>2. ASSUME NEW v \in Var, NEW dap4 \in Protocol, ReadFromDisk(v, dap4)
        PROVE  ServedIsData'
    <3>1. OnDisk(v) /\ CacheFile(v) \in DOMAIN disk
      BY <2>2 DEF ReadFromDisk, Valid
    <3>2. disk[CacheFile(v)] = Content(v, dap4)
      BY <3>1 DEF CachesHoldData
    <3>3. disk[CacheFile(v)].data = v.data /\ disk[CacheFile(v)].repr = Expected(v, dap4)
      BY <3>1, <3>2, ContentExpected
    <3> QED
      BY <2>2, <3>3 DEF ReadFromDisk, Reply, Values, ServedIsData
  <2>3. ASSUME NEW v \in Var, NEW dap4 \in Protocol,
               ReadFromSource(v, dap4) \/ ReadAfterDiskError(v, dap4) \/ ReadFails(v)
        PROVE  ServedIsData'
    BY <2>3 DEF ReadFromSource, ReadAfterDiskError, ReadFails, Reply, ServedIsData
  <2>4. ASSUME Restart \/ (\E f \in DOMAIN disk : PurgeDisk(f)) \/ UNCHANGED vars
        PROVE  ServedIsData'
    BY <2>4, OtherSteps DEF ServedIsData
  <2> QED
    BY <2>1, <2>2, <2>3, <2>4 DEF Next, Read
<1> QED
  BY <1>1, <1>2, CachesInvariant, PTL DEF Spec

\* In a clean configuration a variable is not read from the HDF5 file as long
\* as its cache file is there (read_data_NOT_from_mem_cache).
THEOREM Fetched == ASSUME CleanConfig PROVE Spec => SecondFetch
<1>1. CachesHoldData /\ [Next]_vars =>
        [\A v \in Var, dap4 \in Protocol :
           OnDisk(v) /\ CacheFile(v) \in DOMAIN disk => ~ReadFromSource(v, dap4)]_vars
  <2> SUFFICES ASSUME CachesHoldData, NEW v \in Var, NEW dap4 \in Protocol,
                      OnDisk(v), CacheFile(v) \in DOMAIN disk
               PROVE  ~ReadFromSource(v, dap4)
    OBVIOUS
  <2>1. disk[CacheFile(v)] = Content(v, dap4)
    BY DEF CachesHoldData
  <2>2. Valid(v, dap4)
    BY <2>1, ContentExpected DEF Valid
  <2> QED
    BY <2>2 DEF ReadFromSource
<1> QED
  BY <1>1, CachesInvariant, PTL DEF Spec, SecondFetch
=============================================================================
