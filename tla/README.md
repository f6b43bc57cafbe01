# TLA+ models of the HDF5 handler

The HDF5 handler is a module of the OPeNDAP BES. It answers requests for the
metadata (DAS, DDS, DMR) and the data of HDF5 files, in one of two ways: the
*default option* maps every HDF5 object to a DAP object, the *CF option* (BES key
`H5.EnableCF`) rebuilds a file along the CF conventions. This directory has TLA+
models of its stateful parts and of the algorithms on its data paths, TLC runs
that check them on small instances, and TLAPS proofs of what holds for all
instances. `PROJECT.json` relates them: which definition translates which lines
(`map`), which run checks what, a plausible bug for every property (`mutants`)
that makes the run fail, hazards, findings and theorems.

Sources are given as in the repository's root (`src/` in `PROJECT.json`).

## 1. Inventory

A BES listener forks one process per client connection. A process serves its
requests one after the other and has no threads; several processes share the
cache directories on disk. So concurrency is between processes, through files,
and the other hard behaviour is *sequences of requests* in one process: static
variables, memory caches and global tables outlive the request that set them.
Exceptions leave a handler anywhere, and what was done before stays done.

| Component (source) | State | Operations | What makes it correct |
|---|---|---|---|
| Request handler (`HDF5RequestHandler.cc`, `HDF5_DDS.h`, `HDF5_DMR.h`) | BES keys read once; four `ObjMemCache`s for DAS, DDS, DataDDS, DMR; the static pointer `dmr_int64`; the metadata cache files `<name>_das`, `<name>_dds` | `hdf5_build_das`, `_dds`, `_data`, `_data_with_IDs`, `_dmr`, `_dmr_with_IDs`, `add_attributes`, `add_das_to_dds`, destructors of `HDF5DDS`/`HDF5DMR` | metadata of the file asked for; a DDS comes with its attributes and a DataDDS says whether it has them; 64-bit objects go to the DMR being built; a file id is closed once |
| DAS cache file (`read_das_from_disk_cache`, `write_das_to_disk_cache`) | the file, its `fcntl` locks, the stdio buffer and file offset of each process | `access`, `fopen`, `fcntl`, `stat`, `fread`, `fwrite`, `fclose`; kills | what is read is a whole DAS; a reader is not kept waiting for ever |
| Variable data through caches (`HDF5CFArray.cc`, `HDF5BaseArray.cc`, `HDF5DiskCache.cc`, `HDF5*MissLLArray.cc`) | two memory caches of buffers, a disk cache of files checked by their size | `read()` of the array classes; purges; restarts | values served are the variable's |
| Algorithms of the data paths (`format_constraint`, `subset`, `obtain_cached_data`, `write_das_*`, `get_attr_info_from_dc`, `obtain_lrd_common_cache_dirs`, `check_*`) | none | - | selected elements in order; a DAS survives its stream, a cut-off one is noticed; the configuration means what its documentation says |
| Default option: group walks (`h5das.cc`, `h5dds.cc`, `h5dmr.cc`, `HDF5PathFinder.cc`) | global tables `paths`, `obj_paths` from object address to name; the files that external links lead to | `find_gloattr`, three walks, `get_hardlink`, `get_hardlink_dmr` | the walk ends in any file; nothing is left out; `HDF5_HARDLINK` names the object |
| Default option: variables (`HDF5Array.cc`, `HDF5Structure.cc`, `h5common.cc`) | none | `read()` of numbers, strings, compounds, arrays in compounds, references | the values are those of the elements the request selects, at each level |
| Default option: DMR dimensions (`h5dmr.cc`, `h5get.cc`, `HDF5Array.cc`) | the global `dt_inst`: names and paths of the dimensions of the dataset at hand | `get_dataset_dmr`, `read_objects`, `h5dims_transform_to_dap4` | two dimensions of a DMR are one exactly if they are one in the file; nothing is left over for the next dataset |
| CF: object model (`HDF5CF.cc`, `HDF5CFUtil.cc`) | groups, variables, attributes of one file for one request; the table name `FILE_ATTR_TABLE_NAME`, one copy per translation unit | flattening of names, clash handling, dimension names | names unique, and the same in the three responses |
| CF: general products (`HDF5GMCF.cc`, `h5gmcfdap.cc`, `HDF5GCFProduct.cc`) | the same, plus product type, pattern, coordinate and special variables | product detection, `Add_Dim_Name`, `Handle_CVar`, `Handle_SpVar`, `Handle_Coor_Attr`, `Handle_Hybrid_EOS5`, `Add_Path_Coord_Attr` and the stages between | each dimension has one coordinate variable; nothing is lost; `coordinates` names what is there |
| CF: HDF-EOS5 (`HDFEOS5CF.cc`, `HE5Parser.cc`, `heos5cfdap.cc`) | the same, plus grids, swaths, zonal averages with their dimensions and fields | metadata parser, correction of dimensions, coordinate rules | as above |
| CF: DAP output (`h5cfdap.cc`, `h5commoncfdap.cc`, `h5gmcfdap.cc`, `heos5cfdap.cc`) | none | `gen_*_cfdds`, `gen_*_cfdas`, `gen_*_cfdmr`, 64-bit objects into a DMR, metadata texts put together | the three responses agree; a grid mapping that is named is there; a fill value fits its variable |
| Computed coordinates (`HDF5GMCFMissLLArray.cc`, `HDFEOS5CFMissLLArray.cc`, `HDF5*Special*Array.cc`, `HDF5GMCFFillIndexArray.cc`, `HDF5GMSPCFArray.cc`) | none but the data caches | `read()` | monotone values from one end of the grid to the other; a part is a part of the whole |
| gctp (third-party), module registration (`HDF5Module.cc`) | outside | map projections; registration | - |

How they interact: the BES calls the request handler; it asks its memory caches,
then its cache files, then lets the group walks or a CF generator build the
metadata. CF generators call back through the static `dmr_int64` to put 64-bit
integer objects into a DMR. The variables put into a DDS or DMR later `read()`
their data, through the data caches when the CF option is on, and through the file
id the DDS or DMR owns when `H5.EnablePassFileID` is. The DAS and DDS walks
share `paths`.

## 2. Modules

| Module | Models | Proofs |
|---|---|---|
| `RequestHandler`, `MCRequestHandler` | the metadata handlers, one action per handler and path through it | `RequestHandlerProofs` |
| `DasDiskCache`, `MCDasDiskCache` | processes using one DAS cache file, one action per call others can see | `DasDiskCacheProofs` |
| `VariableRead`, `MCVariableRead` | `read()` with the three data caches | `VariableReadProofs` |
| `CacheFile` | what the DAS cache file promises to processes; `DasDiskCache` implements it | in `DasDiskCacheProofs` |
| `GroupWalk`, `MCGroupWalk` | the three group walks of the default option, one action per link | `GroupWalkProofs` |
| `DmrDimensions`, `MCDmrDimensions` | dimensions of a DMR of the default option, one action per dataset | `DmrDimensionsProofs` |
| `CFNames` | DAP names of paths, unique names, names of nameless dimensions | `GeneralProductProofs` |
| `GeneralCVs`, `LatLonPairs`, `NamedProducts` | what the stages of a general product do, as operators: patterns, dimension names, coordinate variables; latitudes and longitudes paired by attributes; products recognised by metadata | - |
| `GeneralProduct`, `MCGeneralProduct` | DDS, DAS and DMR of a general product, one action per stage | `GeneralProductProofs` |
| `Eos5Dims`, `Eos5CVs` | the stages of an HDF-EOS5 file, as operators | - |
| `Eos5Product`, `MCEos5Product` | DDS, DAS and DMR of an HDF-EOS5 file, one action per stage | - |
| `Hyperslab`, `DasStream`, `PathLists`, `ObjectRead`, `ComputedCVs`, `EosMetadata`, `CFOutput` | pure algorithms | - |
| `Algorithms` | a specification over those of them that are proved about, `Hyperslab`, `PathLists` and `EosMetadata`: each input is a state | `AlgorithmsProofs` |
| `MCOutput`, `MCAlgorithms` | inputs for these and their reference definitions | - |
| `Subsequences` | the elements of a sequence at given places | in `ProofLemmas` |
| `ProofLemmas` | numbers and sequences, for the modules with proofs | itself |

`GeneralProduct` and `Eos5Product` extend the modules with their operators and, both, `CFNames`;
`ObjectRead` and `ComputedCVs` use `Hyperslab` for selections; `DasDiskCache` takes `CacheFile` by
`INSTANCE ... WITH`. A definition called `Mutant<D>` is `D` with a plausible bug, for the
check that a property depends on it; no specification uses it.

### RequestHandler

State: `cfg` (keys), `ver` (version of each file, for replacements), the four
caches from path to object, the two cache files from *name* to content,
`dmr_int64`, and `resp`, the response of the current request. A metadata object is
reduced to where it comes from: file, version, the DAS merged into a DDS, whether
a DMR has the 64-bit objects. `Garbled` is what a failed write leaves in a cache
file. A process is sequential, so a handler is atomic, with the place where it
throws as parameter (`fault`, from `Stages`). Its actions follow the handlers'
branches: `DasFromMemory`, `DasFromDisk`, `DasFromFile`; `DdsFromMemory`,
`DdsFromDisk`, `DdsFromFile`; `DataFromMemory`, `DataFromFile`, `DataWithIDs`;
`AddAttributesFromMemory`, `AddAttributesFromFile`; `DmrFromMemory`, `DmrDirect`,
`DmrFromDds`, `DmrWithIDs`, `DmrDefault`. `AddDas*` is the part that
attaches a DAS to a DDS. `Release` is the destruction of the response,
`ReplaceFile` and `Restart` come from outside. `resp.int64` and `resp.fd` record
what a CF generator found in `dmr_int64` and what became of the file id.

### DasDiskCache

There a cache file is written at once, here by the calls it takes. A process goes through `access`, then either
`open_read .. unlock_read` or `build`, `open_write .. close_write`. `OpenWrite`
truncates *before* `LockWrite`; `Write` gives a block to `fwrite`, which may flush
any number of blocks at the file offset; `UnlockWrite` comes *before* `Close`, which
flushes the rest. A write at an offset past the end leaves a hole. `WriteFails`,
`CloseFails` and `Kill` are counted by `mishaps`.

`CacheFile` is the abstract file: absent, partial or whole; a process starts, builds, opens,
changes, closes, or looks and takes. It leaves open how writers exclude each other. Its fields are functions of
the detailed state (`content`, `phase`, `seen`, `answer`, `spoiled` at the end of `DasDiskCache`): the file
is whole if all its blocks are there, a process is writing from `fopen` to the end of
`fclose`, a reader has seen the length that `stat` gave it. `Implements` says that every call is a
step of the abstract file or none. Weaker than one would expect from `h5.conf.in:232`, the abstract file does not
promise that a reader never finds it partial: it can (section 6).

### VariableRead

An action is one `read()`. A buffer is described by whose data it holds, a cache
file by that and its size and encoding. Which memory cache and key a variable
gets, whether it goes to the disk and under which file name, follow the code's
conditions on the class and the type of the variable and on the configuration's
lists; what the lists say of a variable is part of its record (`PathLists` has the
lists). Eviction from a memory cache may happen whenever something is added, a
purge of the disk cache by other processes at any time. `Restart` and `PurgeDisk`
make the one process stand for many. Variables are smaller than 2 GiB and the data of
a file does not change.

### GroupWalk

A file is its links: for each group, what its names lead to, in order, by hard, soft and external links; the files
that external links lead to are part of it, `RootOf` and `AddressOf` say of each object in which file it is and at which
address there. `stack` is the recursion, `listed` and `hardlinks` what has been put into
the response. `Visited`/`Added` are `HDF5PathFinder`, which knows objects by address, behind the reference count of
`get_hardlink`. The walks differ in what they register and when: the DAS
registers the root (`find_gloattr`) and every object it meets; the DMR lists the datasets
of a group first and does not register the root; the DDS registers the group it
*is in*, under a bare link name (`Checked`, `CheckedName`).

They differ in links too. None follows soft links. External links are passed over by the DDS ("External links are not supported
in this release", `h5dds.cc:147`) and the DMR, while `depth_first` of `h5das.cc` tests for soft links alone (line 113). So the DAS walk opens
what an external link leads to (`Opened`), looks for its address in `paths`, which are addresses of the first file, lists it or goes into it. A member is opened by
its full path from the group at hand, which in the other file is looked up from *that* file's root: the walk fails (`NotOpened`) unless there is an
object of this kind there, and goes on with that one if there is. HDF5 follows a limited number of such links in one path (`LinkLimit` stands
for its `nlinks`, 16).

Left out: named datatypes, and pure
dimensions, which a DMR shows as dimensions. `depth_first` in `h5dmr.cc` is not modelled: its
only call is compiled out, a DMR is always built by `breadth_first`. Metadata memory caches are not
composed with it: a request of this module is one that they did not answer.

### DmrDimensions

State: `dimnames` and `dimnames_path`, the two lists of `dt_inst`, which live as long as the process; the
request (file, place in it, whether it found `dt_inst` empty, how it ended); `dims`, the dimensions
declared in the groups of the DMR; `variables` with the dimension each of their own is at.
An action handles the next dataset of the walk: `RefuseType` (a type that cannot be mapped, met after the
dimensions were noted), `PureDim` and `NoVariable` (nothing to show), `Scalar`, `Array`, `ArrayThrows` (a
dimension cannot be obtained) and `ArrayUndefined` (the two lists do not fit, and the code reads out of bounds). `Pushed`
is what `get_dataset_dmr` appends to them, `LeftNames` and `LeftPaths` what stays. `FoundIn` is the search
for a dimension in the groups above the variable, `Transform` that and its making. Sizes are left out.

### CF option: general products

A request makes an object of its own and takes it through a list of stages: `Stages(view)` is the sequence of
calls in `map_gmh5_cfdds`, `map_gmh5_cfdas` and `map_gmh5_cfdmr`, with those that depend on a key, and `At(stage)`
lets one action per stage run in that order; a stage that throws ends the request (`Throw`). So the three
lists, which differ in the code, can be compared, and the order of stages is the code's. State: the variables
(`vars`), coordinate variables (`cvars`) and special variables (`spvars`), groups, product type, pattern, the
book of dimension names (`book`: sizes, and which dimensions are unlimited), the flags the stages leave for each other, and
`answers`. Between requests only `FILE_ATTR_TABLE_NAME` remains.

Four keys (`Keys`, of which those in `cfg` are true): `CheckNameClashing` (`EnableCheckNameClashing`), `DmrLongInt` (`EnableDMR64bitInt`), `ForceFlatten`
(`ForceFlattenNDCoorAttr`) and `CoorattrAddPath` (`EnableCoorattrAddPath`); by default, as `h5.conf.in` has them, the first two are off and the last two
on. The attribute `coordinates` is written by three stages. `Handle_Coor_Attr` flattens it, makes it anew or matches it
with the pairs of latitude and longitude, by product and pattern; `Handle_Hybrid_EOS5` takes names of groups out of it;
`Add_Path_Coord_Attr`, the last one of the DAS and the DMR, adds the path of the group to bare names, resolves paths that go up and flattens the rest,
of each variable for which no stage before has cleared `coord_attr_add_path` (the field `addpath`).

A name is a sequence of words and a path a sequence of names (`CFNames`), so that `/g1/x` and `/g1_x` flatten to one
name and nothing is put together from characters; clashes, suffixes with numbers and cuts of prefixes are
all expressible. `NamedProducts` has one operator per product for names of dimensions, coordinate variables, special
variables and `coordinates`; `check_product` decides from the attributes.

### CF option: HDF-EOS5

The same construction over `map_eos5_cfdds`, `map_eos5_cfdas`, `map_eos5_cfdmr`. The parsed metadata of a file (objects
with dimensions and fields) are its input; `Eos5Dims` corrects them, gives the file's variables the
names of dimensions, by name or by size, and handles dimensions used twice; `Eos5CVs` finds and makes coordinate
variables for grids (with latitude and longitude of their own, shared, or projected), swaths (1-D, 2-D,
none) and zonal averages, and gives up grids and swaths that none fit. `Eos5Product` adds names, COARDS, duplicate
coordinate variables and `coordinates`.

### DAP output

`CFOutput` goes on where these end: from variables, attributes and groups with DAP names to the variables of a DDS and a
DMR and the tables of a DAS, for general and HDF-EOS5 files, with what is only in one of them: signed bytes
widened for DAP2, 64-bit objects (`dmr_int64`), DODS_EXTRA, grid mapping variables, full paths, and
fill values whose type is changed. `EosMetadata` puts the texts of an HDF-EOS5 file together from their parts.

### Other algorithms

`Hyperslab`: number of elements of a constraint, selection from a full buffer,
from the part of a cache file between the first and the last element, from the
two halves of a latitude/longitude file, and the natural numbers of an index
variable. `ObjectRead`: what the default option reads of a dataset of numbers, strings, compounds with
fields that are compounds or arrays with a selection of their own, or references, as the places in the file of all values in
order; where the code goes wrong the status is `undefined`. `ComputedCVs`: values of the variables that no dataset
holds, in whole numbers (halves or tenths counted). `DasStream`: writer and reader of the DAS cache file (entries and
flags). `PathLists`: parser of the large memory cache's configuration and its two
path tests; `string::find`'s `npos` keeps its wrap-around (`SizeLimit`). `DasStream`, `ObjectRead`
and `MCAlgorithms` use RECURSIVE operators and hold no theorems. `Algorithms` has one variable, the
input, that no step changes, so that what holds of every input is an invariant, checked and proved like others.

## 3. Runs

All runs finish within the five minutes for `tlc -workers 2`. Every property has a mutant of the code that its run refutes.

| Run | Instance and bound | Shows |
|---|---|---|
| `rh_disk` | two files with two names, no replacement, every stage may fail, DAP2 with all metadata caches, three key settings | `ResponseOfRequestedFile`, `DDSIncludesDAS`: responses are of the requested file, a DDS has attributes; `DASFileWrittenOnce` |
| `rh_dmr` | two files, one replacement, read faults, thirteen key settings of the DMR paths | `DMRHas64BitIntegers`, `MappingTarget`: 64-bit objects go to the right DMR; `IncludeAttributesFlag`; `HandleOwnership`: file ids are owned or closed |
| `das_file` | three processes, a DAS of three blocks, one mishap | `QuiescentComplete`: the file is whole once all writers have closed it, in spite of truncations and late flushes; `Implements`: all calls keep `CacheFile`'s promise; `ReaderProceeds`: a waiting reader proceeds |
| `var_caches` | eleven variables: every class, both memory caches, shared directories and names, signed bytes, a projected grid | `ServedIsData`: every successful read gets its variable's data; `SecondFetch`: a cache file is used as long as it is there |
| `algorithms` | 33078 inputs: arrays of up to three dimensions and five elements a dimension; compounds nested twice; computed variables of one to five places, longer ones where a width matters; DASes of two containers; lists of two names; three metadata objects or five; output files with one or two variables, grids or groups | `CacheSelection`, `ComputedSelection`, `ObjectSelection`, `ComputedValues`: values and selections are those of the reference definitions; `DasSurvives`; `ListsMatch`; `MetadataJoined`; `ResponsesAgree`, `GridMappingsResolve`, `AttributesFit`: DDS, DAS and DMR fit together |
| `walk` | files of three groups and a dataset, one with a cycle of hard links through all groups, three with external links to a file of two groups and a dataset: to what is at the same path there, to an address that the first file has too, to and fro | `CycleBroken`, `WalkEnds`: walks end; `FirstWalkIsComplete`; `HardlinkNamesObject` |
| `general` | 1589 files: all parts of pools of three to ten entries of variables, for general products and eleven recognised ones; the responses in any order; the four keys as they are by default, and the other way round | `UniqueNames`, `SameNames`, `NothingLost` for variables; `DimensionsKeepTheirIdentity`; `OneCVPerDimension`; `CoordinatesKept`: an attribute `coordinates` of the file names the same variables in the answer; `CoordinatesFound`: so does one that is made. With `CheckNameClashing` on, the first and the third are about the recognised products too (`Clashes`), with the early return for ACOS and OCO2 |
| `eos5` | 1060 files: all parts of four pools of objects; name clashing checked | `UniqueNames`, `DimensionsAgree`, `CoordinatesFound` |
| `dmr_dims` | files of three groups with up to two dimensions `x`, one of them perhaps under two links, and a variable in each group; at most two leftover entries of `dt_inst` | `CleanAfterSuccess`, `DimensionsShared` |
| `var_both_caches` (violation) | disk and memory cache for one variable | section 5 |
| `walk_again` (violation) | DAS requests only; tree, two names, cycles of length one to three, and to the root; no external links | section 5 |
| `dmr_dims_again` (violation) | as `dmr_dims` | section 5 |

Why the bounds are enough. *RequestHandler*: caches are indexed by path and files
by name, no operation relates two entries, so two files show every confusion of
one with another; one replacement distinguishes old from new. *DasDiskCache*:
the third process adds a writer that truncates between two others; three blocks
have a first, an inner and a last one, so holes and partial flushes occur. The theorems
have no bound. *VariableRead*: one variable, or pair, per branch of the choice of
key and file. *Algorithms*: strides that divide the distance and that do not, each
dimension of size one and more, an inner dimension between two others; a field before and one after the
field at hand; each kind of computed variable with each shape of its description. *GroupWalk*: the
files share their addresses, so that what one request registers meets another file, and the linked file has the addresses of the root, a group and a dataset of the
first; two external links in one path are the least with which a walk can get back (`LinkLimit = 2`); `Reachable` objects have at
least one path. *General products and HDF-EOS5*: a stage relates two variables, a variable and a dimension, or a
variable and the first of a kind; each pool has, for each branch of the stages, entries that meet it and entries
that collide with them by name, size or group, and all parts of a pool are files, so each meets the branch alone and
with every other. *DmrDimensions*: a leftover of one request is met by the next; two entries are the most that one dataset leaves.

`MaxVersion`, `MaxMishaps` and `MaxLeft` bound what could go on for ever: replacements of a file, kills and failed writes,
leftover entries. `SizeLimit` is the width of `string::size_type` in `PathLists`; `Blank` the number of blanks at
the end of a configuration line (section 6).

Fairness. `das_file`: weak fairness of `Step(p)` of every process - a process that is not
waiting for a lock runs; `LockRead` and `LockWrite` are the only steps that wait. No fairness among
waiting writers is assumed, nor any end of mishaps beyond their bound. `walk`: weak
fairness of the loop over links; `Fail` and `Restart` are not fair. That walks end is about the files of the run: with
`LinkLimit` external links to a path, a walk that comes back to its own file is cut by `paths` or by the limit. The other runs
check no liveness: a handler is an action, or a list of stages each of which ends. Deadlock is checked in every run but those of general products and
`eos5`, where each of the three responses is asked for once and nothing happens after.

What the hypotheses of properties leave out is what the code does wrong or promises to nobody: each is among the observations of section 6.

## 4. Proofs

`RequestHandlerProofs`: `IInv` is inductive: `TypeOK`, the contents of the
caches (`dds_cache` only with attributes, `datadds_cache` only without, `CacheContents`),
when `dmr_int64` can be set (`PointerInv`), and the properties it gives:
`DDSIncludesDAS`, `IncludeAttributesFlag`, `MappingTarget`, `HandleOwnership`. The
properties alone are not inductive, since a response comes from a cache whose
contents they say nothing of. There is one lemma per field of a
response, so that steps need not expand the records, and one step per action.
`RequestedFile` assumes that no two files share a name (`InjectiveNames`) and uses the
invariant `ContentsOfFile` of caches and cache files; without the assumption it does not hold
(section 6). `WrittenOnce` proves the action property.

`DasDiskCacheProofs`: `TypeCorrect` and, with `Offsets` and `Pending`, `Quiescent`. A
truncation destroys what others have written, so "the file is whole" is not
inductive; `Pending` says that each block that is missing is still to be
written by a process that has the file open and has not flushed that far. `Implementation` is the refinement
of `CacheFile`: initial states map to initial states, and each call to a step of the abstract file or a stutter;
that the last writer to close leaves the file whole is `Pending` again.

`VariableReadProofs`: `TypeCorrect` for all configurations; `Served` and
`Fetched` for those described by `CleanConfig` (no variable in both kinds of cache, no signed
bytes where the encoding of DAP2 and DAP4 differ, no projected grid in memory, no
collisions of keys or file names), from `CachesHoldData`, that every buffer and valid file holds the data of the variables that
look there. `CleanConfig` is exactly what the counterexamples of section 5 and 6 lack; the instance of `var_caches` fulfils it.

`DMRHas64BitIntegers` needs that the DMRs in the memory cache have 64-bit integers too (`Int64Inv`), and
assumes `No64BitWithIDs`: `hdf5_build_dmr_with_IDs` does not set `dmr_int64` (section 6).

`GroupWalkProofs`, for every file, a finite set of groups with any links between them and to other files, and any earlier requests.
`CycleTheorem`: a group with several hard links that a walk is in is in its map, but for the one that each kind of
walk fails to register (`DasCycle`, `DdsCycle`, `DmrCycle`): so a DAS walk is in no group twice and
the others at most twice, as long as it has followed no external link (`Inside`; the frames that are reached through one are marked
`abroad`). `HardlinkTheorem` and `CompleteTheorem` are about first walks, and for the DAS about files whose external links lead to
files that are `Apart`: they have no links back, and no object with two hard links at the address of one of the file's own. This is what
is needed: for the file `SameAddress` of the run TLC finds both properties violated without it (section 6). `HardlinkTheorem`: the map, the attributes and the stack hold only paths that
resolve to their objects, for the objects of the file itself, and what is at a frame that is `abroad` is away (`NamesInv`); an address found in the map belongs to an object
of the file itself or to one that has no namesake there. `CompleteTheorem`: a group of the file itself that is listed has all its
objects listed, or the walk is in it and has listed those of the links it has taken (`ListedInv`); at the end the stack is
empty, so what is listed is closed under hard links and holds what can be reached by them.

`DmrDimensionsProofs`: `CleanTheorem`, that a request leaves `dt_inst` empty if it found it so and did not fail: for every
dataset, the names that are noted are as many as the dimensions that take them. `SharedTheorem`, about files
of the netCDF-4 model: what is said of the end of a request is not inductive; `Shared` says it of the links passed so far, and says more: each group has declared every dimension
scale passed in it, and each dimension of a variable is the one at the path of the dataset that
it is to be. The search, which goes through the groups above a variable, needs the former to find the latter. Over the
dimensions of one array it is an induction of its own.

`GeneralProductProofs`: `ClashingTheorem` and `TwoListsTheorem` for `Handle_General_NameClashing` and
`Handle_Obj_NameClashing`, for lists of names of any length. The invariant of the loop is that the names so far are
different and taken; that the loop of `gen_unique_name` ends is that a finite set does not hold all
numbered names. `UniqueNamesTheorem` is `UniqueNames` of `GeneralProduct`, for any files, products, settings and
orders of requests. That names are different is established by one of sixteen to eighteen stages and has to survive those after
it, so `IInv` says what holds before each (`Reached`):

- up to `Flatten_Obj_Name` names are paths (`EarlyList`), whatever the pattern or product did: each way to name
  dimensions leaves the names of variables (`NamesKept`), each way to find or make up coordinate variables, to split 64-bit integers or
  to shorten names ends in a path. `Aqu_L3` makes coordinate variables of the names of dimensions, so these are paths there (`NamedDims`);
- before `Handle_Obj_NameClashing` they are sequences of words (`FlatList`), after it those of the three lists and of the groups are
  different (`Late`, from `ClashingTheorem` for one list after the other);
- later stages change some names: `Handle_Hybrid_EOS5` and `Rename_NC4_NonCoordVars`. The names that are kept (`KeepsName`, seen
  from the path) embed into those before (`Embeds`): each variable is another one of the old list, with its name. For this a
  name that is kept must not hold the words that are removed, which has to be known from the start: that
  is the last conjunct of `EarlyVar`, `FlatVar` and `LateVar`.

It assumes what is true of decimal numbers and not defined in TLC's `ToString`: different numbers are written differently (`Digits`),
and none as `HDFEOS` or `HDFEOS_INFORMATION` (`OtherNumbers`); and, of the files, that a variable has
a path (`FilesAssumption`), and of the names to be sorted the same (`NameOrderAssumption`). That a DDS looks at no groups is
the case distinction of `Late`.

`AlgorithmsProofs`: three properties of the run `algorithms` as invariants of `Algorithms`, for every set of inputs that
fulfils `InputsAssumption`: selections are those that the BES's parser of constraints accepts for the sizes of
the array, metadata objects are what the links of the group can be.
`CacheSelectionHolds` and `ComputedSelectionHolds`, for arrays of any number of dimensions of any sizes and every legal selection,
rest on `CountVisitsSelected`, that `format_constraint` counts the selected places; `MemoryTheorem`, that `subset` gives the
selected elements in order and each once; `DiskTheorem`, that the partial read of a cache file gives the same;
`LatLonTheorem` and `NaturalNumbersTheorem` for what is computed. The reference, the places of the selection in
rising order, is the only list with these elements in that order, so that lists can be compared. Places and positions correspond one to one and in order;
the nested loops run through each combination of counters once, in that order, and start and stride do
not change which; `m` numbers that rise within `m` successive ones are those, which is why comparing the
counts is enough. Numbers are unbounded there: `int` overflow is not covered (section 8).
`MetadataJoinedHolds`, for any number of parts with any numbers and texts: the invariant of the loop over the
objects is that each place of a kind's list is empty or holds the text of a part with that number; a list that ends up without
an empty place has as many parts as places, so each number once (a finite set has no injection into a smaller
one), and then it is the reference's list.

The assumptions of the modules are the types of their constants, that model values
differ from data (`SentinelAssumption`, `NoneAssumption`) and what HDF5 promises of links (`FileAssumption`). They are
evaluated by TLC in each run. Inductions, over links, loops and dimensions, are proved from the smallest number for
which the claim is false (`MinNat` in `ProofLemmas`); recursive functions, like `Product`, by the existence of a function
that fulfils their equation.

Only model-checked, and why: liveness (`ReaderProceeds`, `WalkEnds`), which is out of the prover's reach; `DasSurvives`,
`ObjectSelection` and `ComputedValues`, whose modules have recursive operators; `ListsMatch` and the
properties of the DAP output, which are about texts and tables that filters and folds put together; the other
properties of `GeneralProduct` and those of `Eos5Product`, whose stages are written with `FoldLeft`, `SelectSeq` and functions of
functions, which the provers cannot expand; for `UniqueNames` those of `GeneralProduct` were stated with places
(`Those`, `ElementsAt`) and recursive functions.

## 5. Findings

| Run | What happens |
|---|---|
| `var_both_caches` | A variable that both caches want is read from the disk cache straight to DAP; the memory cache's buffer is added without having been filled, and the next request gets zeros. |
| `walk_again` | `paths` is never cleared: the second DAS of a process has no attributes below groups with two hard links - of that file or of a file with a group at the same address. |
| `dmr_dims_again` | `dt_inst` is static: after a request that failed at a dataset whose dimensions were noted, the names of later datasets' dimensions are appended to what is left, never fit the number of dimensions and are not used: every later DMR of the process has arrays with sizes only. |

## 6. Observations that have no run

Met while modelling. Each is either reproduced by a change of a constant, or kept out of the inputs or of a property by
a hypothesis that is named, or read from code next to what is modelled.

*Metadata caches and DAS cache file.*

- Metadata cache files are named by the file's name without its directory (`HDF5RequestHandler.cc:527`,
  `h5.conf.in:232`): of `/a/x.h5` and `/b/x.h5` the second is answered with the DAS of the first. `BaseName` not
  injective in `RequestHandler`; `ResponseOfRequestedFile` is proved under `InjectiveNames`.
- `add_attributes` does not reset `dmr_int64` (`HDF5RequestHandler.cc:2571`), which may point to the DMR of an earlier request, destroyed
  since; the generator then takes the request for one of a DMR. `MappingTarget` names the two paths.
- `fopen("w")` truncates before the lock is taken (`HDF5RequestHandler.cc:2008`): a reader that comes between finds the cache
  file empty or partial. `CacheFile` allows it.
- `hdf5_build_dmr_with_IDs` never sets `dmr_int64` (`HDF5RequestHandler.cc:1609`): with `EnablePassFileID` and without
  `EnableCFDMR` the DMR has no 64-bit integers, whatever `EnableDMR64bitInt` (`h5.conf.in:177`). `DmrConfigs` has the pair with the key off only.
- The lock of a metadata cache file is released before `fclose` flushes
  (`HDF5RequestHandler.cc:2039`). `QuiescentComplete` shows that nothing is lost in the end.

*Variable data.*

- A DAP4 request for a signed byte variable writes bytes to a cache file whose
  size is checked as if they were shorts (`HDF5CFArray.cc:234`, `:427`): the file is never valid
  for DAP4, and DAP2 takes it for shorts. `Protocol = {TRUE, FALSE}` in `VariableRead`.
- From memory, a signed byte variable is sent to DAP2 as the wrong buffer
  (`HDF5BaseArray.cc:217` passes `val` instead of `newval`). A `char` variable without `hard`.
- A projected latitude is put into the memory cache from a buffer that
  `HDFEOS5CFMissLLArray.cc:82` never fills. A `projected` variable without `excluded`, `LrCache = TRUE`.
- A blank at the end of a line of the cache configuration makes an empty name
  that hides every other (`HDF5BaseArray.cc:462`). `Blank = 1` in `Algorithms.cfg`.
- `rfind`'s `npos` equals the wrapped difference of the lengths when a listed name
  is one longer than the path (`HDF5BaseArray.cc:517`). `ListsMatch` leaves the case out by its hypothesis.
- `obtain_ll_cache_name` (`HDFEOS5CFMissLLArray.cc:363-428`) joins numbers without separators and cuts them
  (`get_int_str`, `HDF5CFUtil.cc:603-629`: 10, 0 and -1 to -9 become the empty string, from 100 on last digits
  go), so different grids of one size share a cache file; only the size of the file is checked, though `h5.conf.in:307-309` promises
  one file for the same latitude and longitude. Projected grids are left out of `ComputedCVs`.
- Whole arrays of signed bytes in compounds are copied into a vector without elements (`HDF5Array.cc`, around 1348); arrays of
  strings in arrays of compounds are passed as characters (around 1268; `HDF5Structure.cc:238` notes that it does not work);
  parts of such arrays of `Int8`, `Int64` and `UInt64` throw though the whole does not. `Unsupported` in `ObjectRead` names these.
- A reference to a region ends at start + stride * (count - 1) + (block - 1) only for blocks of one or strides of
  one; references to whole dataspaces add no text, so that the vector is shorter than the array.
- Computed variables: a new GPM level 3 file with one header for all grids parses an empty second header; the memory cache is filled with as many values as the
  header says, whatever the dimension has; `FillIndex` values of a signed byte wrap at 128 in DAP4 and not in DAP2;
  `obtain_gpm_l3_ll` closes a file id it does not own, and a group twice, on a failure.

*Group walks and dimensions of a DMR (default option).*

- `get_hardlink(pid, ...)` in `h5dds.cc:188` asks about the parent: of a group with two hard links only the first
  subgroup's variables are in the DDS. `WalkIsComplete` with `Kinds = {"dds"}`.
- After a DDS walk, HDF5_HARDLINK values of a DAS in the same process may be bare
  link names; `HardlinkNamesObject` is for first walks.
- An external link to a group or dataset makes the DAS fail unless the other file has an object of that kind at the same path
  (`NotOpened`); if it has, attributes of that object are shown. A DDS and a DMR of the file are given all the same.
- The DAS walk follows external links and takes addresses of the other file for those of its own (`h5das.cc:113`, `:173`, `:244`): in a first DAS, an
  object of the file can get an HDF5_HARDLINK that names one of the other file, though it "is the name of the HDF5 dataset when it is first
  visited" (`h5das.cc:250`), and a group of the file can be left out. `Apart` is the hypothesis that excludes both.
- A root variable that uses `/g/x` gets a dimension `x` of the root, and a later one with `/x` takes that; scales with two
  dimensions are not declared in their group, so that each child group declares its own. `FollowsNetCDF4` leaves both out.
- The size of a shared dimension is that of the first variable met, although unlimited dimensions of netCDF-4 allow smaller
  variables. Sizes are not modelled.
- Leftover names without leftover paths make `dimpath[k]` an access out of bounds (`ArrayUndefined`).

*General products.*

- `Rename_NC4_NonCoordVars` (`HDF5GMCF.cc:7003-7014`) cuts the prefix after names were made unique: a variable `x` and
  a coordinate variable `x` both appear. `Plain` leaves the case out, and `KeepsName` the variable.
- `FILE_ATTR_TABLE_NAME` is static in a header (`HDF5CF.h:63`): `HDF5CF.cc:1425` renames its own copy, and `h5gmcfdap.cc:525` and
  `heos5cfdap.cc:766` go on using the name that clashes.
- The DAS does not run `Handle_DimNameClashing`: DODS_EXTRA may name an unlimited dimension otherwise than the DDS does.
- `Remove_Unneeded_Objects` compares last names, so a variable of another group goes too.
- After 1-D coordinates were given up for 2-D ones, 2-D coordinates over one dimension twice both get it (`OneCVPerDimension` leaves them out); the sanity check in
  `Obtain_2DLLCVar_Candidate` (`HDF5GMCF.cc:4043`) throws for files with nested groups that are not wrong.
- `Handle_CVar_GPM_L1` skips the variable after a latitude it takes, and goes past the end if the latitude was last. Not among the inputs.
- `Build_latg1D_latlon_candidate` keeps the prefixes of the longitude before (comment at `HDF5GMCF.cc:2381`), and may pair one latitude with two longitudes.
- A rewritten attribute `coordinates` names flattened paths even if clash handling renamed the variable. `CoordinatesKept` assumes `Distinct`.
- Before `Add_Path_Coord_Attr` other stages may flatten an attribute, without looking up bare names in it and without resolving paths that go
  up. `CoordinatesKept` is about the general products without renamed variables (`Plain`), with both keys as they are by default, and excepts such attributes if they have these
  among other names (`OfOneKind`). So with the keys as they are by default `../lat` in a group's variable is flattened with its dots by `Handle_Coor_Attr`
  (`HDF5GMCF.cc:6208`), which switches off `Add_Path_Coord_Attr`, where `cha_co` would have resolved it (`HDF5CFUtil.cc:1268`), though the attribute is to be made
  "consistent with the flattened variables in the DAP output" (`h5.conf.in:194-196`). In a COARDS file with HDF-EOS5 groups the path is flattened
  after `Handle_Hybrid_EOS5` has looked at the attribute (`HDF5GMCF.cc:6782`): the variable `s_x` is named `HDFEOS_SWATHS_s_x`. The products recognised by metadata shorten or
  leave out groups in names of variables and not in attributes.
- `Handle_GPM_l1_Coor_Attr` keeps the names its failed first search has found; "on the path" is a search for a substring.
- `obtain_gm_attr_value` (`HDF5GCFProduct.cc:975`) does not store strings of variable length, so products described by them are not recognised; the data group of OBPG is compared with a misspelt name.
- A SeaWiFS level 2 file without `/latitude` keeps its dataset `natrack` and gets a made-up variable of that name. Not among the inputs.

*HDF-EOS5.*

- Without `EnableCheckNameClashing` (the default, `h5.conf.in:85-97`) grids that share a projected latitude all get the dimension name
  `YDim` for `XDim`; the check repairs it, and the run has it on.
- `Set_COARDS_Status` (`HDFEOS5CF.cc:3389`, comment at 3382) stops at the first grid without 1-D latitudes: for a geographic grid before a projected one
  DDS and DMR are refused in `Adjust_Dim_Name` and the DAS is given.
- Whether grids differ is decided from the metadata before unlimited sizes are corrected and names normalised (`Xdim`).
- A latitude of two dimensions that replaces the missing coordinate variable of a duplicate has that name and two dimensions; data and geolocation fields of one
  name both become coordinate variables.
- The result of the parser is ignored; `add_projparams` gives the i-th parameters to the i-th grid whichever grid they belong to; an
  error outside `HDF5CF::Exception` leaks the file's object.
- Parts of a metadata text are placed by the number in their name, without a check that numbers start with 0 and have no gaps; a
  StructMetadata without a number is refused (`heos5cfdap.cc:1391`), though the comment at 1556 provides for it. `MetadataJoined` speaks of numbered parts.

*DAP output.*

- `is_fvalue_valid` compares only some pairs of types (`Unchecked`), and none of 32 bits or floating point; DMRs and 64-bit variables keep the type a fill value has.
- `daptype_strrep_to_dap4_attrtype` (`h5cfdaputil.cc:362`) compares "UInt16" and "UInt32", `print_type` gives "Uint16" and "Uint32": such attributes of 64-bit variables have no type.
- A sinusoidal grid that is not the first projected one names `eos_cf_projection`, which is then in neither DDS nor DMR. `SharedProjectionMade` names the case.
- 64-bit coordinate variables are in no DDS and not in the DMR made from it; a 64-bit variable on a projected grid gets a table in the DAS.
- A DMR throws if the file has an unlimited dimension that no coordinate variable has (`heos5cfdap.cc`, around 2150), while the DAS has an
  empty DODS_EXTRA. `OnlyDMRRefuses` names the cases.
- `cha_co` looks at leading ".." only; a relative path without them is taken to start at the root.
- `check_update_int64_attr` makes its container only if the root has no attributes yet.

## 7. Plan

Done: the request handler and its caches, variable data, group walks and dimensions of the default
option, reading of its variables, general products, HDF-EOS5 files, DAP output, computed variables; the refinement
of the DAS cache file; the theorems of section 4. What is left:

1. Proofs: `DimensionsKeepTheirIdentity`, `SameNames` and `OneCVPerDimension` of the general products, over the stages of `IInv`; `UniqueNames` of HDF-EOS5 products; `ListsMatch`.
2. The disk cache of data between processes: `get_data_from_cache`, `write_cached_data2` over the locks of
   BESFileLockingCache (external), as another implementation of a file that is absent or whole, and VariableRead over it.
3. The parser of StructMetadata as a state machine over its lines (`he5dds.yy`, `HE5Parser.cc`).
4. Ownership of HDF5 handles on the error paths of the `read()` methods.

## 8. Not modelled

- Map projections (`gctp/`, third-party floating-point code), and with them the values of projected latitudes and longitudes and the
  names of their cache files.
- Bytes and texts: conversion between HDF5 and DAP number formats, formatting of attribute values, the text of a
  reference to a region, the tables of ignored objects (`EnableCheckIgnoreObj`), help and version responses.
- Attribute values of the default option (`h5get.cc`): read and printed one by one.
- Registration (`HDF5Module.cc`): all lists are the BES's. Parsing of BES keys: the keys are constants of the models, any value may be chosen.
- Sizes of variables of 2 GiB and more, where `int` counts overflow (`HDF5CFArray.cc:237`).
- Freshness: no code compares times of a data file and of what was cached from it, and no document promises it.
