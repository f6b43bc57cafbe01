------------------------------ MODULE Eos5Dims ------------------------------
(***************************************************************************)
(* Dimensions of an HDF-EOS5 file under the CF option (EOS5File): what the *)
(* StructMetadata says of the grids, swaths and zonal averages of the file *)
(* is put right, and the dimensions of the HDF5 variables, which have      *)
(* sizes only, get names from it.                                          *)
(*                                                                         *)
(* An object of the metadata is a record: type ("GRIDS", "SWATHS", "ZAS"), *)
(* name, dims, a sequence of records [name, size], its fields geo and      *)
(* data, sequences of records [name, dims], and proj, origin and pixelreg. *)
(* A dimension is identified by the path of its object and its name, as in *)
(* /SWATHS/s/x.  The record of an object in the file (EOS5CFGrid,          *)
(* EOS5CFSwath, EOS5CFZa) has sizes and names (dimnames_to_dimsizes,       *)
(* dimsizes_to_dimnames), vardimnames, index (addeddimindex), fields       *)
(* (dnames_to_1dvnames), latlon (the has_... flags) and proj.              *)
(***************************************************************************)
EXTENDS CFNames

CONSTANTS DimOrder      \* the names of dimensions in the order of their strings

XDim == <<"XDim">>
YDim == <<"YDim">>
Latitude == <<"Latitude">>
Longitude == <<"Longitude">>

DimPath(o, name) == << <<>>, <<o.type>>, o.name, name >>

\* A set of dimensions of one object, in the order std::set keeps.
InOrder(o, paths) ==
    LET names == SelectSeq(DimOrder, LAMBDA n : DimPath(o, n) \in paths)
    IN [k \in DOMAIN names |-> DimPath(o, names[k])]

\* What kind of object a variable belongs to, and which; OTHERVARS to none.
Get_Var_EOS5_Type(v) ==
    IF Len(v.path) >= 5 /\ v.path[2] = <<"HDFEOS">> /\ v.path[3] \in {<<"GRIDS">>, <<"SWATHS">>, <<"ZAS">>}
    THEN v.path[3][1] ELSE "OTHERVARS"

Belongs(v, o) == Get_Var_EOS5_Type(v) = o.type /\ v.path[4] = o.name

Names(dims) == {d.name : d \in Range(dims)}
OneOf(S) == CHOOSE e \in S : TRUE

\* The first dimension of this name in a list.
Named(dims, name) == dims[Min({k \in DOMAIN dims : dims[k].name = name})]

------------------------------------------------------------------------------
(***************************************************************************)
(* The metadata is put right.                                              *)
(***************************************************************************)

Remove_NegativeSizeDims(dims) == SelectSeq(dims, LAMBDA d : d.size > 0)

\* Xdim and Ydim are XDim and YDim; a second one of the same size goes.
Condense_EOS5Dim_List(dims) ==
    LET axis(n) == CASE n = <<"Xdim">> -> XDim [] n = <<"Ydim">> -> YDim [] OTHER -> n
        named == [i \in DOMAIN dims |-> [dims[i] EXCEPT !.name = axis(@)]]
        again == {i \in DOMAIN dims : named[i].name \in {XDim, YDim} /\ \E j \in 1..(i - 1) : named[j] = named[i]}
    IN ElementsAt(named, DOMAIN dims \ again)

\* With unlimited dimensions the sizes of the metadata may be out of date: the
\* first field that has a dimension gives it the size the HDF5 variable has.
\* The fields after all dimensions of the object have been met do not count.
Adjust_EOS5DimSize_List(h, vars) ==
    LET fields == h.geo \o h.data
        seen(i) == UNION {Names(fields[k].dims) : k \in 1..i}
        met == {<<i, j>> \in (DOMAIN fields) \X (1..3) :
                  /\ j \in DOMAIN fields[i].dims
                  /\ \A k \in 1..(i - 1) : Cardinality(seen(k)) # Len(h.dims)
                  /\ fields[i].dims[j].name \notin seen(i - 1)
                  /\ \A k \in 1..(j - 1) : fields[i].dims[k].name # fields[i].dims[j].name}
        stored(i) == SelectSeq(vars, LAMBDA v : Belongs(v, h) /\ NameOf(v.path) = fields[i].name)
        sizes(name) == {stored(m[1])[1].dims[m[2]].size :
                          m \in {n \in met : fields[n[1]].dims[n[2]].name = name /\ stored(n[1]) # <<>>}}
        resized(k) ==
          IF sizes(h.dims[k].name) = {} \/ \E l \in 1..(k - 1) : h.dims[l].name = h.dims[k].name THEN h.dims[k]
          ELSE [h.dims[k] EXCEPT !.size = OneOf(sizes(h.dims[k].name))]
        failed == \E m \in met :
          \/ fields[m[1]].dims[m[2]].name \notin Names(h.dims)
          \/ stored(m[1]) # <<>> /\ Len(stored(m[1])[1].dims) # Len(fields[m[1]].dims)
    IN IF failed THEN [h EXCEPT !.failed = TRUE]
       ELSE [h EXCEPT !.dims = [k \in DOMAIN @ |-> resized(k)]]

\* A field gets the sizes of the dimensions of its object.  A dimension it has
\* twice gets a name of its own the second time, which is a dimension of the
\* object from then on, and a duplicate (dimname_to_dupdimnamelist).
Adjust_EOS5VarDim_Info(h, field) ==
    LET unique(name, names) == IF name \in names THEN gen_unique_name(name, names) ELSE name
        enter(o, d, name) ==
          IF d.name = name \/ [d EXCEPT !.name = name] \in Range(o.dims) THEN o
          ELSE [o EXCEPT !.dims = Append(@, [d EXCEPT !.name = name]),
                         !.dups = Append(@, <<DimPath(h, d.name), DimPath(h, name)>>)]
        next(acc, d, name) == [o |-> enter(acc.o, d, name), dims |-> Append(acc.dims, [d EXCEPT !.name = name])]
        done == FoldLeft(LAMBDA acc, d : IF d.name \notin Names(acc.o.dims) THEN [acc EXCEPT !.o.failed = TRUE]
                                         ELSE next(acc, Named(acc.o.dims, d.name), unique(d.name, Names(acc.dims))),
                         [o |-> h, dims |-> <<>>], field.dims)
    IN [o |-> done.o, field |-> [field EXCEPT !.dims = done.dims]]

\* The fields of a list, one after the other.
AdjustFields(h, fields) ==
    FoldLeft(LAMBDA acc, f : LET done == Adjust_EOS5VarDim_Info(acc.o, f)
                             IN [o |-> done.o, fields |-> Append(acc.fields, done.field)],
             [o |-> h, fields |-> <<>>], fields)

\* An object of the metadata, put right.
Adjust_EOS5Dim_Info(h, vars, have_udim) ==
    LET listed == [h EXCEPT !.dims = Condense_EOS5Dim_List(Remove_NegativeSizeDims(@))]
        sized == IF have_udim THEN Adjust_EOS5DimSize_List(listed, vars) ELSE listed
        geo == AdjustFields(sized, sized.geo)
        data == AdjustFields(geo.o, geo.o.data)
    IN [data.o EXCEPT !.geo = geo.fields, !.data = data.fields]

------------------------------------------------------------------------------
(***************************************************************************)
(* The objects of the file.                                                *)
(***************************************************************************)

FieldNamed(fields, name) == SelectSeq(fields, LAMBDA f : f.name = name)

\* Whether Latitude and Longitude are among the fields: "no" unless both are,
\* "1d", "2d", "g2d" (more than two dimensions), or "odd" if they do not fit.
EOS5SwathGrid_Set_LatLon_Flags(fields) ==
    LET lat == FieldNamed(fields, Latitude)[1].dims
        lon == FieldNamed(fields, Longitude)[1].dims IN
    CASE FieldNamed(fields, Latitude) = <<>> \/ FieldNamed(fields, Longitude) = <<>> -> "no"
      [] OTHER -> CASE Len(lat) = 1 /\ Len(lon) = 1 -> "1d"
                    [] Len(lat) = 2 /\ Len(lon) = 2 /\ lat[1].name = lon[1].name /\ lat[2].name = lon[2].name -> "2d"
                    [] Len(lat) > 2 /\ Len(lon) > 2 -> "g2d"
                    [] OTHER -> "odd"

\* The dimensions with exactly one 1-D field, and the name of that field.  The
\* axes of a grid have coordinates of another kind.
EOS5Handle_nonlatlon_dimcvars(h, fields) ==
    LET users(name) == {f \in Range(fields) : Len(f.dims) = 1 /\ f.dims[1].name = name}
        single == {name \in UNION {Names(f.dims) : f \in Range(fields)} :
                     Cardinality(users(name)) = 1 /\ ~(h.type = "GRIDS" /\ name \in {XDim, YDim})}
    IN [path \in {DimPath(h, n) : n \in single} |->
          DimPath(h, OneOf(users(Last(path))).name)]

\* The record of an object; two dimensions of one name are an error.
Add_EOS5File_Info(h) ==
    LET fields == IF h.type = "SWATHS" THEN h.geo ELSE h.data
        path(d) == DimPath(h, d.name) IN
    [type |-> h.type, name |-> h.name, proj |-> h.proj,
     sizes |-> [p \in {path(d) : d \in Range(h.dims)} |-> Named(h.dims, Last(p)).size],
     names |-> [s \in {d.size : d \in Range(h.dims)} |->
                  path(h.dims[Min({k \in DOMAIN h.dims : h.dims[k].size = s})])],
     vardimnames |-> {}, index |-> 0,
     fields |-> EOS5Handle_nonlatlon_dimcvars(h, fields),
     latlon |-> IF h.type = "ZAS" THEN "no" ELSE EOS5SwathGrid_Set_LatLon_Flags(fields),
     failed |-> h.failed \/ Cardinality(Names(h.dims)) # Len(h.dims)]

------------------------------------------------------------------------------
(***************************************************************************)
(* Names for the dimensions of the variables.                              *)
(***************************************************************************)

\* name_1, name_2, ... that no variable of the object uses.
Get_Unique_Name(o, path) ==
    Front(path) \o <<gen_unique_name(Last(path), {Last(p) : p \in o.vardimnames})>>

\* A new dimension of the object.
InsertDim(o, path, size) ==
    [o EXCEPT !.vardimnames = @ \cup {path}, !.failed = @ \/ path \in DOMAIN o.sizes,
              !.sizes = @ @@ (path :> size), !.names = @ @@ (size :> path)]

Create_Unique_FakeDimName(o) ==
    LET path == DimPath(o, FakeDim(o.index)[1]) IN
    IF path \in o.vardimnames THEN Get_Unique_Name(o, path) ELSE path

\* A name by the size: the first dimension of that size or, if this variable
\* has it already, another one of that size, whether this variable has that or
\* not; or a new one.
Create_Unique_DimName(o, used, size) ==
    LET others == InOrder(o, {p \in DOMAIN o.sizes : o.sizes[p] = size /\ p # o.names[size]})
        unique == Get_Unique_Name(o, o.names[size])
        fake == Create_Unique_FakeDimName(o) IN
    CASE size \notin DOMAIN o.names -> [o |-> [InsertDim(o, fake, size) EXCEPT !.index = @ + 1], path |-> fake]
      [] size \in DOMAIN o.names /\ o.names[size] \notin used -> [o |-> o, path |-> o.names[size]]
      [] OTHER -> IF others # <<>> THEN [o |-> o, path |-> others[1]]
                  ELSE [o |-> InsertDim(o, unique, size), path |-> unique]

\* The dimensions of a variable that the metadata left without a name.
NameTheRest(o, paths, sizes) ==
    FoldLeft(LAMBDA acc, i : IF acc.paths[i] # <<>> THEN acc
                             ELSE LET made == Create_Unique_DimName(acc.o, Range(acc.paths), sizes[i])
                                  IN [o |-> made.o, paths |-> [acc.paths EXCEPT ![i] = made.path]],
             [o |-> o, paths |-> paths], [i \in DOMAIN sizes |-> i])

\* A dimension of the field goes to the first dimension of the variable of its
\* size that has no name yet.
FieldNames(o, field, sizes) ==
    FoldLeft(LAMBDA paths, d :
               LET free == {i \in DOMAIN sizes : paths[i] = <<>> /\ sizes[i] = d.size}
               IN IF free = {} \/ DimPath(o, d.name) \in Range(paths) THEN paths
                  ELSE [paths EXCEPT ![Min(free)] = DimPath(o, d.name)],
             [i \in DOMAIN sizes |-> <<>>], field.dims)

\* A variable that is a field of the object, and one that is not.
Set_Var_Dims(o, sizes, field) ==
    IF Len(field.dims) # Len(sizes) THEN [o |-> [o EXCEPT !.failed = TRUE], paths |-> [i \in DOMAIN sizes |-> <<>>]]
    ELSE LET paths == FieldNames(o, field, sizes)
         IN NameTheRest([o EXCEPT !.vardimnames = @ \cup (Range(paths) \ {<<>>})], paths, sizes)

Set_NonParse_Var_Dims(o, sizes) == NameTheRest(o, [i \in DOMAIN sizes |-> <<>>], sizes)

\* The fields among which a variable is looked for.
FieldsFor(h, v) ==
    CASE h.type # "SWATHS" -> h.data
      [] h.type = "SWATHS" /\ v.path[Len(v.path) - 1] = <<"Data Fields">> -> h.data
      [] h.type = "SWATHS" /\ v.path[Len(v.path) - 1] = <<"Geolocation Fields">> -> h.geo
      [] OTHER -> <<>>

Obtain_Var_Dims(h, o, v) ==
    LET sizes == [i \in DOMAIN v.dims |-> v.dims[i].size]
        field == FieldNamed(FieldsFor(h, v), NameOf(v.path))
    IN IF field = <<>> THEN Set_NonParse_Var_Dims(o, sizes) ELSE Set_Var_Dims(o, sizes, field[1])

\* In a file with one object of this type the name of the dimension is enough.
ShortIf(alone, path) == IF alone /\ path # <<>> THEN <<Last(path)>> ELSE path

Alone(objects, o) == Len(SelectSeq(objects, LAMBDA p : p.type = o.type)) = 1

WithPaths(v, paths, alone) ==
    [v EXCEPT !.dims = [i \in DOMAIN @ |-> [size |-> @[i].size, name |-> paths[i],
                                            newname |-> ShortIf(alone, paths[i])]]]

\* All variables, one after the other; one outside the objects has no names.
Add_Dim_Name(metadata, objects, vars) ==
    LET home(v) == {k \in DOMAIN metadata : Belongs(v, metadata[k])}
        next(acc, v, k, named) ==
          [objects |-> [acc.objects EXCEPT ![k] = named.o],
           vars |-> Append(acc.vars, WithPaths(v, named.paths, Alone(metadata, metadata[k])))]
    IN FoldLeft(LAMBDA acc, v :
                  IF home(v) = {} THEN [acc EXCEPT !.vars = Append(@, v)]
                  ELSE LET k == Min(home(v))
                       IN next(acc, v, k, Obtain_Var_Dims(metadata[k], acc.objects[k], v)),
                [objects |-> objects, vars |-> <<>>], vars)

\* The path of a variable in its object, without the group of its fields.
Obtain_Var_NewName(v) ==
    CASE Get_Var_EOS5_Type(v) # "OTHERVARS" -> << <<>>, v.path[3], v.path[4], NameOf(v.path) >>
      [] Get_Var_EOS5_Type(v) = "OTHERVARS" /\ v.path[2] = <<"HDFEOS INFORMATION">> -> <<NameOf(v.path)>>
      [] OTHER -> v.path

=============================================================================
