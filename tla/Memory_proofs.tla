-------------------------- MODULE Memory_proofs --------------------------
(***************************************************************************)
(* Memory objects.  An object over a buffer gives no more than the buffer, *)
(* for any flags, sizes, origins, image types and pitches.  A mapped       *)
(* object lives as long as it is used, its maps are undone once, and host  *)
(* and device see what was written, for any threads, regions and values.   *)
(***************************************************************************)
EXTENDS MemObjects, MapTracking, FiniteSetTheorems, SequenceTheorems, WellFoundedInduction, TLAPS

(* clCreateSubBuffer does not ask whether its flags are known ones.         *)
Flags == MemFlags \cup UNION FlagSets

(* What is known of an object: its numbers are numbers, and the object it  *)
(* lies over was there before it.                                          *)
ObjectRecord ==
  [type : {"BUFFER", "IMAGE1D_BUFFER"} \cup ImageTypes, width : Nat, height : Nat, depth : Nat,
   array : Nat, rowPitch : Nat, slicePitch : Nat, bytes : Nat \ {0}, flags : SUBSET Flags,
   parent : Nat, storage : Nat, offset : Nat, initial : Nat]

ObjectsType ==
  /\ objects \in Seq(ObjectRecord)
  /\ \A i \in DOMAIN objects : objects[i].parent < i

Inside(o, p) == p.offset <= o.offset /\ o.offset + o.width * o.bytes <= p.offset + p.width

Uploads(o) ==
  o.initial # 0 =>
    o.bytes * o.width + o.rowPitch * (AtLeast1(o.height) - 1)
      + o.slicePitch * (AtLeast1(o.depth) * AtLeast1(o.array) - 1) <= o.initial

NoMore(o, p) == HostMay(o) \subseteq HostMay(p) /\ DeviceMay(o) \subseteq DeviceMay(p)

Fits(o) ==
  o.parent # 0 => Inside(o, objects[o.parent]) /\ NoMore(o, objects[o.parent])

ObjectsInv ==
  /\ ObjectsType
  /\ \A i \in DOMAIN objects : Uploads(objects[i]) /\ Fits(objects[i])

(* The flags an object over a buffer ends up with take away all that the   *)
(* buffer's flags take away.                                               *)
LEMMA FlagsTakeAway ==
  ASSUME NEW o, NEW p, NEW flags \in SUBSET Flags, p.flags \in SUBSET Flags,
         o.flags = FlagsOverBuffer(flags, p.flags),
         ValidateMemFlagsForBufferReference(flags, p.flags)
  PROVE  o.flags \in SUBSET Flags /\ NoMore(o, p)
<1>1. o.flags = flags \cup (p.flags \cap HostPtr) \cup Inherit(flags, p.flags, DeviceAccess)
        \cup Inherit(flags, p.flags, HostAccess)
  BY DEF FlagsOverBuffer
<1>2. ~AddsAccess(flags, p.flags)
  BY DEF ValidateMemFlagsForBufferReference
<1>3. "HOST_NO_ACCESS" \in p.flags => "HOST_NO_ACCESS" \in o.flags
  BY <1>1, <1>2 DEF AddsAccess, Inherit, HostAccess
<1>4. "HOST_READ_ONLY" \in p.flags => "HOST_READ_ONLY" \in o.flags \/ "HOST_NO_ACCESS" \in o.flags
  BY <1>1, <1>2 DEF AddsAccess, Inherit, HostAccess
<1>5. "HOST_WRITE_ONLY" \in p.flags => "HOST_WRITE_ONLY" \in o.flags \/ "HOST_NO_ACCESS" \in o.flags
  BY <1>1, <1>2 DEF AddsAccess, Inherit, HostAccess
<1>6. "READ_ONLY" \in p.flags => "READ_ONLY" \in o.flags
  BY <1>1, <1>2 DEF AddsAccess, Inherit, DeviceAccess
<1>7. "WRITE_ONLY" \in p.flags => "WRITE_ONLY" \in o.flags
  BY <1>1, <1>2 DEF AddsAccess, Inherit, DeviceAccess
<1>8. HostMay(o) \subseteq HostMay(p)
  <2> SUFFICES ASSUME NEW x \in {"read", "write"}, x \notin HostMay(p) PROVE x \notin HostMay(o)
    BY DEF HostMay
  <2>1. PICK f \in p.flags : x \in CASE f = "HOST_NO_ACCESS"  -> {"read", "write"}
      [] f = "HOST_READ_ONLY"  -> {"write"}
      [] f = "HOST_WRITE_ONLY" -> {"read"}
      [] OTHER -> {}
    BY DEF HostMay
  <2>2. \/ f = "HOST_NO_ACCESS"
        \/ f = "HOST_READ_ONLY" /\ x = "write"
        \/ f = "HOST_WRITE_ONLY" /\ x = "read"
    BY <2>1
  <2>3. \/ "HOST_NO_ACCESS" \in o.flags
        \/ "HOST_READ_ONLY" \in o.flags /\ x = "write"
        \/ "HOST_WRITE_ONLY" \in o.flags /\ x = "read"
    BY <1>3, <1>4, <1>5, <2>2
  <2>4. \E g \in o.flags : x \in CASE g = "HOST_NO_ACCESS"  -> {"read", "write"}
      [] g = "HOST_READ_ONLY"  -> {"write"}
      [] g = "HOST_WRITE_ONLY" -> {"read"}
      [] OTHER -> {}
    BY <2>3
  <2> QED  BY <2>4 DEF HostMay
<1>9. DeviceMay(o) \subseteq DeviceMay(p)
  BY <1>6, <1>7 DEF DeviceMay
<1>10. o.flags \in SUBSET Flags
  BY <1>1 DEF Inherit
<1> QED  BY <1>8, <1>9, <1>10 DEF NoMore

(* An object is added that fits: all stays as it is for the others.        *)
LEMMA ObjectAdded ==
  ASSUME ObjectsInv, NEW o \in ObjectRecord, o.parent \in 0 .. Len(objects),
         Uploads(o), Fits(o), objects' = Append(objects, o)
  PROVE  ObjectsInv'
<1>1. objects \in Seq(ObjectRecord)
  BY DEF ObjectsInv, ObjectsType
<1>2. /\ objects' \in Seq(ObjectRecord) /\ DOMAIN objects = 1 .. Len(objects)
      /\ DOMAIN objects' = 1 .. Len(objects) + 1 /\ Len(objects) \in Nat
      /\ \A i \in 1 .. Len(objects) : objects'[i] = objects[i]
      /\ objects'[Len(objects) + 1] = o
  BY <1>1
<1>3. ASSUME NEW i \in DOMAIN objects'
      PROVE  objects'[i].parent < i /\ Uploads(objects'[i]) /\ Fits(objects[i])'
  <2>1. CASE i \in DOMAIN objects
    <3>1. /\ objects'[i] = objects[i] /\ objects[i].parent < i /\ Uploads(objects[i])
          /\ Fits(objects[i]) /\ objects[i] \in ObjectRecord
      BY <1>1, <1>2, <2>1 DEF ObjectsInv, ObjectsType
    <3>2. objects[i].parent # 0 => objects'[objects[i].parent] = objects[objects[i].parent]
      <4>1. objects[i].parent \in Nat
        BY <3>1 DEF ObjectRecord
      <4> QED  BY <1>2, <2>1, <3>1, <4>1
    <3> QED  BY <3>1, <3>2 DEF Fits
  <2>2. CASE i = Len(objects) + 1
    <3>1. o.parent # 0 => objects'[o.parent] = objects[o.parent]
      BY <1>2
    <3>2. objects'[i] = o /\ o.parent < i
      BY <1>2, <2>2
    <3> QED  BY <3>1, <3>2 DEF Fits
  <2> QED  BY <1>2, <2>1, <2>2
<1> QED  BY <1>2, <1>3 DEF ObjectsInv, ObjectsType

(* A buffer of its own storage.                                            *)
LEMMA BufferStep ==
  ASSUME ObjectsInv, NEW flags \in FlagSets, NEW size \in Sizes, NEW ptr \in BOOLEAN,
         CreateBuffer(flags, size, ptr)
  PROVE  ObjectsInv'
<1>1. PICK o : /\ o = [GetBufferDesc("BUFFER", size, flags, 1) EXCEPT
                         !.initial = IF ptr THEN size ELSE 0]
               /\ objects' = Append(objects, o)
  BY DEF CreateBuffer
<1>2. /\ size \in Nat /\ flags \in SUBSET Flags /\ Len(objects) \in Nat
  BY MemObjectsAssumption DEF ObjectsInv, ObjectsType, Flags
<1>3. o = [type |-> "BUFFER", width |-> size, height |-> 0, depth |-> 0, array |-> 0,
           rowPitch |-> 0, slicePitch |-> 0, bytes |-> 1, flags |-> flags,
           parent |-> 0, storage |-> Len(objects) + 1, offset |-> 0,
           initial |-> IF ptr THEN size ELSE 0]
  BY <1>1 DEF GetBufferDesc
<1>4. o \in ObjectRecord /\ o.parent = 0
  BY <1>2, <1>3 DEF ObjectRecord
<1>5. Uploads(o)
  BY <1>2, <1>3 DEF Uploads, AtLeast1
<1>6. Fits(o) /\ o.parent \in 0 .. Len(objects)
  BY <1>2, <1>4 DEF Fits
<1> QED  BY <1>1, <1>4, <1>5, <1>6, ObjectAdded

(* An object over buffer b, origin bytes into it.                          *)
LEMMA OverStep ==
  ASSUME ObjectsInv, NEW b \in Buffers, NEW flags \in SUBSET Flags,
         NEW type \in {"BUFFER", "IMAGE1D_BUFFER"}, NEW width \in Nat, NEW origin \in Nat,
         NEW bytes \in Nat \ {0},
         ValidateMemFlagsForBufferReference(flags, objects[b].flags),
         origin + width * bytes <= objects[b].width,
         objects' = Append(objects, Over(b, type, width, flags, origin, bytes))
  PROVE  ObjectsInv'
<1>1. /\ b \in DOMAIN objects /\ b \in 1 .. Len(objects) /\ Len(objects) \in Nat
      /\ objects[b] \in ObjectRecord
  BY DEF Buffers, ObjectsInv, ObjectsType
<1>2. /\ objects[b].width \in Nat /\ objects[b].offset \in Nat /\ objects[b].storage \in Nat
      /\ objects[b].flags \in SUBSET Flags
  BY <1>1 DEF ObjectRecord
<1>3. PICK o : o = Over(b, type, width, flags, origin, bytes)
  OBVIOUS
<1>4. o = [type |-> type, width |-> width, height |-> 0, depth |-> 0, array |-> 0,
           rowPitch |-> 0, slicePitch |-> 0, bytes |-> bytes,
           flags |-> FlagsOverBuffer(flags, objects[b].flags),
           parent |-> b, storage |-> objects[b].storage, offset |-> origin + objects[b].offset,
           initial |-> 0]
  BY <1>3 DEF Over, GetBufferDesc
<1>5. o.flags \in SUBSET Flags /\ NoMore(o, objects[b])
  BY <1>2, <1>4, FlagsTakeAway
<1>6. o \in ObjectRecord
  <2>1. /\ o.flags = FlagsOverBuffer(flags, objects[b].flags)
        /\ b \in Nat /\ origin + objects[b].offset \in Nat
    BY <1>1, <1>2, <1>4
  <2> QED  BY <1>2, <1>4, <1>5, <2>1 DEF ObjectRecord
<1>7. Inside(o, objects[b])
  <2>1. o.offset = origin + objects[b].offset /\ o.width = width /\ o.bytes = bytes
    BY <1>4
  <2>2. width * bytes \in Nat
    OBVIOUS
  <2> QED  BY <1>2, <2>1, <2>2 DEF Inside
<1>8. Uploads(o) /\ o.parent = b
  BY <1>4 DEF Uploads
<1>9. Fits(o) /\ o.parent \in 0 .. Len(objects)
  BY <1>1, <1>5, <1>7, <1>8 DEF Fits
<1> QED  BY <1>3, <1>6, <1>8, <1>9, ObjectAdded

LEMMA SubBufferStep ==
  ASSUME ObjectsInv, NEW b \in Buffers, NEW flags \in FlagSets, NEW origin \in Origins,
         NEW size \in Sizes, CreateSubBuffer(b, flags, origin, size)
  PROVE  ObjectsInv'
<1>1. size \in Nat /\ origin \in Nat /\ size * 1 = size
  BY MemObjectsAssumption
<1>2. flags \in SUBSET Flags
  BY DEF Flags
<1>3. /\ ValidateMemFlagsForBufferReference(flags, objects[b].flags)
      /\ origin + size * 1 <= objects[b].width
      /\ objects' = Append(objects, Over(b, "BUFFER", size, flags, origin, 1))
  BY <1>1 DEF CreateSubBuffer
<1>4. 1 \in Nat \ {0}
  OBVIOUS
<1> QED  BY <1>1, <1>2, <1>3, <1>4, OverStep

LEMMA Image1DBufferStep ==
  ASSUME ObjectsInv, NEW b \in Buffers, NEW flags \in FlagSets, NEW width \in Sizes,
         NEW f \in Formats,
         CreateImage1DBuffer(b, flags, width, f)
  PROVE  ObjectsInv'
<1>1. width \in Nat /\ f \in Nat \ {0} /\ 0 + width * f = f * width
  BY MemObjectsAssumption
<1>2. flags \in SUBSET Flags
  BY DEF Flags
<1>3. /\ ValidateMemFlagsForBufferReference(flags, objects[b].flags)
      /\ 0 + width * f <= objects[b].width
      /\ objects' = Append(objects, Over(b, "IMAGE1D_BUFFER", width, flags, 0, f))
  BY <1>1 DEF CreateImage1DBuffer
<1> QED  BY <1>1, <1>2, <1>3, OverStep

LEMMA ExtentsChanged ==
  ASSUME NEW d \in ObjectRecord, NEW height \in Nat, NEW depth \in Nat, NEW array \in Nat,
         NEW row \in Nat, NEW slice \in Nat
  PROVE  [d EXCEPT !.height = height, !.depth = depth, !.array = array,
                   !.rowPitch = row, !.slicePitch = slice] \in ObjectRecord
BY DEF ObjectRecord

(* The description a texture keeps.                                        *)
LEMMA NormalForm ==
  ASSUME NEW d \in ObjectRecord
  PROVE  /\ Normalized(d) \in ObjectRecord
         /\ Normalized(d).bytes = d.bytes /\ Normalized(d).width = d.width
         /\ Normalized(d).height = IF d.type \in {"IMAGE1D", "IMAGE1D_ARRAY"} THEN 0 ELSE d.height
         /\ Normalized(d).depth = IF d.type = "IMAGE3D" THEN d.depth ELSE 0
         /\ Normalized(d).array = IF d.type \in Arrays THEN d.array ELSE 0
         /\ Normalized(d).parent = d.parent
         /\ d.type \notin Arrays \cup {"IMAGE3D"} => Normalized(d).slicePitch = 0
<1>1. /\ d.width \in Nat /\ d.height \in Nat /\ d.rowPitch \in Nat /\ d.slicePitch \in Nat
      /\ d.bytes \in Nat /\ d.depth \in Nat /\ d.array \in Nat
  BY DEF ObjectRecord
<1>2. PICK row : row = IF d.rowPitch = 0 THEN d.bytes * d.width ELSE d.rowPitch
  OBVIOUS
<1>3. PICK slice : slice = IF d.type \notin Arrays \cup {"IMAGE3D"} THEN 0
                           ELSE IF d.slicePitch = 0 THEN row * AtLeast1(d.height) ELSE d.slicePitch
  OBVIOUS
<1>4. row \in Nat /\ AtLeast1(d.height) \in Nat
  BY <1>1, <1>2 DEF AtLeast1
<1>5. slice \in Nat
  BY <1>1, <1>3, <1>4
<1>6. Normalized(d) =
        [d EXCEPT !.height = IF d.type \in {"IMAGE1D", "IMAGE1D_ARRAY"} THEN 0 ELSE d.height,
                  !.depth = IF d.type = "IMAGE3D" THEN d.depth ELSE 0,
                  !.array = IF d.type \in Arrays THEN d.array ELSE 0,
                  !.rowPitch = row, !.slicePitch = slice]
  BY <1>2, <1>3 DEF Normalized
<1>7. PICK height, depth, array :
        /\ height = IF d.type \in {"IMAGE1D", "IMAGE1D_ARRAY"} THEN 0 ELSE d.height
        /\ depth = IF d.type = "IMAGE3D" THEN d.depth ELSE 0
        /\ array = IF d.type \in Arrays THEN d.array ELSE 0
  OBVIOUS
<1>8. Normalized(d) \in ObjectRecord
  <2>1. height \in Nat /\ depth \in Nat /\ array \in Nat
    BY <1>1, <1>7
  <2>2. Normalized(d) = [d EXCEPT !.height = height, !.depth = depth, !.array = array,
                                  !.rowPitch = row, !.slicePitch = slice]
    BY <1>6, <1>7
  <2>3. [d EXCEPT !.height = height, !.depth = depth, !.array = array,
                  !.rowPitch = row, !.slicePitch = slice] \in ObjectRecord
    BY <1>4, <1>5, <2>1, ExtentsChanged
  <2> QED  BY <2>2, <2>3
<1>9. d.type \notin Arrays \cup {"IMAGE3D"} => Normalized(d).slicePitch = 0
  BY <1>3, <1>6 DEF ObjectRecord
<1>10. /\ Normalized(d).bytes = d.bytes /\ Normalized(d).width = d.width
       /\ Normalized(d).parent = d.parent
       /\ Normalized(d).height = IF d.type \in {"IMAGE1D", "IMAGE1D_ARRAY"} THEN 0 ELSE d.height
       /\ Normalized(d).depth = IF d.type = "IMAGE3D" THEN d.depth ELSE 0
       /\ Normalized(d).array = IF d.type \in Arrays THEN d.array ELSE 0
  BY <1>6 DEF ObjectRecord
<1> QED  BY <1>8, <1>9, <1>10

(* What a texture's constructor copied from the host is all that an upload *)
(* reads: the pitches stand for as many rows and slices.                   *)
LEMMA TextureUploads ==
  ASSUME NEW d \in ObjectRecord, d.type \in Arrays => d.array \in 1 .. MaxAxis,
         NEW o, o = [Normalized(d) EXCEPT !.initial = InitialDataSize(d, d.height)]
  PROVE  Uploads(o) /\ InitialDataSize(d, d.height) \in Nat
<1>1. /\ d.width \in Nat /\ d.height \in Nat /\ d.depth \in Nat /\ d.array \in Nat
      /\ d.bytes \in Nat
  BY DEF ObjectRecord
<1>2. PICK row, slice : row = Normalized(d).rowPitch /\ slice = Normalized(d).slicePitch
  OBVIOUS
<1>3. /\ row \in Nat /\ slice \in Nat
      /\ d.type \notin Arrays \cup {"IMAGE3D"} => slice = 0
  BY <1>2, NormalForm DEF ObjectRecord
<1>4. /\ o.bytes = d.bytes /\ o.width = d.width
      /\ o.rowPitch = row /\ o.slicePitch = slice
      /\ o.height = IF d.type \in {"IMAGE1D", "IMAGE1D_ARRAY"} THEN 0 ELSE d.height
      /\ o.depth = IF d.type = "IMAGE3D" THEN d.depth ELSE 0
      /\ o.array = IF d.type \in Arrays THEN d.array ELSE 0
      /\ o.initial = InitialDataSize(d, d.height)
  BY <1>2, NormalForm DEF ObjectRecord
<1>5. PICK n : n = IF d.type = "IMAGE3D" THEN AtLeast1(d.depth)
                   ELSE IF d.type \in Arrays THEN d.array ELSE 1
  OBVIOUS
<1>6. o.initial = d.bytes * d.width + row * (AtLeast1(d.height) - 1) + slice * (n - 1)
  BY <1>2, <1>4, <1>5 DEF InitialDataSize
<1>7. AtLeast1(o.depth) * AtLeast1(o.array) = n
  BY <1>1, <1>4, <1>5 DEF AtLeast1, Arrays
<1>8. /\ AtLeast1(o.height) - 1 \in Nat /\ AtLeast1(d.height) - 1 \in Nat
      /\ AtLeast1(o.height) - 1 <= AtLeast1(d.height) - 1
  BY <1>1, <1>4 DEF AtLeast1
<1>9. row * (AtLeast1(o.height) - 1) <= row * (AtLeast1(d.height) - 1)
  BY <1>3, <1>8
<1>10. n - 1 \in Nat
  BY <1>1, <1>5 DEF AtLeast1
<1>11. /\ d.bytes * d.width \in Nat /\ row * (AtLeast1(d.height) - 1) \in Nat
       /\ row * (AtLeast1(o.height) - 1) \in Nat /\ slice * (n - 1) \in Nat
  BY <1>1, <1>3, <1>8, <1>10
<1>12. InitialDataSize(d, d.height) \in Nat
  BY <1>4, <1>6, <1>11
<1>13. o.bytes * o.width + o.rowPitch * (AtLeast1(o.height) - 1)
         + o.slicePitch * (AtLeast1(o.depth) * AtLeast1(o.array) - 1)
       = d.bytes * d.width + row * (AtLeast1(o.height) - 1) + slice * (n - 1)
  BY <1>4, <1>7
<1> QED  BY <1>6, <1>9, <1>11, <1>12, <1>13 DEF Uploads

LEMMA TextureStep ==
  ASSUME ObjectsInv, NEW type \in ImageTypes, NEW flags \in FlagSets, NEW f \in Formats,
         NEW e \in Extents, NEW n \in ArraySizes, NEW pitch \in HostPitches,
         NEW slices \in {0, 2}, NEW ptr \in BOOLEAN,
         CreateImage(ImageDesc(type, flags, f, e, n, pitch, slices), ptr)
  PROVE  ObjectsInv'
<1>1. PICK d : d = ImageDesc(type, flags, f, e, n, pitch, slices)
  OBVIOUS
<1>2. PICK o :
        o = [Normalized(d) EXCEPT !.initial = IF ptr THEN InitialDataSize(d, d.height) ELSE 0]
  OBVIOUS
<1>3. /\ objects' = Append(objects, o)
      /\ d.type \in Arrays => d.array \in 1 .. MaxAxis
  BY <1>1, <1>2 DEF CreateImage, ExtentsInRange
<1>4. /\ Len(objects) \in Nat /\ f \in Nat \ {0} /\ n \in Nat /\ pitch \in Nat
      /\ e[1] \in Nat /\ e[2] \in Nat /\ e[3] \in Nat
      /\ pitch * slices \in Nat /\ flags \in SUBSET Flags
  BY MemObjectsAssumption DEF ObjectsInv, ObjectsType, Flags
<1>5. d \in ObjectRecord /\ d.initial = 0 /\ d.parent = 0
  BY <1>1, <1>4 DEF ImageDesc, ObjectRecord
<1>6. /\ Normalized(d) \in ObjectRecord /\ Normalized(d).parent = 0
      /\ InitialDataSize(d, d.height) \in Nat
  BY <1>3, <1>5, NormalForm, TextureUploads
<1>7. PICK initial : initial = IF ptr THEN InitialDataSize(d, d.height) ELSE 0
  OBVIOUS
<1>8. o \in ObjectRecord /\ o.parent = 0 /\ o.initial = initial
  BY <1>2, <1>6, <1>7 DEF ObjectRecord
<1>9. Uploads(o)
  <2>1. CASE ptr
    BY <1>2, <1>3, <1>5, <2>1, TextureUploads
  <2>2. CASE ~ptr
    BY <1>7, <1>8, <2>2 DEF Uploads
  <2> QED  BY <2>1, <2>2
<1>10. Fits(o) /\ o.parent \in 0 .. Len(objects)
  BY <1>4, <1>8 DEF Fits
<1> QED  BY <1>3, <1>8, <1>9, <1>10, ObjectAdded

LEMMA ObjectsStep ==
  ASSUME ObjectsInv, [ObjectsNext]_objects
  PROVE  ObjectsInv'
<1>1. CASE UNCHANGED objects
  BY <1>1 DEF ObjectsInv, ObjectsType, Fits
<1>2. ASSUME NEW flags \in FlagSets, NEW size \in Sizes, NEW ptr \in BOOLEAN,
             CreateBuffer(flags, size, ptr)
      PROVE  ObjectsInv'
  BY <1>2, BufferStep
<1>3. ASSUME NEW b \in Buffers, NEW flags \in FlagSets, NEW origin \in Origins,
             NEW size \in Sizes, CreateSubBuffer(b, flags, origin, size)
      PROVE  ObjectsInv'
  BY <1>3, SubBufferStep
<1>4. ASSUME NEW b \in Buffers, NEW flags \in FlagSets, NEW width \in Sizes,
             NEW f \in Formats, CreateImage1DBuffer(b, flags, width, f)
      PROVE  ObjectsInv'
  BY <1>4, Image1DBufferStep
<1>5. ASSUME NEW type \in ImageTypes, NEW flags \in FlagSets, NEW f \in Formats,
             NEW e \in Extents, NEW n \in ArraySizes, NEW pitch \in HostPitches,
             NEW slices \in {0, 2}, NEW ptr \in BOOLEAN,
             CreateImage(ImageDesc(type, flags, f, e, n, pitch, slices), ptr)
      PROVE  ObjectsInv'
  BY <1>5, TextureStep
<1> QED  BY <1>1, <1>2, <1>3, <1>4, <1>5 DEF ObjectsNext

(* However many objects are created over one another, none gives the host  *)
(* or a kernel more access than the buffer it lies over, or memory outside *)
(* of it, and what was copied from the host is as much as an upload reads: *)
(* ValidateMemFlagsForBufferReference, the checks of clCreateSubBuffer and *)
(* clCreateImage, and what the constructors of Resource store.             *)
THEOREM NothingGained == ObjectsSpec => []NoAccessGained
<1>1. ObjectsInit => ObjectsInv
  BY DEF ObjectsInit, ObjectsInv, ObjectsType
<1>2. ObjectsInv /\ [ObjectsNext]_objects => ObjectsInv'
  BY ObjectsStep
<1>3. ObjectsInv => NoAccessGained
  <2> SUFFICES ASSUME ObjectsInv, NEW i \in DOMAIN objects
               PROVE  Uploads(objects[i]) /\ Fits(objects[i])
    BY DEF NoAccessGained, ObjectsInsideStorage, ToSet, Uploads, Fits, Inside, NoMore
  <2> QED  BY DEF ObjectsInv
<1> QED  BY <1>1, <1>2, <1>3, PTL DEF ObjectsSpec

-----------------------------------------------------------------------------
(* Mapping: what is known of the variables                                 *)

Contents == Values \cup {0, Garbage}
Pointers == ({"staging"} \X Nat) \cup {<<"cell", Min(region)>> : region \in Regions}

MapRecord ==
  [region : Regions, flags : {"R", "W"}, ptr : Pointers,
   state : {"made", "queued", "running", "complete", "failed"}]
UnmapRecord ==
  [map : Nat, given : Nat, state : {"queued", "running", "complete", "failed"}]
CallRecord ==
  {Idle} \cup [at : {"mapping"}, task : Nat] \cup [at : {"unmapping"}, task : Nat, given : Nat]

MapsType ==
  /\ kind \in {"use", "alloc", "copy"}
  /\ maps \in Seq(MapRecord) /\ unmaps \in Seq(UnmapRecord) /\ call \in [Threads -> CallRecord]
  /\ undone \in Seq(Nat) /\ Len(undone) = Len(maps)
  /\ \A i \in DOMAIN maps : maps[i].ptr = Pointer(i, maps[i].region)

DataType ==
  /\ device \in [Cells -> Contents] /\ host \in [Cells -> Contents] /\ truth \in [Cells -> Contents]
  /\ staging \in Seq([Cells -> Contents]) /\ Len(staging) = Len(maps)

(* Each map is registered under its pointer, and once.                     *)
RegistryInv ==
  \A p \in DOMAIN outstanding :
    /\ outstanding[p] \in Seq(Nat) /\ outstanding[p] # <<>> /\ IsInjective(outstanding[p])
    /\ \A j \in Range(outstanding[p]) : j \in DOMAIN maps /\ maps[j].ptr = p

(* The step leaves what a map is for as it is.                             *)
SameMaps ==
  /\ DOMAIN maps' = DOMAIN maps
  /\ \A i \in DOMAIN maps :
       /\ maps'[i].region = maps[i].region /\ maps'[i].flags = maps[i].flags
       /\ maps'[i].ptr = maps[i].ptr

(* The step changes the state of one map.                                  *)
SetsState(i, state) ==
  /\ maps' \in Seq(MapRecord) /\ Len(maps') = Len(maps) /\ SameMaps
  /\ \A j \in DOMAIN maps : maps'[j].state = IF j = i THEN state ELSE maps[j].state

LEMMA StateSet ==
  ASSUME MapsType, NEW i \in DOMAIN maps,
         NEW state \in {"made", "queued", "running", "complete", "failed"},
         maps' = [maps EXCEPT ![i].state = state]
  PROVE  SetsState(i, state)
<1>1. maps \in Seq(MapRecord) /\ DOMAIN maps = 1 .. Len(maps) /\ Len(maps) \in Nat
  BY DEF MapsType
<1>2. maps[i] \in MapRecord
  BY <1>1
<1>3. [maps[i] EXCEPT !.state = state] \in MapRecord
  BY <1>2 DEF MapRecord
<1>4. maps' \in Seq(MapRecord) /\ Len(maps') = Len(maps)
  BY <1>1, <1>3
<1>5. DOMAIN maps' = DOMAIN maps
  BY <1>1
<1>6. ASSUME NEW j \in DOMAIN maps
      PROVE  /\ maps'[j].region = maps[j].region /\ maps'[j].flags = maps[j].flags
             /\ maps'[j].ptr = maps[j].ptr
             /\ maps'[j].state = IF j = i THEN state ELSE maps[j].state
  <2>1. maps[j] \in MapRecord
    BY <1>1
  <2>2. maps'[j] = IF j = i THEN [maps[j] EXCEPT !.state = state] ELSE maps[j]
    BY <1>1
  <2> QED  BY <2>1, <2>2 DEF MapRecord
<1> QED  BY <1>4, <1>5, <1>6 DEF SetsState, SameMaps

-----------------------------------------------------------------------------
(* The registry                                                            *)

LEMMA RegisteredIs ==
  ASSUME RegistryInv, NEW i
  PROVE  /\ i \in Registered <=>
              /\ i \in DOMAIN maps /\ maps[i].ptr \in DOMAIN outstanding
              /\ i \in Range(outstanding[maps[i].ptr])
         /\ i \in Registered <=> i \in DOMAIN maps /\ i \in Range(MapsOf(maps[i].ptr))
<1>1. i \in Registered <=> \E p \in DOMAIN outstanding : i \in Range(outstanding[p])
  BY DEF Registered
<1>2. \A p \in DOMAIN outstanding :
        i \in Range(outstanding[p]) => i \in DOMAIN maps /\ maps[i].ptr = p
  BY DEF RegistryInv
<1>3. Range(<<>>) = {}
  BY DEF Range
<1> QED  BY <1>1, <1>2, <1>3 DEF MapsOf

(* A sequence without one of its places.                                   *)
LEMMA PlaceRemoved ==
  ASSUME NEW S, NEW s \in Seq(S), IsInjective(s), NEW k \in DOMAIN s
  PROVE  /\ RemoveAt(s, k) \in Seq(S) /\ IsInjective(RemoveAt(s, k))
         /\ Range(RemoveAt(s, k)) = Range(s) \ {s[k]}
<1>1. /\ DOMAIN s = 1 .. Len(s) /\ Len(s) \in Nat /\ k \in 1 .. Len(s)
  OBVIOUS
<1>2. PICK r : r = RemoveAt(s, k)
  OBVIOUS
<1>3. /\ r \in Seq(S) /\ Len(r) = Len(s) - 1
      /\ \A j \in 1 .. Len(s) - 1 : r[j] = IF j < k THEN s[j] ELSE s[j + 1]
  <2>1. PICK a, b : a = SubSeq(s, 1, k - 1) /\ b = SubSeq(s, k + 1, Len(s))
    OBVIOUS
  <2>2. /\ a \in Seq(S) /\ Len(a) = k - 1 /\ \A j \in 1 .. k - 1 : a[j] = s[j]
    BY <1>1, <2>1
  <2>3. /\ b \in Seq(S) /\ Len(b) = Len(s) - k /\ \A j \in 1 .. Len(s) - k : b[j] = s[k + j]
    BY <1>1, <2>1
  <2>4. r = a \o b
    BY <1>2, <2>1 DEF RemoveAt
  <2>5. /\ r \in Seq(S) /\ Len(r) = Len(s) - 1
        /\ \A j \in 1 .. Len(s) - 1 : r[j] = IF j <= k - 1 THEN a[j] ELSE b[j - (k - 1)]
    <3>1. /\ a \o b \in Seq(S) /\ Len(a \o b) = Len(a) + Len(b)
          /\ \A j \in 1 .. Len(a) + Len(b) : (a \o b)[j] =
               IF j <= Len(a) THEN a[j] ELSE b[j - Len(a)]
      BY <2>2, <2>3, ConcatProperties
    <3>2. Len(a) = k - 1 /\ Len(a) + Len(b) = Len(s) - 1
      BY <1>1, <2>2, <2>3
    <3> QED  BY <2>4, <3>1, <3>2
  <2>6. ASSUME NEW j \in 1 .. Len(s) - 1
        PROVE  r[j] = IF j < k THEN s[j] ELSE s[j + 1]
    <3>1. CASE j < k
      <4>1. j \in 1 .. k - 1 /\ j <= k - 1
        BY <1>1, <3>1
      <4> QED  BY <2>2, <2>5, <3>1, <4>1
    <3>2. CASE ~(j < k)
      <4>1. r[j] = b[j - (k - 1)]
        BY <1>1, <2>5, <3>2
      <4>2. j - (k - 1) \in 1 .. Len(s) - k /\ k + (j - (k - 1)) = j + 1
        BY <1>1, <3>2
      <4> QED  BY <2>3, <3>2, <4>1, <4>2
    <3> QED  BY <3>1, <3>2
  <2> QED  BY <2>5, <2>6
<1>4. DOMAIN r = 1 .. Len(s) - 1
  BY <1>1, <1>3
<1>5. IsInjective(r)
  <2> SUFFICES ASSUME NEW a \in 1 .. Len(s) - 1, NEW b \in 1 .. Len(s) - 1, r[a] = r[b]
               PROVE  a = b
    BY <1>4 DEF IsInjective
  <2>1. PICK c, d \in 1 .. Len(s) : /\ c = IF a < k THEN a ELSE a + 1
                                   /\ d = IF b < k THEN b ELSE b + 1
    BY <1>1
  <2>2. s[c] = s[d]
    BY <1>3, <2>1
  <2>3. c = d
    BY <1>1, <2>2 DEF IsInjective
  <2> QED  BY <1>1, <2>1, <2>3
<1>6. ASSUME NEW x \in Range(r) PROVE x \in Range(s) \ {s[k]}
  <2>1. PICK j \in 1 .. Len(s) - 1 : x = r[j]
    BY <1>4 DEF Range
  <2>2. CASE j < k
    <3>1. j \in DOMAIN s /\ j # k /\ x = s[j]
      BY <1>1, <1>3, <2>1, <2>2
    <3> QED  BY <3>1 DEF Range, IsInjective
  <2>3. CASE ~(j < k)
    <3>1. j + 1 \in DOMAIN s /\ j + 1 # k /\ x = s[j + 1]
      BY <1>1, <1>3, <2>1, <2>3
    <3> QED  BY <3>1 DEF Range, IsInjective
  <2> QED  BY <2>2, <2>3
<1>7. ASSUME NEW x \in Range(s) \ {s[k]} PROVE x \in Range(r)
  <2>1. PICK l \in DOMAIN s : x = s[l]
    BY DEF Range
  <2>2. l # k /\ l \in 1 .. Len(s)
    BY <1>1, <2>1
  <2>3. PICK j \in 1 .. Len(s) - 1 : j = IF l < k THEN l ELSE l - 1
    BY <1>1, <2>2
  <2>4. r[j] = s[l]
    BY <1>1, <1>3, <2>2, <2>3
  <2> QED  BY <1>4, <2>1, <2>4 DEF Range
<1> QED  BY <1>2, <1>3, <1>5, <1>6, <1>7

LEMMA TaskAdded ==
  ASSUME MapsType, RegistryInv, NEW map, NEW p, maps' = Append(maps, map), map.ptr = p,
         outstanding' = AddMapTask(Len(maps) + 1, p)
  PROVE  RegistryInv' /\ Registered' = Registered \cup {Len(maps) + 1}
<1> DEFINE n == Len(maps) + 1
<1>1. /\ maps \in Seq(MapRecord) /\ Len(maps) \in Nat /\ DOMAIN maps = 1 .. Len(maps)
      /\ DOMAIN maps' = DOMAIN maps \cup {n} /\ n \in Nat /\ n \notin DOMAIN maps
      /\ \A i \in DOMAIN maps : maps'[i] = maps[i]
      /\ maps'[n] = map
  BY DEF MapsType
<1>2. PICK q : q = MapsOf(p)
  OBVIOUS
<1>3. /\ q \in Seq(Nat) /\ IsInjective(q)
      /\ \A j \in Range(q) : j \in DOMAIN maps /\ maps[j].ptr = p
      /\ p \in DOMAIN outstanding => q = outstanding[p]
      /\ p \notin DOMAIN outstanding => Range(q) = {}
  <2>1. CASE p \in DOMAIN outstanding
    BY <1>2, <2>1 DEF MapsOf, RegistryInv
  <2>2. CASE p \notin DOMAIN outstanding
    BY <1>2, <2>2 DEF MapsOf, Range, IsInjective
  <2> QED  BY <2>1, <2>2
<1>4. PICK r : r = Append(q, n)
  OBVIOUS
<1>5. /\ r \in Seq(Nat) /\ r # <<>> /\ IsInjective(r) /\ Range(r) = Range(q) \cup {n}
  <2>1. /\ r \in Seq(Nat) /\ Len(r) = Len(q) + 1 /\ r[Len(q) + 1] = n /\ Len(q) \in Nat
        /\ \A j \in 1 .. Len(q) : r[j] = q[j]
        /\ DOMAIN r = 1 .. Len(q) + 1 /\ DOMAIN q = 1 .. Len(q)
    BY <1>1, <1>3, <1>4
  <2>2. Range(r) = Range(q) \cup {n}
    BY <2>1 DEF Range
  <2>3. IsInjective(r)
    <3>1. \A j \in DOMAIN q : q[j] # n
      BY <1>1, <1>3 DEF Range
    <3> SUFFICES ASSUME NEW a \in DOMAIN r, NEW b \in DOMAIN r, r[a] = r[b] PROVE a = b
      BY DEF IsInjective
    <3>2. CASE a \in DOMAIN q /\ b \in DOMAIN q
      BY <1>3, <2>1, <3>2 DEF IsInjective
    <3>3. CASE ~(a \in DOMAIN q /\ b \in DOMAIN q)
      BY <2>1, <3>1, <3>3
    <3> QED  BY <3>2, <3>3
  <2> QED  BY <2>1, <2>2, <2>3
<1>6. /\ DOMAIN outstanding' = DOMAIN outstanding \cup {p}
      /\ \A x \in DOMAIN outstanding' : outstanding'[x] = IF x = p THEN r ELSE outstanding[x]
  BY <1>2, <1>4 DEF AddMapTask
<1>7. RegistryInv'
  <2> SUFFICES ASSUME NEW x \in DOMAIN outstanding'
               PROVE  /\ outstanding'[x] \in Seq(Nat) /\ outstanding'[x] # <<>>
                      /\ IsInjective(outstanding'[x])
                      /\ \A j \in Range(outstanding'[x]) : j \in DOMAIN maps' /\ maps'[j].ptr = x
    BY DEF RegistryInv
  <2>1. CASE x = p
    BY <1>1, <1>3, <1>5, <1>6, <2>1
  <2>2. CASE x # p
    BY <1>1, <1>6, <2>2 DEF RegistryInv
  <2> QED  BY <2>1, <2>2
<1>8. ASSUME NEW j PROVE j \in Registered' <=> j \in Registered \cup {n}
  <2>1. j \in Registered <=> \E x \in DOMAIN outstanding : j \in Range(outstanding[x])
    BY DEF Registered
  <2>2. j \in Registered' <=> \E x \in DOMAIN outstanding' : j \in Range(outstanding'[x])
    BY DEF Registered
  <2> QED  BY <1>3, <1>5, <1>6, <2>1, <2>2
<1> QED  BY <1>7, <1>8

LEMMA TaskRemoved ==
  ASSUME RegistryInv, SameMaps, NEW i \in DOMAIN maps, outstanding' = RemoveMapTask(i)
  PROVE  RegistryInv' /\ Registered' = Registered \ {i}
<1> DEFINE p == maps[i].ptr
<1>1. CASE i \notin Registered
  <2>1. outstanding' = outstanding
    BY <1>1, RegisteredIs DEF RemoveMapTask
  <2> QED  BY <1>1, <2>1 DEF RegistryInv, Registered, SameMaps
<1>2. CASE i \in Registered
  <2>1. p \in DOMAIN outstanding /\ i \in Range(outstanding[p]) /\ MapsOf(p) = outstanding[p]
    BY <1>2, RegisteredIs DEF MapsOf
  <2>2. PICK q : q = outstanding[p]
    OBVIOUS
  <2>3. q \in Seq(Nat) /\ IsInjective(q)
    BY <2>1, <2>2 DEF RegistryInv
  <2>4. PICK k : k = CHOOSE l \in DOMAIN q : q[l] = i
    OBVIOUS
  <2>5. k \in DOMAIN q /\ q[k] = i
    BY <2>1, <2>2, <2>4 DEF Range
  <2>6. PICK r : r = RemoveAt(q, k)
    OBVIOUS
  <2>7. r \in Seq(Nat) /\ IsInjective(r) /\ Range(r) = Range(q) \ {i}
    BY <2>3, <2>5, <2>6, PlaceRemoved
  <2>8. outstanding' = Without(p, r)
    BY <2>1, <2>2, <2>4, <2>6 DEF RemoveMapTask
  <2>9. /\ DOMAIN outstanding' = IF r = <<>> THEN DOMAIN outstanding \ {p} ELSE DOMAIN outstanding
        /\ \A x \in DOMAIN outstanding' : outstanding'[x] = IF x = p THEN r ELSE outstanding[x]
    BY <2>1, <2>8 DEF Without, Restrict
  <2>10. RegistryInv'
    <3> SUFFICES ASSUME NEW x \in DOMAIN outstanding'
                 PROVE  /\ outstanding'[x] \in Seq(Nat) /\ outstanding'[x] # <<>>
                        /\ IsInjective(outstanding'[x])
                        /\ \A j \in Range(outstanding'[x]) : j \in DOMAIN maps' /\ maps'[j].ptr = x
      BY DEF RegistryInv
    <3>1. CASE x = p
      <4>1. r # <<>> /\ outstanding'[x] = r
        BY <2>9, <3>1
      <4>2. \A j \in Range(q) : j \in DOMAIN maps /\ maps[j].ptr = p
        BY <2>1, <2>2 DEF RegistryInv
      <4> QED  BY <2>7, <3>1, <4>1, <4>2 DEF SameMaps
    <3>2. CASE x # p
      <4>1. x \in DOMAIN outstanding /\ outstanding'[x] = outstanding[x]
        BY <2>9, <3>2
      <4> QED  BY <4>1 DEF RegistryInv, SameMaps
    <3> QED  BY <3>1, <3>2
  <2>11. ASSUME NEW j PROVE j \in Registered' <=> j \in Registered \ {i}
    <3>1. j \in Registered <=> \E x \in DOMAIN outstanding : j \in Range(outstanding[x])
      BY DEF Registered
    <3>2. j \in Registered' <=> \E x \in DOMAIN outstanding' : j \in Range(outstanding'[x])
      BY DEF Registered
    <3>3. \A x \in DOMAIN outstanding : i \in Range(outstanding[x]) => x = p
      BY DEF RegistryInv
    <3>4. Range(<<>>) = {}
      BY DEF Range
    <3> QED  BY <2>1, <2>2, <2>7, <2>9, <3>1, <3>2, <3>3, <3>4
  <2> QED  BY <2>10, <2>11
<1> QED  BY <1>1, <1>2

(* The map that is found under a pointer.                                  *)
LEMMA TaskFound ==
  ASSUME RegistryInv, NEW p \in DOMAIN outstanding
  PROVE  /\ GetMapTask(p) \in Registered /\ GetMapTask(p) \in DOMAIN maps
         /\ maps[GetMapTask(p)].ptr = p
<1>1. outstanding[p] \in Seq(Nat) /\ outstanding[p] # <<>>
  BY DEF RegistryInv
<1>2. GetMapTask(p) \in Range(outstanding[p])
  BY <1>1 DEF GetMapTask, Range
<1> QED  BY <1>2 DEF RegistryInv, Registered

-----------------------------------------------------------------------------
(* Calls, and which pointers the application has                           *)

Mapping(t) == call[t].at = "mapping"
Unmapping(t) == call[t].at = "unmapping"

(* A pointer that may be given back, and the map found for it.             *)
Match(given, found) ==
  /\ given \in DOMAIN maps /\ found \in DOMAIN maps
  /\ maps[given].ptr = maps[found].ptr /\ maps[given].state # "made"

MappingsInv ==
  /\ \A t \in Threads : Mapping(t) =>
       call[t].task \in DOMAIN maps /\ maps[call[t].task].state = "made"
  /\ \A t, u \in Threads : Mapping(t) /\ Mapping(u) /\ call[t].task = call[u].task => t = u

(* A pointer is held, or in a call that gives it back, or was given back:  *)
(* once, and in one of these.                                              *)
PointersInv ==
  /\ \A i \in held : i \in DOMAIN maps /\ maps[i].state # "made"
  /\ \A t \in Threads : Unmapping(t) =>
       Match(call[t].given, call[t].task) /\ call[t].given \notin held
  /\ \A t, u \in Threads : Unmapping(t) /\ Unmapping(u) /\ call[t].given = call[u].given => t = u
  /\ \A u \in DOMAIN unmaps :
       /\ Match(unmaps[u].given, unmaps[u].map) /\ unmaps[u].given \notin held
       /\ \A t \in Threads : Unmapping(t) => call[t].given # unmaps[u].given
       /\ \A v \in DOMAIN unmaps : unmaps[u].given = unmaps[v].given => u = v

CallInv ==
  /\ MappingsInv /\ PointersInv
  /\ \A t \in Threads : call[t] # Idle => ~released

Base == MapsType /\ DataType /\ RegistryInv /\ CallInv

SameUnmaps ==
  /\ DOMAIN unmaps' = DOMAIN unmaps
  /\ \A u \in DOMAIN unmaps : unmaps'[u].map = unmaps[u].map /\ unmaps'[u].given = unmaps[u].given

SetsUnmap(u, state) ==
  /\ unmaps' \in Seq(UnmapRecord) /\ Len(unmaps') = Len(unmaps) /\ SameUnmaps
  /\ \A v \in DOMAIN unmaps : unmaps'[v].state = IF v = u THEN state ELSE unmaps[v].state

SetsCall(t, to) == \A u \in Threads : call'[u] = IF u = t THEN to ELSE call[u]

LEMMA CallIs ==
  ASSUME MapsType, NEW t \in Threads
  PROVE  /\ call[t] = Idle => ~Mapping(t) /\ ~Unmapping(t)
         /\ call[t] # Idle => Mapping(t) \/ Unmapping(t)
         /\ Mapping(t) => ~Unmapping(t) /\ call[t].task \in Nat
         /\ Unmapping(t) => call[t].task \in Nat /\ call[t].given \in Nat
<1>1. call[t] \in CallRecord
  BY DEF MapsType
<1> QED  BY <1>1 DEF CallRecord, Mapping, Unmapping, Idle

LEMMA UnmapSet ==
  ASSUME MapsType, NEW u \in DOMAIN unmaps,
         NEW state \in {"queued", "running", "complete", "failed"},
         unmaps' = [unmaps EXCEPT ![u].state = state]
  PROVE  SetsUnmap(u, state)
<1>1. unmaps \in Seq(UnmapRecord) /\ DOMAIN unmaps = 1 .. Len(unmaps) /\ Len(unmaps) \in Nat
  BY DEF MapsType
<1>2. unmaps[u] \in UnmapRecord
  BY <1>1
<1>3. [unmaps[u] EXCEPT !.state = state] \in UnmapRecord
  BY <1>2 DEF UnmapRecord
<1>4. unmaps' \in Seq(UnmapRecord) /\ Len(unmaps') = Len(unmaps)
  BY <1>1, <1>3
<1>5. DOMAIN unmaps' = DOMAIN unmaps
  BY <1>1
<1>6. ASSUME NEW v \in DOMAIN unmaps
      PROVE  /\ unmaps'[v].map = unmaps[v].map /\ unmaps'[v].given = unmaps[v].given
             /\ unmaps'[v].state = IF v = u THEN state ELSE unmaps[v].state
  <2>1. unmaps[v] \in UnmapRecord
    BY <1>1
  <2>2. unmaps'[v] = IF v = u THEN [unmaps[v] EXCEPT !.state = state] ELSE unmaps[v]
    BY <1>1
  <2> QED  BY <2>1, <2>2 DEF UnmapRecord
<1> QED  BY <1>4, <1>5, <1>6 DEF SetsUnmap, SameUnmaps

(* What the steps that create or set a map, an unmap or a call do.         *)
MapAdded(n, region, flags) ==
  /\ n = Len(maps) + 1 /\ n \notin DOMAIN maps /\ n \in Nat
  /\ maps' \in Seq(MapRecord) /\ Len(maps') = n /\ DOMAIN maps' = DOMAIN maps \cup {n}
  /\ \A i \in DOMAIN maps : maps'[i] = maps[i]
  /\ maps'[n] = [region |-> region, flags |-> flags, ptr |-> Pointer(n, region), state |-> "made"]

LEMMA BeginMapIs ==
  ASSUME Base, NEW t \in Threads, BeginMap(t)
  PROVE  \E n : \E region \in Regions, flags \in {"R", "W"} :
           /\ MapAdded(n, region, flags) /\ Legal(region, flags)
           /\ call[t] = Idle /\ SetsCall(t, [at |-> "mapping", task |-> n])
           /\ RegistryInv' /\ Registered' = Registered \cup {n}
           /\ MapsType' /\ DataType'
           /\ \A i \in DOMAIN maps : undone'[i] = undone[i] /\ staging'[i] = staging[i]
           /\ undone'[n] = 0 /\ ~released
           /\ UNCHANGED <<kind, unmaps, held, device, host, truth, raced, released, alive>>
           /\ refs' = refs + 1
<1>1. PICK n : n = Len(maps) + 1
  OBVIOUS
<1>2. PICK region \in Regions, flags \in {"R", "W"} :
        /\ Legal(region, flags)
        /\ maps' = Append(maps, [region |-> region, flags |-> flags,
                                 ptr |-> Pointer(n, region), state |-> "made"])
        /\ outstanding' = AddMapTask(n, Pointer(n, region))
        /\ call' = [call EXCEPT ![t] = [at |-> "mapping", task |-> n]]
  BY <1>1 DEF BeginMap
<1>3. PICK map : map = [region |-> region, flags |-> flags, ptr |-> Pointer(n, region),
                        state |-> "made"]
  OBVIOUS
<1>4. Len(maps) \in Nat /\ n \in Nat /\ maps \in Seq(MapRecord) /\ DOMAIN maps = 1 .. Len(maps)
  BY <1>1 DEF Base, MapsType
<1>5. map \in MapRecord
  BY <1>3, <1>4 DEF MapRecord, Pointers, Pointer
<1>6. MapAdded(n, region, flags)
  BY <1>1, <1>2, <1>3, <1>4, <1>5 DEF MapAdded
<1>7. RegistryInv' /\ Registered' = Registered \cup {n}
  <2>1. map.ptr = Pointer(n, region)
    BY <1>3
  <2> QED  BY <1>1, <1>2, <1>3, <2>1, TaskAdded DEF Base
<1>8. SetsCall(t, [at |-> "mapping", task |-> n]) /\ call' \in [Threads -> CallRecord]
  <2>1. [at |-> "mapping", task |-> n] \in CallRecord
    BY <1>4 DEF CallRecord
  <2> QED  BY <1>2, <2>1 DEF SetsCall, Base, MapsType
<1>9. /\ undone' \in Seq(Nat) /\ Len(undone') = n /\ undone'[n] = 0
      /\ \A i \in DOMAIN maps : undone'[i] = undone[i]
  BY <1>1, <1>4 DEF Base, MapsType, BeginMap
<1>10. /\ staging' \in Seq([Cells -> Contents]) /\ Len(staging') = n
       /\ \A i \in DOMAIN maps : staging'[i] = staging[i]
  <2>1. [c \in Cells |-> Garbage] \in [Cells -> Contents]
    BY DEF Contents
  <2>2. staging' = Append(staging, [c \in Cells |-> Garbage]) /\ Len(staging) = Len(maps)
        /\ staging \in Seq([Cells -> Contents])
    BY DEF BeginMap, Base, DataType
  <2> QED  BY <1>1, <1>4, <2>1, <2>2
<1>11. /\ UNCHANGED <<kind, unmaps, held, device, host, truth, raced, released, alive>>
       /\ refs' = refs + 1
       /\ call[t] = Idle /\ ~released
  BY DEF BeginMap, AddReference
<1>12. DataType'
  BY <1>6, <1>10, <1>11 DEF Base, DataType, MapAdded
<1>13. MapsType'
  <2>1. ASSUME NEW i \in DOMAIN maps' PROVE (maps[i].ptr = Pointer(i, maps[i].region))'
    <3>1. CASE i \in DOMAIN maps
      <4>1. maps'[i] = maps[i] /\ maps[i].ptr = Pointer(i, maps[i].region)
        BY <1>6, <3>1 DEF Base, MapsType, MapAdded
      <4> QED  BY <1>11, <4>1 DEF Pointer
    <3>2. CASE i = n
      <4>1. maps'[i].ptr = Pointer(n, region) /\ maps'[i].region = region
        BY <1>6, <3>2 DEF MapAdded
      <4> QED  BY <1>11, <3>2, <4>1 DEF Pointer
    <3> QED  BY <1>6, <3>1, <3>2 DEF MapAdded
  <2> QED  BY <1>6, <1>8, <1>9, <1>11, <2>1 DEF Base, MapsType, MapAdded
<1> QED  BY <1>2, <1>6, <1>7, <1>8, <1>9, <1>10, <1>11, <1>12, <1>13

LEMMA TypesKept ==
  ASSUME MapsType, maps' \in Seq(MapRecord), Len(maps') = Len(maps), SameMaps, kind' = kind,
         unmaps' \in Seq(UnmapRecord), call' \in [Threads -> CallRecord],
         undone' \in Seq(Nat), Len(undone') = Len(undone)
  PROVE  MapsType'
<1>1. ASSUME NEW i \in DOMAIN maps' PROVE (maps[i].ptr = Pointer(i, maps[i].region))'
  <2>1. /\ maps'[i].region = maps[i].region /\ maps'[i].ptr = maps[i].ptr
        /\ maps[i].ptr = Pointer(i, maps[i].region)
    BY DEF SameMaps, MapsType
  <2> QED  BY <2>1 DEF Pointer
<1> QED  BY <1>1 DEF MapsType

LEMMA CallsSet ==
  ASSUME MapsType, NEW t \in Threads, NEW to \in CallRecord, call' = [call EXCEPT ![t] = to]
  PROVE  call' \in [Threads -> CallRecord] /\ SetsCall(t, to)
BY DEF MapsType, SetsCall

LEMMA IdleCall == Idle \in CallRecord
BY DEF CallRecord

(* Dropping a reference.                                                   *)
LEMMA Released ==
  ASSUME MapsType, ReleaseReference(undone)
  PROVE  /\ refs' = refs - 1 /\ alive' = (refs > 1)
         /\ undone' \in Seq(Nat) /\ Len(undone') = Len(undone)
         /\ \A i \in DOMAIN maps :
              undone'[i] = undone[i] + IF refs = 1 /\ i \in Registered THEN 1 ELSE 0
<1>1. /\ undone \in Seq(Nat) /\ DOMAIN undone = 1 .. Len(undone) /\ Len(undone) \in Nat
      /\ DOMAIN maps = DOMAIN undone
  BY DEF MapsType
<1>2. undone' = [i \in 1 .. Len(undone) |->
                   undone[i] + IF refs = 1 /\ i \in Registered THEN 1 ELSE 0]
  BY <1>1 DEF ReleaseReference
<1>3. \A i \in 1 .. Len(undone) :
        undone[i] + (IF refs = 1 /\ i \in Registered THEN 1 ELSE 0) \in Nat
  BY <1>1
<1>4. undone' \in Seq(Nat) /\ Len(undone') = Len(undone)
  BY <1>1, <1>2, <1>3, IsASeq
<1> QED  BY <1>1, <1>2, <1>4 DEF ReleaseReference

LEMMA FinishMapIs ==
  ASSUME Base, NEW t \in Threads, FinishMap(t)
  PROVE  \E i \in DOMAIN maps :
           /\ Mapping(t) /\ call[t].task = i /\ maps[i].state = "made"
           /\ SetsState(i, "queued") /\ SetsCall(t, Idle) /\ held' = held \cup {i}
           /\ UNCHANGED <<kind, unmaps, outstanding, object, data, undone, raced>>
           /\ MapsType' /\ DataType'
<1>1. PICK i : i = call[t].task
  OBVIOUS
<1>2. Mapping(t) /\ i \in DOMAIN maps /\ maps[i].state = "made"
  BY <1>1 DEF FinishMap, Mapping, Base, CallInv, MappingsInv
<1>3. /\ UNCHANGED <<kind, unmaps, outstanding, object, data, undone, raced>>
      /\ held' = held \cup {i} /\ maps' = [maps EXCEPT ![i].state = "queued"]
      /\ call' = [call EXCEPT ![t] = Idle]
  BY <1>1 DEF FinishMap
<1>4. SetsState(i, "queued")
  BY <1>2, <1>3, StateSet DEF Base
<1>5. SetsCall(t, Idle) /\ call' \in [Threads -> CallRecord]
  BY <1>3, CallsSet, IdleCall DEF Base
<1>6. MapsType'
  BY <1>3, <1>4, <1>5, TypesKept DEF Base, SetsState, MapsType
<1>7. DataType'
  BY <1>3, <1>4 DEF Base, DataType, SetsState, data
<1> QED  BY <1>1, <1>2, <1>3, <1>4, <1>5, <1>6, <1>7

LEMMA ThrowFromMapIs ==
  ASSUME Base, NEW t \in Threads, ThrowFromMap(t)
  PROVE  \E i \in DOMAIN maps :
           /\ Mapping(t) /\ call[t].task = i /\ maps[i].state = "made"
           /\ SetsState(i, "failed") /\ SetsCall(t, Idle)
           /\ RegistryInv' /\ Registered' = Registered \ {i}
           /\ refs' = refs - 1 /\ alive' = (refs > 1)
           /\ \A j \in DOMAIN maps :
                undone'[j] = undone[j] + IF refs = 1 /\ j \in Registered THEN 1 ELSE 0
           /\ UNCHANGED <<kind, unmaps, held, released, data, raced>>
           /\ MapsType' /\ DataType'
<1>1. PICK i : i = call[t].task
  OBVIOUS
<1>2. Mapping(t) /\ i \in DOMAIN maps /\ maps[i].state = "made"
  BY <1>1 DEF ThrowFromMap, Mapping, Base, CallInv, MappingsInv
<1>3. /\ UNCHANGED <<kind, unmaps, held, released, data, raced>>
      /\ maps' = [maps EXCEPT ![i].state = "failed"] /\ call' = [call EXCEPT ![t] = Idle]
      /\ outstanding' = RemoveMapTask(i) /\ ReleaseReference(undone)
  BY <1>1 DEF ThrowFromMap
<1>4. SetsState(i, "failed")
  BY <1>2, <1>3, StateSet DEF Base
<1>5. SetsCall(t, Idle) /\ call' \in [Threads -> CallRecord]
  BY <1>3, CallsSet, IdleCall DEF Base
<1>6. RegistryInv' /\ Registered' = Registered \ {i}
  BY <1>2, <1>3, <1>4, TaskRemoved DEF Base, SetsState
<1>7. /\ refs' = refs - 1 /\ alive' = (refs > 1)
      /\ undone' \in Seq(Nat) /\ Len(undone') = Len(undone)
      /\ \A j \in DOMAIN maps :
           undone'[j] = undone[j] + IF refs = 1 /\ j \in Registered THEN 1 ELSE 0
  BY <1>3, Released DEF Base
<1>8. MapsType'
  BY <1>3, <1>4, <1>5, <1>7, TypesKept DEF Base, SetsState, MapsType
<1>9. DataType'
  BY <1>3, <1>4 DEF Base, DataType, SetsState, data
<1> QED  BY <1>1, <1>2, <1>3, <1>4, <1>5, <1>6, <1>7, <1>8, <1>9

LEMMA BeginUnmapIs ==
  ASSUME Base, NEW t \in Threads, BeginUnmap(t)
  PROVE  \E i \in held, found \in Registered :
           /\ found \in DOMAIN maps /\ maps[found].ptr = maps[i].ptr /\ ~released
           /\ call[t] = Idle
           /\ SetsCall(t, [at |-> "unmapping", task |-> found, given |-> i])
           /\ held' = held \ {i}
           /\ raced' = IF \E u \in Threads : call[u] # Idle /\ call[u].task = found
                         THEN raced \cup {found} ELSE raced
           /\ UNCHANGED <<kind, maps, unmaps, outstanding, object, data, undone>>
           /\ MapsType' /\ DataType'
<1>1. PICK i, found :
        /\ i \in held /\ found = GetMapTask(maps[i].ptr) /\ maps[i].ptr \in DOMAIN outstanding
        /\ held' = held \ {i}
        /\ call' = [call EXCEPT ![t] = [at |-> "unmapping", task |-> found, given |-> i]]
        /\ raced' = IF \E u \in Threads : call[u] # Idle /\ call[u].task = found
                      THEN raced \cup {found} ELSE raced
  BY DEF BeginUnmap
<1>2. found \in Registered /\ found \in DOMAIN maps /\ maps[found].ptr = maps[i].ptr
  BY <1>1, TaskFound DEF Base
<1>3. /\ UNCHANGED <<kind, maps, unmaps, outstanding, object, data, undone>>
      /\ ~released /\ call[t] = Idle
  BY DEF BeginUnmap
<1>4. i \in Nat /\ found \in Nat
  BY <1>1, <1>2 DEF Base, CallInv, PointersInv, MapsType
<1>5. /\ SetsCall(t, [at |-> "unmapping", task |-> found, given |-> i])
      /\ call' \in [Threads -> CallRecord]
  <2>1. [at |-> "unmapping", task |-> found, given |-> i] \in CallRecord
    BY <1>4 DEF CallRecord
  <2> QED  BY <1>1, <2>1, CallsSet DEF Base
<1>6. MapsType' /\ DataType'
  BY <1>3, <1>5 DEF Base, MapsType, DataType, data, Pointer
<1> QED  BY <1>1, <1>2, <1>3, <1>5, <1>6

LEMMA FinishUnmapIs ==
  ASSUME Base, NEW t \in Threads, FinishUnmap(t)
  PROVE  \E u :
           /\ u = Len(unmaps) + 1 /\ u \notin DOMAIN unmaps
           /\ DOMAIN unmaps' = DOMAIN unmaps \cup {u}
           /\ \A v \in DOMAIN unmaps : unmaps'[v] = unmaps[v]
           /\ unmaps'[u] = [map |-> call[t].task, given |-> call[t].given, state |-> "queued"]
           /\ Unmapping(t) /\ call[t].task \in DOMAIN maps /\ call[t].given \in DOMAIN maps
           /\ SetsCall(t, Idle) /\ RegistryInv' /\ Registered' = Registered \ {call[t].task}
           /\ refs' = refs + 1 /\ ~released
           /\ UNCHANGED <<kind, maps, held, data, undone, raced, released, alive>>
           /\ MapsType' /\ DataType'
<1>1. PICK found, given : found = call[t].task /\ given = call[t].given
  OBVIOUS
<1>2. Unmapping(t) /\ found \in DOMAIN maps /\ given \in DOMAIN maps /\ ~released
  BY <1>1, CallIs DEF FinishUnmap, Unmapping, Base, CallInv, PointersInv, Match
<1>3. /\ UNCHANGED <<kind, maps, held, data, undone, raced, released, alive>> /\ refs' = refs + 1
      /\ unmaps' = Append(unmaps, [map |-> found, given |-> given, state |-> "queued"])
      /\ call' = [call EXCEPT ![t] = Idle] /\ outstanding' = RemoveMapTask(found)
  BY <1>1 DEF FinishUnmap, AddReference
<1>4. PICK new : new = [map |-> found, given |-> given, state |-> "queued"]
  OBVIOUS
<1>5. new \in UnmapRecord
  BY <1>2, <1>4 DEF UnmapRecord, Base, MapsType
<1>6. PICK u : u = Len(unmaps) + 1
  OBVIOUS
<1>7. /\ unmaps' \in Seq(UnmapRecord) /\ DOMAIN unmaps' = DOMAIN unmaps \cup {u}
      /\ u \notin DOMAIN unmaps /\ unmaps'[u] = new
      /\ \A v \in DOMAIN unmaps : unmaps'[v] = unmaps[v]
  BY <1>3, <1>4, <1>5, <1>6 DEF Base, MapsType
<1>8. SetsCall(t, Idle) /\ call' \in [Threads -> CallRecord]
  BY <1>3, CallsSet, IdleCall DEF Base
<1>9. RegistryInv' /\ Registered' = Registered \ {found}
  <2>1. SameMaps
    BY <1>3 DEF SameMaps
  <2> QED  BY <1>2, <1>3, <2>1, TaskRemoved DEF Base
<1>10. MapsType' /\ DataType'
  BY <1>3, <1>7, <1>8 DEF Base, MapsType, DataType, data, Pointer
<1> QED  BY <1>1, <1>2, <1>3, <1>4, <1>6, <1>7, <1>8, <1>9, <1>10

LEMMA ThrowFromUnmapIs ==
  ASSUME Base, NEW t \in Threads, ThrowFromUnmap(t)
  PROVE  \E given \in DOMAIN maps :
           /\ Unmapping(t) /\ given = call[t].given /\ held' = held \cup {given}
           /\ SetsCall(t, Idle)
           /\ UNCHANGED <<kind, maps, unmaps, outstanding, object, data, undone, raced>>
           /\ MapsType' /\ DataType'
<1>1. PICK given : given = call[t].given
  OBVIOUS
<1>2. Unmapping(t) /\ given \in DOMAIN maps
  BY <1>1 DEF ThrowFromUnmap, Unmapping, Base, CallInv, PointersInv, Match
<1>3. /\ UNCHANGED <<kind, maps, unmaps, outstanding, object, data, undone, raced>>
      /\ held' = held \cup {given} /\ call' = [call EXCEPT ![t] = Idle]
  BY <1>1 DEF ThrowFromUnmap
<1>4. SetsCall(t, Idle) /\ call' \in [Threads -> CallRecord]
  BY <1>3, CallsSet, IdleCall DEF Base
<1>5. MapsType' /\ DataType'
  BY <1>3, <1>4 DEF Base, MapsType, DataType, data, Pointer
<1> QED  BY <1>1, <1>2, <1>3, <1>4, <1>5

(* The steps of host and device leave all but the contents as it is.       *)
Books == <<kind, maps, unmaps, outstanding, call, held, object, undone, raced>>

LEMMA HostWriteIs ==
  ASSUME Base, HostWrite
  PROVE  \E i \in held, v \in Values : \E c \in maps[i].region :
           /\ maps[i].flags = "W" /\ maps[i].state = "complete" /\ c \in Cells
           /\ truth' = [truth EXCEPT ![c] = v]
           /\ host' = IF kind = "use" THEN [host EXCEPT ![c] = v] ELSE host
           /\ device' = IF kind = "alloc" THEN [device EXCEPT ![c] = v] ELSE device
           /\ staging' = IF kind = "copy" THEN [staging EXCEPT ![i][c] = v] ELSE staging
           /\ UNCHANGED Books /\ MapsType' /\ DataType'
<1>1. PICK i, v, c :
        /\ i \in held /\ v \in Values /\ c \in maps[i].region
        /\ maps[i].flags = "W" /\ maps[i].state = "complete"
        /\ truth' = [truth EXCEPT ![c] = v]
        /\ host' = IF kind = "use" THEN [host EXCEPT ![c] = v] ELSE host
        /\ device' = IF kind = "alloc" THEN [device EXCEPT ![c] = v] ELSE device
        /\ staging' = IF kind = "copy" THEN [staging EXCEPT ![i][c] = v] ELSE staging
        /\ UNCHANGED Books
  BY DEF HostWrite, Books
<1>2. i \in DOMAIN maps /\ maps[i] \in MapRecord
  BY <1>1 DEF Base, CallInv, PointersInv, MapsType
<1>3. c \in Cells
  BY <1>1, <1>2, MapTrackingAssumption DEF MapRecord
<1>4. v \in Contents /\ i \in DOMAIN staging
  BY <1>1, <1>2 DEF Contents, Base, MapsType, DataType
<1>5. MapsType'
  BY <1>1 DEF Base, MapsType, Books, Pointer
<1>6. DataType'
  <2>1. /\ truth' \in [Cells -> Contents] /\ host' \in [Cells -> Contents]
        /\ device' \in [Cells -> Contents]
    BY <1>1, <1>4 DEF Base, DataType
  <2>2. staging' \in Seq([Cells -> Contents]) /\ Len(staging') = Len(staging)
    <3>1. staging \in Seq([Cells -> Contents]) /\ staging[i] \in [Cells -> Contents]
      BY <1>4 DEF Base, DataType
    <3>2. PICK new \in [Cells -> Contents] : new = [staging[i] EXCEPT ![c] = v]
      BY <1>3, <1>4, <3>1
    <3>3. staging' = IF kind = "copy" THEN [staging EXCEPT ![i] = new] ELSE staging
      BY <1>1, <3>2
    <3> QED  BY <1>4, <3>1, <3>3
  <2> QED  BY <1>1, <2>1, <2>2 DEF Base, DataType, Books
<1> QED  BY <1>1, <1>3, <1>5, <1>6

LEMMA DeviceWriteIs ==
  ASSUME Base, DeviceWrite
  PROVE  \E c \in Cells, v \in Values :
           /\ \A i \in InUse : c \notin maps[i].region
           /\ device' = [device EXCEPT ![c] = v] /\ truth' = [truth EXCEPT ![c] = v]
           /\ UNCHANGED <<host, staging, Books>> /\ MapsType' /\ DataType'
<1>1. PICK c \in Cells, v \in Values :
        /\ \A i \in InUse : c \notin maps[i].region
        /\ device' = [device EXCEPT ![c] = v] /\ truth' = [truth EXCEPT ![c] = v]
  BY DEF DeviceWrite
<1>2. UNCHANGED <<host, staging, Books>>
  BY DEF DeviceWrite, Books
<1>3. MapsType'
  BY <1>2 DEF Base, MapsType, Books, Pointer
<1>4. DataType'
  <2>1. v \in Contents
    BY DEF Contents
  <2> QED  BY <1>1, <1>2, <2>1 DEF Base, DataType, Books
<1> QED  BY <1>1, <1>2, <1>3, <1>4

LEMMA ReleaseIs ==
  ASSUME Base, clReleaseMemObject
  PROVE  /\ ~released /\ released' = TRUE /\ \A t \in Threads : call[t] = Idle
         /\ refs' = refs - 1 /\ alive' = (refs > 1)
         /\ \A j \in DOMAIN maps :
              undone'[j] = undone[j] + IF refs = 1 /\ j \in Registered THEN 1 ELSE 0
         /\ UNCHANGED <<kind, maps, unmaps, outstanding, call, held, data, raced>>
         /\ MapsType' /\ DataType'
<1>1. /\ ~released /\ released' = TRUE /\ ReleaseReference(undone)
      /\ \A t \in Threads : call[t] = Idle
      /\ UNCHANGED <<kind, maps, unmaps, outstanding, call, held, data, raced>>
  BY DEF clReleaseMemObject
<1>2. /\ refs' = refs - 1 /\ alive' = (refs > 1)
      /\ undone' \in Seq(Nat) /\ Len(undone') = Len(undone)
      /\ \A j \in DOMAIN maps :
           undone'[j] = undone[j] + IF refs = 1 /\ j \in Registered THEN 1 ELSE 0
  BY <1>1, Released DEF Base
<1>3. MapsType' /\ DataType'
  BY <1>1, <1>2 DEF Base, MapsType, DataType, data, Pointer
<1> QED  BY <1>1, <1>2, <1>3

LEMMA RunMapIs ==
  ASSUME Base, NEW i \in DOMAIN maps, RunMap(i)
  PROVE  /\ maps[i].state = "queued" /\ SetsState(i, "running")
         /\ UNCHANGED <<kind, unmaps, outstanding, call, held, object, undone, raced>>
         /\ UNCHANGED <<device, truth>>
         /\ IF kind = "use"
              THEN \A c \in Cells : host'[c] = IF c \in maps[i].region THEN device[c] ELSE host[c]
              ELSE host' = host
         /\ \A j \in DOMAIN maps : j # i \/ kind # "copy" => staging'[j] = staging[j]
         /\ kind = "copy" => \A c \in maps[i].region : staging'[i][c] = device[c]
         /\ MapsType' /\ DataType'
<1> DEFINE take(old) == [c \in Cells |-> IF c \in maps[i].region THEN device[c] ELSE old[c]]
<1>1. /\ maps[i].state = "queued" /\ maps' = [maps EXCEPT ![i].state = "running"]
      /\ UNCHANGED <<kind, unmaps, outstanding, call, held, object, undone, raced>>
      /\ UNCHANGED <<device, truth>>
  BY DEF RunMap, RecordMap
<1>2. /\ host' = IF kind = "use" THEN take(host) ELSE host
      /\ staging' = IF kind = "copy" THEN [staging EXCEPT ![i] = take(staging[i])] ELSE staging
  BY DEF RunMap, RecordMap
<1>3. SetsState(i, "running")
  BY <1>1, StateSet DEF Base
<1>4. i \in DOMAIN staging /\ staging[i] \in [Cells -> Contents] /\ maps[i].region \subseteq Cells
  <2>1. maps[i] \in MapRecord
    BY DEF Base, MapsType
  <2>2. maps[i].region \subseteq Cells
    BY <2>1, MapTrackingAssumption DEF MapRecord
  <2>3. i \in DOMAIN staging /\ staging[i] \in [Cells -> Contents]
    BY DEF Base, MapsType, DataType
  <2> QED  BY <2>2, <2>3
<1>5. take(host) \in [Cells -> Contents] /\ take(staging[i]) \in [Cells -> Contents]
  BY <1>4 DEF Base, DataType
<1>6. host' \in [Cells -> Contents]
  BY <1>2, <1>5 DEF Base, DataType
<1>7. /\ staging' \in Seq([Cells -> Contents]) /\ Len(staging') = Len(staging)
      /\ \A j \in DOMAIN maps : j # i \/ kind # "copy" => staging'[j] = staging[j]
      /\ kind = "copy" => staging'[i] = take(staging[i])
  <2>1. PICK new \in [Cells -> Contents] : new = take(staging[i])
    BY <1>5
  <2>2. staging' = IF kind = "copy" THEN [staging EXCEPT ![i] = new] ELSE staging
    BY <1>2, <2>1
  <2>3. /\ staging' \in Seq([Cells -> Contents]) /\ Len(staging') = Len(staging)
        /\ \A j \in DOMAIN maps : j # i \/ kind # "copy" => staging'[j] = staging[j]
        /\ kind = "copy" => staging'[i] = new
    <3>1. /\ staging \in Seq([Cells -> Contents]) /\ i \in 1 .. Len(staging)
          /\ DOMAIN maps = 1 .. Len(staging)
      BY <1>4 DEF Base, DataType, MapsType
    <3>2. CASE kind = "copy"
      <4>1. staging' = [staging EXCEPT ![i] = new]
        BY <2>2, <3>2
      <4>2. \A j \in 1 .. Len(staging) : staging'[j] = IF j = i THEN new ELSE staging[j]
        BY <3>1, <4>1
      <4>3. staging' \in Seq([Cells -> Contents]) /\ Len(staging') = Len(staging)
        BY <3>1, <4>1, ExceptSeq
      <4> QED  BY <3>1, <3>2, <4>2, <4>3
    <3>3. CASE kind # "copy"
      BY <2>2, <3>1, <3>3
    <3> QED  BY <3>2, <3>3
  <2> QED  BY <2>1, <2>3
<1>8. MapsType'
  BY <1>1, <1>3, TypesKept DEF Base, SetsState, MapsType
<1>9. DataType'
  BY <1>1, <1>3, <1>6, <1>7 DEF Base, DataType, SetsState
<1>10. IF kind = "use"
         THEN \A c \in Cells : host'[c] = IF c \in maps[i].region THEN device[c] ELSE host[c]
         ELSE host' = host
  BY <1>2
<1>11. kind = "copy" => \A c \in maps[i].region : staging'[i][c] = device[c]
  BY <1>4, <1>7
<1> QED  BY <1>1, <1>3, <1>7, <1>8, <1>9, <1>10, <1>11

LEMMA CompleteMapIs ==
  ASSUME Base, NEW i \in DOMAIN maps, CompleteMap(i)
  PROVE  /\ maps[i].state = "running" /\ SetsState(i, "complete")
         /\ refs' = refs - 1 /\ alive' = (refs > 1)
         /\ \A j \in DOMAIN maps :
              undone'[j] = undone[j] + IF refs = 1 /\ j \in Registered THEN 1 ELSE 0
         /\ UNCHANGED <<kind, unmaps, outstanding, call, held, released, data, raced>>
         /\ MapsType' /\ DataType'
<1>1. /\ maps[i].state = "running" /\ maps' = [maps EXCEPT ![i].state = "complete"]
      /\ ReleaseReference(undone)
      /\ UNCHANGED <<kind, unmaps, outstanding, call, held, released, data, raced>>
  BY DEF CompleteMap
<1>2. /\ refs' = refs - 1 /\ alive' = (refs > 1)
      /\ undone' \in Seq(Nat) /\ Len(undone') = Len(undone)
      /\ \A j \in DOMAIN maps :
           undone'[j] = undone[j] + IF refs = 1 /\ j \in Registered THEN 1 ELSE 0
  BY <1>1, Released DEF Base
<1>3. SetsState(i, "complete")
  BY <1>1, StateSet DEF Base
<1>4. MapsType'
  BY <1>1, <1>2, <1>3, TypesKept DEF Base, SetsState, MapsType
<1>5. DataType'
  BY <1>1, <1>3 DEF Base, DataType, SetsState, data
<1> QED  BY <1>1, <1>2, <1>3, <1>4, <1>5

LEMMA FailMapIs ==
  ASSUME Base, NEW i \in DOMAIN maps, FailMap(i)
  PROVE  /\ maps[i].state = "queued" /\ SetsState(i, "failed")
         /\ UNCHANGED <<kind, unmaps, outstanding, call, held, object, undone, data, raced>>
         /\ MapsType' /\ DataType'
<1>1. /\ maps[i].state = "queued" /\ maps' = [maps EXCEPT ![i].state = "failed"]
      /\ UNCHANGED <<kind, unmaps, outstanding, call, held, object, undone, data, raced>>
  BY DEF FailMap
<1>2. SetsState(i, "failed")
  BY <1>1, StateSet DEF Base
<1>3. MapsType'
  BY <1>1, <1>2, TypesKept DEF Base, SetsState, MapsType
<1>4. DataType'
  BY <1>1, <1>2 DEF Base, DataType, SetsState, data
<1> QED  BY <1>1, <1>2, <1>3, <1>4

LEMMA RunUnmapIs ==
  ASSUME Base, NEW u \in DOMAIN unmaps, RunUnmap(u)
  PROVE  \E m \in DOMAIN maps :
         /\ unmaps[u].state = "queued" /\ Ended(maps[unmaps[u].given]) /\ m = unmaps[u].map
         /\ SetsUnmap(u, "running")
         /\ UNCHANGED <<kind, maps, outstanding, call, held, object, raced, host, truth>>
         /\ \A j \in DOMAIN maps : undone'[j] = IF j = m THEN undone[j] + 1 ELSE undone[j]
         /\ IF maps[m].flags = "W" /\ kind # "alloc"
              THEN \A c \in Cells :
                     device'[c] = IF c \in maps[m].region THEN View(m)[c] ELSE device[c]
              ELSE device' = device
         /\ \A j \in DOMAIN maps : j # m => staging'[j] = staging[j]
         /\ MapsType' /\ DataType'
<1>1. PICK m : m = unmaps[u].map
  OBVIOUS
<1>2. m \in DOMAIN maps
  BY <1>1 DEF Base, CallInv, PointersInv, Match
<1>3. /\ unmaps[u].state = "queued" /\ Ended(maps[unmaps[u].given])
      /\ unmaps' = [unmaps EXCEPT ![u].state = "running"]
      /\ UNCHANGED <<kind, maps, outstanding, call, held, object, raced, host, truth>>
      /\ undone' = [undone EXCEPT ![m] = undone[m] + 1]
  BY <1>1 DEF RunUnmap, RecordUnmap
<1>4. /\ device' = IF maps[m].flags = "W" /\ kind # "alloc"
           THEN [c \in Cells |-> IF c \notin maps[m].region THEN device[c]
                                 ELSE IF kind = "use" THEN host[c] ELSE staging[m][c]]
           ELSE device
      /\ staging' = [staging EXCEPT ![m] = [c \in Cells |-> Garbage]]
  BY <1>1 DEF RunUnmap, RecordUnmap
<1>5. SetsUnmap(u, "running")
  BY <1>3, UnmapSet DEF Base
<1>6. m \in DOMAIN staging /\ staging[m] \in [Cells -> Contents] /\ m \in DOMAIN undone
  BY <1>2 DEF Base, MapsType, DataType
<1>7. /\ undone' \in Seq(Nat) /\ Len(undone') = Len(undone)
      /\ \A j \in DOMAIN maps : undone'[j] = IF j = m THEN undone[j] + 1 ELSE undone[j]
  BY <1>2, <1>3, <1>6 DEF Base, MapsType
<1>8. device' \in [Cells -> Contents]
  BY <1>4, <1>6 DEF Base, DataType
<1>9. /\ staging' \in Seq([Cells -> Contents]) /\ Len(staging') = Len(staging)
      /\ \A j \in DOMAIN maps : j # m => staging'[j] = staging[j]
  <2>1. [c \in Cells |-> Garbage] \in [Cells -> Contents]
    BY DEF Contents
  <2> QED  BY <1>4, <1>6, <2>1 DEF Base, MapsType, DataType
<1>10. IF maps[m].flags = "W" /\ kind # "alloc"
         THEN \A c \in Cells : device'[c] = IF c \in maps[m].region THEN View(m)[c] ELSE device[c]
         ELSE device' = device
  <2>1. kind # "alloc" => View(m) = IF kind = "use" THEN host ELSE staging[m]
    BY DEF View, Base, MapsType
  <2> QED  BY <1>4, <2>1
<1>11. MapsType'
  BY <1>3, <1>5, <1>7 DEF Base, MapsType, SetsUnmap, Pointer
<1>12. DataType'
  BY <1>3, <1>8, <1>9 DEF Base, DataType
<1> QED  BY <1>1, <1>2, <1>3, <1>5, <1>7, <1>9, <1>10, <1>11, <1>12

LEMMA EndUnmapIs ==
  ASSUME Base, NEW u \in DOMAIN unmaps, EndUnmap(u)
  PROVE  /\ \/ unmaps[u].state = "running" /\ SetsUnmap(u, "complete")
            \/ unmaps[u].state = "queued" /\ SetsUnmap(u, "failed")
         /\ refs' = refs - 1 /\ alive' = (refs > 1)
         /\ \A j \in DOMAIN maps :
              undone'[j] = undone[j] + IF refs = 1 /\ j \in Registered THEN 1 ELSE 0
         /\ UNCHANGED <<kind, maps, outstanding, call, held, released, data, raced>>
         /\ MapsType' /\ DataType'
<1>1. /\ \/ unmaps[u].state = "running" /\ unmaps' = [unmaps EXCEPT ![u].state = "complete"]
         \/ unmaps[u].state = "queued" /\ unmaps' = [unmaps EXCEPT ![u].state = "failed"]
      /\ ReleaseReference(undone)
      /\ UNCHANGED <<kind, maps, outstanding, call, held, released, data, raced>>
  BY DEF EndUnmap
<1>2. /\ refs' = refs - 1 /\ alive' = (refs > 1)
      /\ undone' \in Seq(Nat) /\ Len(undone') = Len(undone)
      /\ \A j \in DOMAIN maps :
           undone'[j] = undone[j] + IF refs = 1 /\ j \in Registered THEN 1 ELSE 0
  BY <1>1, Released DEF Base
<1>3. \/ unmaps[u].state = "running" /\ SetsUnmap(u, "complete")
      \/ unmaps[u].state = "queued" /\ SetsUnmap(u, "failed")
  BY <1>1, UnmapSet DEF Base
<1>4. MapsType' /\ DataType'
  <2>1. unmaps' \in Seq(UnmapRecord)
    BY <1>3 DEF SetsUnmap
  <2> QED  BY <1>1, <1>2, <2>1 DEF Base, MapsType, DataType, data, Pointer
<1> QED  BY <1>1, <1>2, <1>3, <1>4

LEMMA CallQuiet ==
  ASSUME CallInv, SameMaps, SameUnmaps, UNCHANGED <<call, held>>,
         \A i \in DOMAIN maps : maps'[i].state = "made" <=> maps[i].state = "made",
         \A t \in Threads : call[t] # Idle => ~released'
  PROVE  CallInv'
<1>1. MappingsInv'
  BY DEF CallInv, MappingsInv, Mapping, SameMaps
<1>2. PointersInv'
  BY DEF CallInv, PointersInv, Unmapping, Match, SameMaps, SameUnmaps
<1> QED  BY <1>1, <1>2 DEF CallInv

LEMMA BeginMapCalls ==
  ASSUME Base, NEW t \in Threads, BeginMap(t)
  PROVE  CallInv'
<1>1. PICK n, region, flags :
        /\ MapAdded(n, region, flags) /\ call[t] = Idle
        /\ SetsCall(t, [at |-> "mapping", task |-> n])
        /\ UNCHANGED <<unmaps, held, released>> /\ ~released
  BY BeginMapIs
<1>2. /\ n \notin DOMAIN maps /\ DOMAIN maps' = DOMAIN maps \cup {n}
      /\ \A i \in DOMAIN maps : maps'[i] = maps[i]
      /\ maps'[n].state = "made"
  BY <1>1 DEF MapAdded
<1>3. \A u \in Threads :
        /\ Mapping(u)' <=> u = t \/ Mapping(u)
        /\ Unmapping(u)' <=> Unmapping(u)
        /\ u # t => call'[u] = call[u]
        /\ u = t => call'[u].task = n /\ call'[u] # Idle
  BY <1>1, CallIs DEF SetsCall, Mapping, Unmapping, Base, Idle
<1>4. \A u \in Threads : Unmapping(u) => u # t
  BY <1>1, CallIs DEF Base
<1>5. MappingsInv'
  BY <1>2, <1>3 DEF Base, CallInv, MappingsInv
<1>6. PointersInv'
  BY <1>1, <1>2, <1>3, <1>4 DEF Base, CallInv, PointersInv, Match
<1> QED  BY <1>1, <1>5, <1>6 DEF CallInv

(* The call of thread t returns.                                           *)
LEMMA Returned ==
  ASSUME NEW t \in Threads, SetsCall(t, Idle)
  PROVE  \A u \in Threads :
           /\ Mapping(u)' <=> u # t /\ Mapping(u)
           /\ Unmapping(u)' <=> u # t /\ Unmapping(u)
           /\ u # t => call'[u] = call[u]
           /\ u = t => call'[u] = Idle
BY DEF SetsCall, Mapping, Unmapping, Idle

LEMMA FinishMapCalls ==
  ASSUME Base, NEW t \in Threads, FinishMap(t)
  PROVE  CallInv'
<1>1. PICK i \in DOMAIN maps :
        /\ Mapping(t) /\ call[t].task = i /\ maps[i].state = "made"
        /\ SetsState(i, "queued") /\ SetsCall(t, Idle) /\ held' = held \cup {i}
        /\ UNCHANGED <<unmaps, released>>
  BY FinishMapIs DEF object
<1>2. SameMaps /\ \A j \in DOMAIN maps : maps'[j].state = IF j = i THEN "queued" ELSE maps[j].state
  BY <1>1 DEF SetsState
<1>3. MappingsInv'
  BY <1>1, <1>2, Returned DEF Base, CallInv, MappingsInv, SameMaps
<1>4. \A given, found : Match(given, found) => Match(given, found)' /\ given # i
  BY <1>1, <1>2 DEF Match, SameMaps
<1>5. PointersInv'
  <2>1. \A j \in held' : j \in DOMAIN maps' /\ maps'[j].state # "made"
    BY <1>1, <1>2 DEF Base, CallInv, PointersInv, SameMaps
  <2>2. \A u \in Threads : Unmapping(u)' =>
          Match(call[u].given, call[u].task)' /\ call'[u].given \notin held'
    BY <1>1, <1>4, Returned DEF Base, CallInv, PointersInv, Match, SameMaps
  <2>3. \A u \in DOMAIN unmaps :
          Match(unmaps[u].given, unmaps[u].map)' /\ unmaps[u].given \notin held'
    BY <1>1, <1>4 DEF Base, CallInv, PointersInv, Match, SameMaps
  <2> QED  BY <1>1, <2>1, <2>2, <2>3, Returned DEF Base, CallInv, PointersInv
<1> QED  BY <1>1, <1>3, <1>5, Returned DEF Base, CallInv

LEMMA ThrowFromMapCalls ==
  ASSUME Base, NEW t \in Threads, ThrowFromMap(t)
  PROVE  CallInv'
<1>1. PICK i \in DOMAIN maps :
        /\ Mapping(t) /\ call[t].task = i /\ maps[i].state = "made"
        /\ SetsState(i, "failed") /\ SetsCall(t, Idle)
        /\ UNCHANGED <<unmaps, held, released>>
  BY ThrowFromMapIs
<1>2. SameMaps /\ \A j \in DOMAIN maps : maps'[j].state = IF j = i THEN "failed" ELSE maps[j].state
  BY <1>1 DEF SetsState
<1>3. MappingsInv'
  BY <1>1, <1>2, Returned DEF Base, CallInv, MappingsInv, SameMaps
<1>4. \A given, found : Match(given, found) => Match(given, found)'
  BY <1>1, <1>2 DEF Match, SameMaps
<1>5. PointersInv'
  BY <1>1, <1>2, <1>4, Returned DEF Base, CallInv, PointersInv, SameMaps
<1> QED  BY <1>1, <1>3, <1>5, Returned DEF Base, CallInv

LEMMA BeginUnmapCalls ==
  ASSUME Base, NEW t \in Threads, BeginUnmap(t)
  PROVE  CallInv'
<1>1. PICK i, found :
        /\ i \in held /\ found \in DOMAIN maps /\ maps[found].ptr = maps[i].ptr /\ ~released
        /\ call[t] = Idle
        /\ SetsCall(t, [at |-> "unmapping", task |-> found, given |-> i])
        /\ held' = held \ {i}
        /\ UNCHANGED <<maps, unmaps, released>>
  BY BeginUnmapIs DEF object
<1>2. \A u \in Threads :
        /\ Mapping(u)' <=> u # t /\ Mapping(u)
        /\ Unmapping(u)' <=> u = t \/ Unmapping(u)
        /\ u # t => call'[u] = call[u]
        /\ u = t => call'[u].task = found /\ call'[u].given = i
  BY <1>1, CallIs DEF SetsCall, Mapping, Unmapping, Base
<1>3. Match(i, found)
  BY <1>1 DEF Base, CallInv, PointersInv, Match
<1>4. MappingsInv'
  BY <1>1, <1>2 DEF Base, CallInv, MappingsInv
<1>5. PointersInv'
  <2>1. \A u \in Threads : Unmapping(u) => call[u].given # i /\ u # t
    BY <1>1, CallIs DEF Base, CallInv, PointersInv
  <2>2. \A u \in DOMAIN unmaps : unmaps[u].given # i
    BY <1>1 DEF Base, CallInv, PointersInv
  <2>3. \A given, other : Match(given, other)' <=> Match(given, other)
    BY <1>1 DEF Match
  <2> QED  BY <1>1, <1>2, <1>3, <2>1, <2>2, <2>3 DEF Base, CallInv, PointersInv
<1> QED  BY <1>1, <1>4, <1>5 DEF CallInv

LEMMA FinishUnmapCalls ==
  ASSUME Base, NEW t \in Threads, FinishUnmap(t)
  PROVE  CallInv'
<1>0. PICK found, given : found = call[t].task /\ given = call[t].given
  OBVIOUS
<1>1. PICK u :
        /\ Unmapping(t) /\ found = call[t].task /\ given = call[t].given
        /\ u \notin DOMAIN unmaps /\ DOMAIN unmaps' = DOMAIN unmaps \cup {u}
        /\ \A v \in DOMAIN unmaps : unmaps'[v] = unmaps[v]
        /\ unmaps'[u] = [map |-> found, given |-> given, state |-> "queued"]
        /\ SetsCall(t, Idle) /\ UNCHANGED <<maps, held, released>>
  BY <1>0, FinishUnmapIs
<1>2. MappingsInv'
  BY <1>1, Returned DEF Base, CallInv, MappingsInv
<1>3. PointersInv'
  <2>1. Match(given, found) /\ given \notin held
    BY <1>1 DEF Base, CallInv, PointersInv
  <2>2. \A v \in DOMAIN unmaps : unmaps[v].given # given
    BY <1>1 DEF Base, CallInv, PointersInv
  <2>3. \A v \in Threads : v # t /\ Unmapping(v) => call[v].given # given
    BY <1>1 DEF Base, CallInv, PointersInv
  <2>4. \A a, b : Match(a, b)' <=> Match(a, b)
    BY <1>1 DEF Match
  <2>5. unmaps'[u].map = found /\ unmaps'[u].given = given
    BY <1>1
  <2>6. \A v \in DOMAIN unmaps' :
          /\ Match(unmaps'[v].given, unmaps'[v].map) /\ unmaps'[v].given \notin held
          /\ \A w \in Threads : w # t /\ Unmapping(w) => call[w].given # unmaps'[v].given
          /\ \A w \in DOMAIN unmaps' : unmaps'[v].given = unmaps'[w].given => v = w
    BY <1>1, <2>1, <2>2, <2>3, <2>5 DEF Base, CallInv, PointersInv
  <2>7. \A v \in DOMAIN unmaps' :
          /\ Match(unmaps[v].given, unmaps[v].map)' /\ unmaps'[v].given \notin held'
          /\ \A w \in Threads : Unmapping(w)' => call'[w].given # unmaps'[v].given
          /\ \A w \in DOMAIN unmaps' : unmaps'[v].given = unmaps'[w].given => v = w
    BY <1>1, <2>6, Returned DEF Match
  <2>8. \A v \in Threads : Unmapping(v)' =>
          Match(call[v].given, call[v].task)' /\ call'[v].given \notin held'
    BY <1>1, <2>4, Returned DEF Base, CallInv, PointersInv, Match
  <2> QED  BY <1>1, <2>7, <2>8, Returned DEF Base, CallInv, PointersInv
<1> QED  BY <1>1, <1>2, <1>3, Returned DEF Base, CallInv

LEMMA ThrowFromUnmapCalls ==
  ASSUME Base, NEW t \in Threads, ThrowFromUnmap(t)
  PROVE  CallInv'
<1>1. PICK given \in DOMAIN maps :
        /\ Unmapping(t) /\ given = call[t].given /\ held' = held \cup {given}
        /\ SetsCall(t, Idle) /\ UNCHANGED <<maps, unmaps, released>>
  BY ThrowFromUnmapIs DEF object
<1>2. MappingsInv'
  BY <1>1, Returned DEF Base, CallInv, MappingsInv
<1>3. PointersInv'
  <2>1. maps[given].state # "made"
    BY <1>1 DEF Base, CallInv, PointersInv, Match
  <2>2. \A v \in Threads : v # t /\ Unmapping(v) => call[v].given # given
    BY <1>1 DEF Base, CallInv, PointersInv
  <2>3. \A v \in DOMAIN unmaps : unmaps[v].given # given
    BY <1>1 DEF Base, CallInv, PointersInv
  <2>4. \A a, b : Match(a, b)' <=> Match(a, b)
    BY <1>1 DEF Match
  <2>5. \A v \in Threads : Unmapping(v)' =>
          Match(call[v].given, call[v].task)' /\ call'[v].given \notin held'
    BY <1>1, <2>2, <2>4, Returned DEF Base, CallInv, PointersInv, Match
  <2>6. \A v \in DOMAIN unmaps :
          Match(unmaps[v].given, unmaps[v].map)' /\ unmaps[v].given \notin held'
    BY <1>1, <2>3, <2>4 DEF Base, CallInv, PointersInv, Match
  <2> QED  BY <1>1, <2>1, <2>5, <2>6, Returned DEF Base, CallInv, PointersInv
<1> QED  BY <1>1, <1>2, <1>3, Returned DEF Base, CallInv

LEMMA RegistryQuiet ==
  ASSUME RegistryInv, SameMaps, outstanding' = outstanding
  PROVE  RegistryInv' /\ Registered' = Registered
BY DEF RegistryInv, SameMaps, Registered

LEMMA BaseStep ==
  ASSUME Base, [Next]_vars
  PROVE  Base'
<1>1. CASE UNCHANGED vars
  <2>1. SameMaps /\ SameUnmaps
    BY <1>1 DEF vars, SameMaps, SameUnmaps
  <2>2. CallInv'
    BY <1>1, <2>1, CallQuiet DEF Base, vars, object, CallInv
  <2>3. RegistryInv'
    BY <1>1, <2>1, RegistryQuiet DEF Base, vars
  <2>4. MapsType' /\ DataType'
    BY <1>1 DEF Base, MapsType, DataType, vars, data, Pointer
  <2> QED  BY <2>2, <2>3, <2>4 DEF Base
<1>2. ASSUME NEW t \in Threads, BeginMap(t) PROVE Base'
  BY <1>2, BeginMapIs, BeginMapCalls DEF Base
<1>3. ASSUME NEW t \in Threads, FinishMap(t) PROVE Base'
  <2>1. PICK i : SetsState(i, "queued") /\ outstanding' = outstanding /\ MapsType' /\ DataType'
    BY <1>3, FinishMapIs
  <2>2. RegistryInv'
    BY <2>1, RegistryQuiet DEF Base, SetsState
  <2> QED  BY <1>3, <2>1, <2>2, FinishMapCalls DEF Base
<1>4. ASSUME NEW t \in Threads, ThrowFromMap(t) PROVE Base'
  BY <1>4, ThrowFromMapIs, ThrowFromMapCalls DEF Base
<1>5. ASSUME NEW t \in Threads, BeginUnmap(t) PROVE Base'
  <2>1. UNCHANGED <<maps, outstanding>> /\ MapsType' /\ DataType'
    BY <1>5, BeginUnmapIs
  <2>2. RegistryInv'
    BY <2>1, RegistryQuiet DEF Base, SameMaps
  <2> QED  BY <1>5, <2>1, <2>2, BeginUnmapCalls DEF Base
<1>6. ASSUME NEW t \in Threads, FinishUnmap(t) PROVE Base'
  BY <1>6, FinishUnmapIs, FinishUnmapCalls DEF Base
<1>7. ASSUME NEW t \in Threads, ThrowFromUnmap(t) PROVE Base'
  <2>1. UNCHANGED <<maps, outstanding>> /\ MapsType' /\ DataType'
    BY <1>7, ThrowFromUnmapIs
  <2>2. RegistryInv'
    BY <2>1, RegistryQuiet DEF Base, SameMaps
  <2> QED  BY <1>7, <2>1, <2>2, ThrowFromUnmapCalls DEF Base
<1>8. CASE HostWrite
  <2>1. UNCHANGED Books /\ MapsType' /\ DataType'
    BY <1>8, HostWriteIs
  <2>2. SameMaps /\ SameUnmaps
    BY <2>1 DEF Books, SameMaps, SameUnmaps
  <2> QED  BY <2>1, <2>2, RegistryQuiet, CallQuiet DEF Base, Books, object, CallInv
<1>9. CASE DeviceWrite
  <2>1. UNCHANGED Books /\ MapsType' /\ DataType'
    BY <1>9, DeviceWriteIs
  <2>2. SameMaps /\ SameUnmaps
    BY <2>1 DEF Books, SameMaps, SameUnmaps
  <2> QED  BY <2>1, <2>2, RegistryQuiet, CallQuiet DEF Base, Books, object, CallInv
<1>10. CASE clReleaseMemObject
  <2>1. /\ UNCHANGED <<maps, unmaps, outstanding, call, held>> /\ MapsType' /\ DataType'
        /\ \A t \in Threads : call[t] = Idle
    BY <1>10, ReleaseIs
  <2>2. SameMaps /\ SameUnmaps
    BY <2>1 DEF SameMaps, SameUnmaps
  <2> QED  BY <2>1, <2>2, RegistryQuiet, CallQuiet DEF Base
<1>11. ASSUME NEW i \in DOMAIN maps, RunMap(i) \/ CompleteMap(i) \/ FailMap(i) PROVE Base'
  <2>1. /\ \E s \in {"running", "complete", "failed"} : SetsState(i, s)
        /\ maps[i].state # "made" /\ MapsType' /\ DataType'
        /\ UNCHANGED <<unmaps, outstanding, call, held, released>>
    BY <1>11, RunMapIs, CompleteMapIs, FailMapIs DEF object
  <2>2. SameMaps /\ SameUnmaps
    BY <2>1 DEF SetsState, SameUnmaps
  <2>3. \A j \in DOMAIN maps : maps'[j].state = "made" <=> maps[j].state = "made"
    BY <2>1 DEF SetsState
  <2> QED  BY <2>1, <2>2, <2>3, RegistryQuiet, CallQuiet DEF Base, CallInv
<1>12. ASSUME NEW u \in DOMAIN unmaps, RunUnmap(u) \/ EndUnmap(u) PROVE Base'
  <2>1. /\ \E s \in {"running", "complete", "failed"} : SetsUnmap(u, s)
        /\ MapsType' /\ DataType'
        /\ UNCHANGED <<maps, outstanding, call, held, released>>
    BY <1>12, RunUnmapIs, EndUnmapIs DEF object
  <2>2. SameMaps /\ SameUnmaps
    BY <2>1 DEF SetsUnmap, SameMaps
  <2> QED  BY <2>1, <2>2, RegistryQuiet, CallQuiet DEF Base, CallInv
<1> QED
  BY <1>1, <1>2, <1>3, <1>4, <1>5, <1>6, <1>7, <1>8, <1>9, <1>10, <1>11, <1>12 DEF Next

-----------------------------------------------------------------------------
(* References to the object                                                *)

(* Those who have one: the application, the maps and the unmaps that have  *)
(* not ended, and maps that were queued and failed.                        *)
Holders(leaked) ==
  {<<"object", n>> : n \in IF released THEN {} ELSE {0}}
    \cup {<<"map", i>> : i \in {j \in DOMAIN maps : ~Ended(maps[j]) \/ j \in leaked}}
    \cup {<<"unmap", u>> : u \in {v \in DOMAIN unmaps : ~Ended(unmaps[v])}}

HoldersAre(S) == IsFiniteSet(S) /\ refs = Cardinality(S) /\ alive = (refs > 0)

HolderInv ==
  \E leaked \in SUBSET {i \in DOMAIN maps : maps[i].state = "failed"} : HoldersAre(Holders(leaked))

LEMMA HolderCame ==
  ASSUME NEW S, NEW h, h \notin S, S # {}, HoldersAre(S), refs' = refs + 1, alive' = alive
  PROVE  HoldersAre(S \cup {h})'
<1>1. IsFiniteSet(S) /\ refs = Cardinality(S) /\ alive = (refs > 0) /\ Cardinality(S) \in Nat
  BY FS_CardinalityType DEF HoldersAre
<1>2. Cardinality(S) # 0
  BY <1>1, FS_EmptySet
<1>3. IsFiniteSet(S \cup {h}) /\ Cardinality(S \cup {h}) = Cardinality(S) + 1
  BY <1>1, FS_AddElement
<1> QED  BY <1>1, <1>2, <1>3 DEF HoldersAre

LEMMA HolderWent ==
  ASSUME NEW S, NEW h \in S, HoldersAre(S), refs' = refs - 1, alive' = (refs > 1)
  PROVE  HoldersAre(S \ {h})'
<1>1. IsFiniteSet(S) /\ refs = Cardinality(S) /\ Cardinality(S) \in Nat
  BY FS_CardinalityType DEF HoldersAre
<1>2. IsFiniteSet(S \ {h}) /\ Cardinality(S \ {h}) = Cardinality(S) - 1
  BY <1>1, FS_RemoveElement
<1> QED  BY <1>1, <1>2 DEF HoldersAre

LEMMA HolderIs ==
  ASSUME NEW leaked, NEW x
  PROVE  x \in Holders(leaked) <=>
           \/ x = <<"object", 0>> /\ ~released
           \/ \E i \in DOMAIN maps : x = <<"map", i>> /\ (~Ended(maps[i]) \/ i \in leaked)
           \/ \E u \in DOMAIN unmaps : x = <<"unmap", u>> /\ ~Ended(unmaps[u])
BY DEF Holders

LEMMA HoldersKept ==
  ASSUME NEW leaked, NEW also, HoldersAre(Holders(leaked)), UNCHANGED <<refs, released, alive>>,
         DOMAIN maps' = DOMAIN maps, DOMAIN unmaps' = DOMAIN unmaps,
         \A i \in DOMAIN maps :
           ~Ended(maps'[i]) \/ i \in also <=> ~Ended(maps[i]) \/ i \in leaked,
         \A u \in DOMAIN unmaps : Ended(unmaps'[u]) <=> Ended(unmaps[u])
  PROVE  HoldersAre(Holders(also))'
<1>1. PICK S : S = Holders(leaked)
  OBVIOUS
<1>2. Holders(also)' = S
  BY <1>1 DEF Holders
<1> QED  BY <1>1, <1>2 DEF HoldersAre

LEMMA HolderStep ==
  ASSUME Base, HolderInv, [Next]_vars
  PROVE  HolderInv'
<1>1. PICK leaked : /\ leaked \subseteq {i \in DOMAIN maps : maps[i].state = "failed"}
                    /\ HoldersAre(Holders(leaked))
  BY DEF HolderInv
<1>2. PICK S : S = Holders(leaked)
  OBVIOUS
<1>3. HoldersAre(S)
  BY <1>1, <1>2
<1>4. \A x : x \in S <=>
           \/ x = <<"object", 0>> /\ ~released
           \/ \E i \in DOMAIN maps : x = <<"map", i>> /\ (~Ended(maps[i]) \/ i \in leaked)
           \/ \E u \in DOMAIN unmaps : x = <<"unmap", u>> /\ ~Ended(unmaps[u])
  BY <1>2, HolderIs
<1>5. \A i \in leaked : i \in DOMAIN maps /\ maps[i].state = "failed"
  BY <1>1
<1>6. ~released => S # {}
  BY <1>4
<1>7. CASE UNCHANGED <<object, maps, unmaps>>
  BY <1>1, <1>7 DEF HolderInv, HoldersAre, Holders, object
<1>8. ASSUME NEW t \in Threads, BeginMap(t) PROVE HolderInv'
  <2>1. PICK n, region, flags :
          /\ MapAdded(n, region, flags) /\ UNCHANGED <<unmaps, released, alive>>
          /\ refs' = refs + 1 /\ ~released
    BY <1>8, BeginMapIs
  <2>2. /\ n \notin DOMAIN maps /\ DOMAIN maps' = DOMAIN maps \cup {n}
        /\ \A i \in DOMAIN maps : maps'[i] = maps[i]
        /\ maps'[n].state = "made"
    BY <2>1 DEF MapAdded
  <2>3. Holders(leaked)' = S \cup {<<"map", n>>} /\ <<"map", n>> \notin S
    <3>1. \A x : x \in Holders(leaked)' <=> x \in S \cup {<<"map", n>>}
      <4> SUFFICES ASSUME NEW x PROVE x \in Holders(leaked)' <=> x \in S \cup {<<"map", n>>}
        OBVIOUS
      <4>1. x \in Holders(leaked)' <=>
              \/ x = <<"object", 0>> /\ ~released'
              \/ \E i \in DOMAIN maps' : x = <<"map", i>> /\ (~Ended(maps'[i]) \/ i \in leaked)
              \/ \E u \in DOMAIN unmaps' : x = <<"unmap", u>> /\ ~Ended(unmaps'[u])
        BY DEF Holders
      <4> QED  BY <1>4, <2>1, <2>2, <4>1 DEF Ended
    <3> QED  BY <1>4, <2>2, <3>1
  <2>4. HoldersAre(S \cup {<<"map", n>>})'
    BY <1>3, <1>6, <2>1, <2>3, HolderCame
  <2>5. \A i \in leaked : i \in DOMAIN maps' /\ maps'[i].state = "failed"
    BY <1>5, <2>2
  <2> QED  BY <2>3, <2>4, <2>5 DEF HolderInv, HoldersAre
<1>9. ASSUME NEW t \in Threads, FinishMap(t) PROVE HolderInv'
  <2>1. PICK i \in DOMAIN maps : /\ SetsState(i, "queued") /\ maps[i].state = "made"
                                 /\ UNCHANGED <<object, unmaps>>
    BY <1>9, FinishMapIs
  <2>2. HoldersAre(Holders(leaked))'
    BY <1>1, <2>1, HoldersKept DEF SetsState, SameMaps, Ended, object
  <2>3. \A j \in leaked : j \in DOMAIN maps' /\ maps'[j].state = "failed"
    BY <1>5, <2>1 DEF SetsState, SameMaps
  <2> QED  BY <2>2, <2>3 DEF HolderInv
(* The map that ended gives its reference back.                            *)
<1>10. ASSUME NEW i \in DOMAIN maps, NEW state \in {"complete", "failed"}, SetsState(i, state),
              ~Ended(maps[i]), UNCHANGED <<unmaps, released>>, refs' = refs - 1, alive' = (refs > 1)
       PROVE  HolderInv'
  <2>1. Holders(leaked)' = S \ {<<"map", i>>} /\ <<"map", i>> \in S
    <3>1. i \notin leaked
      BY <1>5, <1>10 DEF Ended
    <3>2. \A x : x \in Holders(leaked)' <=> x \in S \ {<<"map", i>>}
      <4> SUFFICES ASSUME NEW x PROVE x \in Holders(leaked)' <=> x \in S \ {<<"map", i>>}
        OBVIOUS
      <4>1. x \in Holders(leaked)' <=>
              \/ x = <<"object", 0>> /\ ~released'
              \/ \E j \in DOMAIN maps' : x = <<"map", j>> /\ (~Ended(maps'[j]) \/ j \in leaked)
              \/ \E u \in DOMAIN unmaps' : x = <<"unmap", u>> /\ ~Ended(unmaps'[u])
        BY DEF Holders
      <4> QED  BY <1>4, <1>10, <3>1, <4>1 DEF Ended, SetsState, SameMaps
    <3> QED  BY <1>4, <1>10, <3>2
  <2>2. HoldersAre(S \ {<<"map", i>>})'
    BY <1>3, <1>10, <2>1, HolderWent
  <2>3. \A j \in leaked : j \in DOMAIN maps' /\ maps'[j].state = "failed"
    BY <1>5, <1>10 DEF SetsState, SameMaps, Ended
  <2> QED  BY <2>1, <2>2, <2>3 DEF HolderInv, HoldersAre
<1>11. ASSUME NEW t \in Threads, ThrowFromMap(t) PROVE HolderInv'
  <2>1. PICK i \in DOMAIN maps :
          /\ SetsState(i, "failed") /\ maps[i].state = "made" /\ UNCHANGED <<unmaps, released>>
          /\ refs' = refs - 1 /\ alive' = (refs > 1)
    BY <1>11, ThrowFromMapIs
  <2> QED  BY <1>10, <2>1 DEF Ended
<1>12. ASSUME NEW i \in DOMAIN maps, CompleteMap(i) PROVE HolderInv'
  BY <1>10, <1>12, CompleteMapIs DEF Ended
<1>13. ASSUME NEW t \in Threads, FinishUnmap(t) PROVE HolderInv'
  <2>1. PICK u :
          /\ u \notin DOMAIN unmaps /\ DOMAIN unmaps' = DOMAIN unmaps \cup {u}
          /\ \A v \in DOMAIN unmaps : unmaps'[v] = unmaps[v]
          /\ unmaps'[u] = [map |-> call[t].task, given |-> call[t].given, state |-> "queued"]
          /\ refs' = refs + 1 /\ ~released /\ UNCHANGED <<maps, released, alive>>
    BY <1>13, FinishUnmapIs
  <2>2. unmaps'[u].state = "queued"
    BY <2>1
  <2>3. Holders(leaked)' = S \cup {<<"unmap", u>>} /\ <<"unmap", u>> \notin S
    <3>1. \A x : x \in Holders(leaked)' <=> x \in S \cup {<<"unmap", u>>}
      <4> SUFFICES ASSUME NEW x PROVE x \in Holders(leaked)' <=> x \in S \cup {<<"unmap", u>>}
        OBVIOUS
      <4>1. x \in Holders(leaked)' <=>
              \/ x = <<"object", 0>> /\ ~released'
              \/ \E i \in DOMAIN maps' : x = <<"map", i>> /\ (~Ended(maps'[i]) \/ i \in leaked)
              \/ \E v \in DOMAIN unmaps' : x = <<"unmap", v>> /\ ~Ended(unmaps'[v])
        BY DEF Holders
      <4> QED  BY <1>4, <2>1, <2>2, <4>1 DEF Ended
    <3> QED  BY <1>4, <2>1, <3>1
  <2>4. HoldersAre(S \cup {<<"unmap", u>>})'
    BY <1>3, <1>6, <2>1, <2>3, HolderCame
  <2>5. \A i \in leaked : i \in DOMAIN maps' /\ maps'[i].state = "failed"
    BY <1>5, <2>1
  <2> QED  BY <2>3, <2>4, <2>5 DEF HolderInv, HoldersAre
<1>14. CASE clReleaseMemObject
  <2>1. /\ ~released /\ released' = TRUE /\ refs' = refs - 1 /\ alive' = (refs > 1)
        /\ UNCHANGED <<maps, unmaps>>
    BY <1>14, ReleaseIs
  <2>2. Holders(leaked)' = S \ {<<"object", 0>>} /\ <<"object", 0>> \in S
    <3>1. \A x : x \in Holders(leaked)' <=> x \in S \ {<<"object", 0>>}
      <4> SUFFICES ASSUME NEW x PROVE x \in Holders(leaked)' <=> x \in S \ {<<"object", 0>>}
        OBVIOUS
      <4>1. x \in Holders(leaked)' <=>
              \/ x = <<"object", 0>> /\ ~released'
              \/ \E j \in DOMAIN maps' : x = <<"map", j>> /\ (~Ended(maps'[j]) \/ j \in leaked)
              \/ \E u \in DOMAIN unmaps' : x = <<"unmap", u>> /\ ~Ended(unmaps'[u])
        BY DEF Holders
      <4> QED  BY <1>4, <2>1, <4>1
    <3> QED  BY <1>4, <2>1, <3>1
  <2>3. HoldersAre(S \ {<<"object", 0>>})'
    BY <1>3, <2>1, <2>2, HolderWent
  <2> QED  BY <1>5, <2>1, <2>2, <2>3 DEF HolderInv, HoldersAre
<1>15. ASSUME NEW i \in DOMAIN maps, RunMap(i) PROVE HolderInv'
  <2>1. SetsState(i, "running") /\ maps[i].state = "queued" /\ UNCHANGED <<object, unmaps>>
    BY <1>15, RunMapIs
  <2>2. HoldersAre(Holders(leaked))'
    BY <1>1, <2>1, HoldersKept DEF SetsState, SameMaps, Ended, object
  <2>3. \A j \in leaked : j \in DOMAIN maps' /\ maps'[j].state = "failed"
    BY <1>5, <2>1 DEF SetsState, SameMaps
  <2> QED  BY <2>2, <2>3 DEF HolderInv
<1>16. ASSUME NEW i \in DOMAIN maps, FailMap(i) PROVE HolderInv'
  <2>1. SetsState(i, "failed") /\ maps[i].state = "queued" /\ UNCHANGED <<object, unmaps>>
    BY <1>16, FailMapIs
  <2>2. PICK also : also = leaked \cup {i}
    OBVIOUS
  <2>3. HoldersAre(Holders(also))'
    BY <1>1, <2>1, <2>2, HoldersKept DEF SetsState, SameMaps, Ended, object
  <2>4. \A j \in also : j \in DOMAIN maps' /\ maps'[j].state = "failed"
    BY <1>5, <2>1, <2>2 DEF SetsState, SameMaps
  <2> QED  BY <2>3, <2>4 DEF HolderInv
<1>17. ASSUME NEW u \in DOMAIN unmaps, RunUnmap(u) PROVE HolderInv'
  <2>1. SetsUnmap(u, "running") /\ unmaps[u].state = "queued" /\ UNCHANGED <<object, maps>>
    BY <1>17, RunUnmapIs
  <2>2. HoldersAre(Holders(leaked))'
    BY <1>1, <2>1, HoldersKept DEF SetsUnmap, SameUnmaps, Ended, object
  <2> QED  BY <1>5, <2>1, <2>2 DEF HolderInv
<1>18. ASSUME NEW u \in DOMAIN unmaps, EndUnmap(u) PROVE HolderInv'
  <2>1. PICK state \in {"complete", "failed"} :
          /\ SetsUnmap(u, state) /\ ~Ended(unmaps[u])
          /\ refs' = refs - 1 /\ alive' = (refs > 1) /\ UNCHANGED <<maps, released>>
    BY <1>18, EndUnmapIs DEF Ended
  <2>2. Holders(leaked)' = S \ {<<"unmap", u>>} /\ <<"unmap", u>> \in S
    <3>1. \A x : x \in Holders(leaked)' <=> x \in S \ {<<"unmap", u>>}
      <4> SUFFICES ASSUME NEW x PROVE x \in Holders(leaked)' <=> x \in S \ {<<"unmap", u>>}
        OBVIOUS
      <4>1. x \in Holders(leaked)' <=>
              \/ x = <<"object", 0>> /\ ~released'
              \/ \E j \in DOMAIN maps' : x = <<"map", j>> /\ (~Ended(maps'[j]) \/ j \in leaked)
              \/ \E v \in DOMAIN unmaps' : x = <<"unmap", v>> /\ ~Ended(unmaps'[v])
        BY DEF Holders
      <4> QED  BY <1>4, <2>1, <4>1 DEF Ended, SetsUnmap, SameUnmaps
    <3> QED  BY <1>4, <2>1, <3>1
  <2>3. HoldersAre(S \ {<<"unmap", u>>})'
    BY <1>3, <2>1, <2>2, HolderWent
  <2> QED  BY <1>5, <2>1, <2>2, <2>3 DEF HolderInv, HoldersAre
<1>19. ASSUME NEW t \in Threads, BeginUnmap(t) \/ ThrowFromUnmap(t) PROVE HolderInv'
  BY <1>7, <1>19 DEF BeginUnmap, ThrowFromUnmap
<1>20. ASSUME HostWrite \/ DeviceWrite \/ UNCHANGED vars PROVE HolderInv'
  BY <1>7, <1>20 DEF HostWrite, DeviceWrite, vars
<1> QED
  BY <1>8, <1>9, <1>11, <1>12, <1>13, <1>14, <1>15, <1>16, <1>17, <1>18, <1>19, <1>20 DEF Next

LEMMA BaseInit ==
  ASSUME Init
  PROVE  Base /\ HolderInv
<1>1. MapsType
  BY DEF Init, MapsType, CallRecord
<1>2. DataType
  BY DEF Init, DataType, Contents
<1>3. RegistryInv
  BY DEF Init, RegistryInv
<1>4. CallInv
  BY DEF Init, CallInv, MappingsInv, PointersInv, Mapping, Unmapping, Idle
<1>5. HolderInv
  <2>1. Holders({}) = {<<"object", 0>>}
    BY DEF Init, Holders
  <2>2. IsFiniteSet(Holders({})) /\ Cardinality(Holders({})) = 1
    BY <2>1, FS_Singleton
  <2>3. refs = 1 /\ alive
    BY DEF Init
  <2>4. alive = (refs > 0)
    BY <2>3, 1 > 0 DEF Init
  <2>5. HoldersAre(Holders({}))
    BY <2>2, <2>3, <2>4 DEF HoldersAre
  <2> QED  BY <2>5 DEF HolderInv
<1> QED  BY <1>1, <1>2, <1>3, <1>4, <1>5 DEF Base

(* The object lives exactly as long as somebody refers to it.              *)
LEMMA HoldersKeepAlive ==
  ASSUME HolderInv
  PROVE  AliveWhileUsed
<1>1. PICK leaked : /\ leaked \subseteq {i \in DOMAIN maps : maps[i].state = "failed"}
                    /\ HoldersAre(Holders(leaked))
  BY DEF HolderInv
<1>2. /\ IsFiniteSet(Holders(leaked)) /\ Cardinality(Holders(leaked)) \in Nat
      /\ alive = (Cardinality(Holders(leaked)) > 0)
  BY <1>1, FS_CardinalityType DEF HoldersAre
<1>3. alive <=> Holders(leaked) # {}
  <2>1. Cardinality(Holders(leaked)) > 0 <=> Holders(leaked) # {}
    BY <1>2, FS_EmptySet
  <2> QED  BY <1>2, <2>1
<1>4. ~released \/ Pending => Holders(leaked) # {}
  BY HolderIs DEF Pending
<1>5. released /\ ~Pending /\ Holders(leaked) # {} => leaked # {}
  BY HolderIs DEF Pending
<1> QED  BY <1>1, <1>3, <1>4, <1>5 DEF AliveWhileUsed

(* A reference is dropped neither too early nor too often, and none but    *)
(* that of a map command that was queued and failed is left: ~MapTask,     *)
(* OnComplete and the exceptions of clEnqueueMapBuffer together, for any   *)
(* threads, maps and regions.                                              *)
THEOREM MappedStaysAlive == Spec => []AliveWhileUsed
<1>1. Init => Base /\ HolderInv
  BY BaseInit
<1>2. Base /\ HolderInv /\ [Next]_vars => (Base /\ HolderInv)'
  BY BaseStep, HolderStep
<1>3. Base /\ HolderInv => AliveWhileUsed
  BY HoldersKeepAlive
<1> QED  BY <1>1, <1>2, <1>3, PTL DEF Spec

-----------------------------------------------------------------------------
(* Without a race each map is found once                                   *)

TaskInv ==
  /\ \A t \in Threads : call[t] # Idle => call[t].task \in Registered
  /\ \A t, u \in Threads : call[t] # Idle /\ call[u] # Idle /\ call[t].task = call[u].task => t = u
  /\ \A u \in DOMAIN unmaps : unmaps[u].map \notin Registered
  /\ \A u, v \in DOMAIN unmaps : unmaps[u].map = unmaps[v].map => u = v

(* The maps that the application has the pointer of, gives back or is      *)
(* about to get the pointer of.                                            *)
Tokens ==
  {i \in DOMAIN maps :
     \/ i \in held
     \/ \E t \in Threads : Unmapping(t) /\ call[t].given = i
     \/ \E t \in Threads : Mapping(t) /\ call[t].task = i}

RegisteredAt(p) == {i \in Registered : maps[i].ptr = p}
TokensAt(p) == {i \in Tokens : maps[i].ptr = p}

SameSize(S, T) == IsFiniteSet(S) /\ IsFiniteSet(T) /\ Cardinality(S) = Cardinality(T)

(* As many maps are registered under a pointer as may be given back.       *)
CountInv == \A p : SameSize(RegisteredAt(p), TokensAt(p))

(* The maps whose pointer the application was handed.                      *)
Handed ==
  {i \in DOMAIN maps :
     \/ i \in held
     \/ \E t \in Threads : Unmapping(t) /\ call[t].given = i
     \/ \E u \in DOMAIN unmaps : unmaps[u].given = i}

Unmapped(i) == \E u \in DOMAIN unmaps : unmaps[u].map = i

HandedInv == \A i \in Handed : i \in Registered \/ Unmapped(i)

Ran(unmap) == unmap.state \in {"running", "complete"}

UndoneInv ==
  /\ \A i \in Registered : alive => undone[i] = 0
  /\ \A i \in DOMAIN maps : undone[i] \in {0, 1}
  /\ \A u \in DOMAIN unmaps : undone[unmaps[u].map] = IF Ran(unmaps[u]) THEN 1 ELSE 0

LEMMA SizesKept ==
  ASSUME NEW S, NEW T, SameSize(S, T), NEW x \in S, NEW y \in T
  PROVE  SameSize(S \ {x}, T \ {y})
<1>1. IsFiniteSet(S) /\ IsFiniteSet(T) /\ Cardinality(S) = Cardinality(T)
  BY DEF SameSize
<1>2. IsFiniteSet(S \ {x}) /\ Cardinality(S \ {x}) = Cardinality(S) - 1
  BY <1>1, FS_RemoveElement
<1>3. IsFiniteSet(T \ {y}) /\ Cardinality(T \ {y}) = Cardinality(T) - 1
  BY <1>1, FS_RemoveElement
<1> QED  BY <1>1, <1>2, <1>3 DEF SameSize

LEMMA SizesGrow ==
  ASSUME NEW S, NEW T, SameSize(S, T), NEW x, x \notin S, x \notin T
  PROVE  SameSize(S \cup {x}, T \cup {x})
BY FS_AddElement DEF SameSize

LEMMA RegisteredMaps ==
  ASSUME RegistryInv
  PROVE  Registered \subseteq DOMAIN maps
BY RegisteredIs

LEMMA AliveIs ==
  ASSUME HolderInv
  PROVE  refs \in Nat /\ (alive <=> refs > 0) /\ (~released => alive)
<1>1. PICK leaked : HoldersAre(Holders(leaked))
  BY DEF HolderInv
<1>2. refs \in Nat /\ alive = (refs > 0)
  BY <1>1, FS_CardinalityType DEF HoldersAre
<1>3. ~released => alive
  BY HoldersKeepAlive DEF AliveWhileUsed
<1> QED  BY <1>2, <1>3

LEMMA TaskQuiet ==
  ASSUME TaskInv, Registered' = Registered, SameUnmaps,
         \A t \in Threads : call'[t] = call[t] \/ call'[t] = Idle
  PROVE  TaskInv'
<1>1. \A t \in Threads : call'[t] # Idle => call[t] # Idle /\ call'[t] = call[t]
  OBVIOUS
<1>2. \A t \in Threads : call'[t] # Idle => call'[t].task \in Registered'
  BY <1>1 DEF TaskInv
<1>3. \A t, u \in Threads :
        call'[t] # Idle /\ call'[u] # Idle /\ call'[t].task = call'[u].task => t = u
  BY <1>1 DEF TaskInv
<1>4. \A u \in DOMAIN unmaps' : unmaps'[u].map \notin Registered'
  BY DEF TaskInv, SameUnmaps
<1>5. \A u, v \in DOMAIN unmaps' : unmaps'[u].map = unmaps'[v].map => u = v
  BY DEF TaskInv, SameUnmaps
<1> QED  BY <1>2, <1>3, <1>4, <1>5 DEF TaskInv

(* A call of thread t that has found a map, and no other has.              *)
LEMMA TaskGiven ==
  ASSUME TaskInv, NEW t \in Threads, NEW to, to # Idle, SetsCall(t, to), SameUnmaps,
         to.task \in Registered', Registered \subseteq Registered',
         \A u \in Threads : u # t /\ call[u] # Idle => call[u].task # to.task,
         \A u \in DOMAIN unmaps : unmaps[u].map \notin Registered'
  PROVE  TaskInv'
<1>1. \A u \in Threads : call'[u] = IF u = t THEN to ELSE call[u]
  BY DEF SetsCall
<1>2. \A u \in Threads : call'[u] # Idle => call'[u].task \in Registered'
  BY <1>1 DEF TaskInv
<1>3. \A v, u \in Threads :
        call'[v] # Idle /\ call'[u] # Idle /\ call'[v].task = call'[u].task => v = u
  BY <1>1 DEF TaskInv
<1>4. \A u \in DOMAIN unmaps' : unmaps'[u].map \notin Registered'
  BY DEF SameUnmaps
<1>5. \A u, v \in DOMAIN unmaps' : unmaps'[u].map = unmaps'[v].map => u = v
  BY DEF TaskInv, SameUnmaps
<1> QED  BY <1>2, <1>3, <1>4, <1>5 DEF TaskInv

LEMMA BeginMapTasks ==
  ASSUME Base, TaskInv, NEW t \in Threads, BeginMap(t)
  PROVE  TaskInv'
<1>1. PICK n, region, flags :
        /\ MapAdded(n, region, flags) /\ SetsCall(t, [at |-> "mapping", task |-> n])
        /\ Registered' = Registered \cup {n} /\ UNCHANGED unmaps
  BY BeginMapIs
<1>2. n \notin DOMAIN maps /\ Registered \subseteq DOMAIN maps
  BY <1>1, RegisteredMaps DEF MapAdded, Base
<1>3. [at |-> "mapping", task |-> n] # Idle
  BY DEF Idle
<1>4. \A u \in Threads : u # t /\ call[u] # Idle => call[u].task # n
  BY <1>2 DEF TaskInv
<1>5. \A u \in DOMAIN unmaps : unmaps[u].map \notin Registered'
  BY <1>1, <1>2 DEF TaskInv, Base, CallInv, PointersInv, Match
<1>6. SameUnmaps
  BY <1>1 DEF SameUnmaps
<1> QED  BY <1>1, <1>3, <1>4, <1>5, <1>6, TaskGiven

LEMMA BeginUnmapTasks ==
  ASSUME Base, TaskInv, NEW t \in Threads, BeginUnmap(t), raced = {}, raced' = {}
  PROVE  TaskInv'
<1>1. PICK i, found :
        /\ i \in held /\ found \in Registered
        /\ SetsCall(t, [at |-> "unmapping", task |-> found, given |-> i])
        /\ raced' = IF \E u \in Threads : call[u] # Idle /\ call[u].task = found
                      THEN raced \cup {found} ELSE raced
        /\ UNCHANGED <<maps, unmaps, outstanding>>
  BY BeginUnmapIs
<1>2. PICK to : to = [at |-> "unmapping", task |-> found, given |-> i]
  OBVIOUS
<1>3. to # Idle /\ to.task = found
  BY <1>2 DEF Idle
<1>4. \A u \in Threads : call[u] # Idle => call[u].task # found
  BY <1>1
<1>5. Registered' = Registered /\ SameUnmaps
  BY <1>1 DEF Registered, SameUnmaps
<1>6. \A u \in DOMAIN unmaps : unmaps[u].map \notin Registered'
  BY <1>5 DEF TaskInv
<1> QED  BY <1>1, <1>2, <1>3, <1>4, <1>5, <1>6, TaskGiven

LEMMA ThrowFromMapTasks ==
  ASSUME Base, TaskInv, NEW t \in Threads, ThrowFromMap(t)
  PROVE  TaskInv'
<1>1. PICK i \in DOMAIN maps :
        /\ Mapping(t) /\ call[t].task = i /\ SetsCall(t, Idle)
        /\ Registered' = Registered \ {i} /\ UNCHANGED unmaps
  BY ThrowFromMapIs
<1>2. call[t] # Idle
  BY <1>1, CallIs DEF Base
<1>3. \A u \in Threads : call'[u] # Idle => u # t /\ call'[u] = call[u]
  BY <1>1 DEF SetsCall
<1> QED  BY <1>1, <1>2, <1>3 DEF TaskInv

LEMMA FinishUnmapTasks ==
  ASSUME Base, TaskInv, NEW t \in Threads, FinishUnmap(t)
  PROVE  TaskInv'
<1>1. PICK found : found = call[t].task
  OBVIOUS
<1>2. PICK u :
        /\ u \notin DOMAIN unmaps /\ DOMAIN unmaps' = DOMAIN unmaps \cup {u}
        /\ \A v \in DOMAIN unmaps : unmaps'[v] = unmaps[v]
        /\ unmaps'[u] = [map |-> found, given |-> call[t].given, state |-> "queued"]
        /\ Unmapping(t) /\ SetsCall(t, Idle) /\ Registered' = Registered \ {found}
  BY <1>1, FinishUnmapIs
<1>3. call[t] # Idle /\ found \in Registered
  BY <1>1, <1>2, CallIs DEF Base, TaskInv
<1>4. \A v \in Threads : call'[v] # Idle => v # t /\ call'[v] = call[v]
  BY <1>2 DEF SetsCall
<1>5. unmaps'[u].map = found
  BY <1>2
<1>6. \A v \in DOMAIN unmaps : unmaps[v].map # found /\ unmaps[v].map \notin Registered
  BY <1>3 DEF TaskInv
<1>7. \A v \in DOMAIN unmaps' : unmaps'[v].map \notin Registered'
  BY <1>2, <1>5, <1>6
<1>8. \A v, w \in DOMAIN unmaps' : unmaps'[v].map = unmaps'[w].map => v = w
  BY <1>2, <1>5, <1>6 DEF TaskInv
<1>9. \A v \in Threads : call'[v] # Idle => call'[v].task \in Registered'
  BY <1>1, <1>2, <1>3, <1>4 DEF TaskInv
<1>10. \A v, w \in Threads :
         call'[v] # Idle /\ call'[w] # Idle /\ call'[v].task = call'[w].task => v = w
  BY <1>4 DEF TaskInv
<1> QED  BY <1>7, <1>8, <1>9, <1>10 DEF TaskInv

(* Steps of the commands, of the host and of the device, and the release.  *)
Calm ==
  /\ SameMaps /\ SameUnmaps /\ UNCHANGED <<outstanding, call, held, raced>>
  /\ \A i \in DOMAIN maps : maps'[i].state = "made" <=> maps[i].state = "made"

Commands ==
  \/ HostWrite \/ DeviceWrite \/ clReleaseMemObject \/ UNCHANGED vars
  \/ \E i \in DOMAIN maps : RunMap(i) \/ CompleteMap(i) \/ FailMap(i)
  \/ \E u \in DOMAIN unmaps : RunUnmap(u) \/ EndUnmap(u)

LEMMA CommandsAreCalm ==
  ASSUME Base, Commands
  PROVE  Calm
<1>1. CASE HostWrite \/ DeviceWrite \/ clReleaseMemObject \/ UNCHANGED vars
  <2>1. UNCHANGED <<maps, unmaps, outstanding, call, held, raced>>
    BY <1>1 DEF HostWrite, DeviceWrite, clReleaseMemObject, vars
  <2> QED  BY <2>1 DEF Calm, SameMaps, SameUnmaps
<1>2. ASSUME NEW i \in DOMAIN maps, RunMap(i) \/ CompleteMap(i) \/ FailMap(i) PROVE Calm
  <2>1. /\ \E s \in {"running", "complete", "failed"} : SetsState(i, s)
        /\ maps[i].state # "made"
        /\ UNCHANGED <<unmaps, outstanding, call, held, raced>>
    BY <1>2, RunMapIs, CompleteMapIs, FailMapIs
  <2> QED  BY <2>1 DEF Calm, SetsState, SameUnmaps
<1>3. ASSUME NEW u \in DOMAIN unmaps, RunUnmap(u) \/ EndUnmap(u) PROVE Calm
  <2>1. /\ \E s \in {"running", "complete", "failed"} : SetsUnmap(u, s)
        /\ UNCHANGED <<maps, outstanding, call, held, raced>>
    BY <1>3, RunUnmapIs, EndUnmapIs
  <2> QED  BY <2>1 DEF Calm, SetsUnmap, SameMaps
<1> QED  BY <1>1, <1>2, <1>3 DEF Commands

Calls ==
  \E t \in Threads :
    \/ BeginMap(t) \/ FinishMap(t) \/ ThrowFromMap(t)
    \/ BeginUnmap(t) \/ FinishUnmap(t) \/ ThrowFromUnmap(t)

LEMMA CallsOrCommands ==
  ASSUME [Next]_vars
  PROVE  Calls \/ Commands
BY DEF Next, Calls, Commands

LEMMA RacedStays ==
  ASSUME Base, [Next]_vars, raced' = {}
  PROVE  raced = {}
<1>1. CASE Commands
  BY <1>1, CommandsAreCalm DEF Calm
<1>2. CASE Calls
  BY <1>2 DEF Calls, BeginMap, FinishMap, ThrowFromMap, BeginUnmap, FinishUnmap, ThrowFromUnmap
<1> QED  BY <1>1, <1>2, CallsOrCommands

LEMMA TaskStep ==
  ASSUME Base, TaskInv, [Next]_vars, raced = {}, raced' = {}
  PROVE  TaskInv'
<1>1. CASE Commands
  <2>1. Calm
    BY <1>1, CommandsAreCalm
  <2>2. Registered' = Registered
    BY <2>1, RegistryQuiet DEF Base, Calm
  <2> QED  BY <2>1, <2>2, TaskQuiet DEF Calm
<1>2. ASSUME NEW t \in Threads, FinishMap(t) \/ ThrowFromUnmap(t) PROVE TaskInv'
  <2>1. SetsCall(t, Idle) /\ UNCHANGED <<outstanding, unmaps>>
    BY <1>2, FinishMapIs, ThrowFromUnmapIs
  <2>2. Registered' = Registered /\ SameUnmaps
    BY <2>1 DEF Registered, SameUnmaps
  <2> QED  BY <2>1, <2>2, TaskQuiet DEF SetsCall
<1> QED
  BY <1>1, <1>2, CallsOrCommands, BeginMapTasks, BeginUnmapTasks, ThrowFromMapTasks,
     FinishUnmapTasks DEF Calls

(* Tokens come and go like registered maps do.                             *)
LEMMA BeginMapTokens ==
  ASSUME Base, NEW t \in Threads, BeginMap(t)
  PROVE  \E n : /\ n \notin DOMAIN maps /\ DOMAIN maps' = DOMAIN maps \cup {n}
                /\ \A i \in DOMAIN maps : maps'[i] = maps[i]
                /\ Tokens' = Tokens \cup {n} /\ Registered' = Registered \cup {n}
<1>1. PICK n : \E region \in Regions, flags \in {"R", "W"} :
        /\ MapAdded(n, region, flags) /\ call[t] = Idle
        /\ SetsCall(t, [at |-> "mapping", task |-> n])
        /\ Registered' = Registered \cup {n} /\ UNCHANGED held
  BY BeginMapIs
<1>2. /\ n \notin DOMAIN maps /\ DOMAIN maps' = DOMAIN maps \cup {n}
      /\ \A i \in DOMAIN maps : maps'[i] = maps[i]
  BY <1>1 DEF MapAdded
<1>3. ~Mapping(t) /\ ~Unmapping(t)
  BY <1>1, CallIs DEF Base
<1>4. ASSUME NEW u \in Threads
      PROVE  /\ Unmapping(u)' <=> Unmapping(u)
             /\ Mapping(u)' <=> u = t \/ Mapping(u)
             /\ u # t => call'[u] = call[u]
             /\ u = t => call'[u].task = n
  <2>1. CASE u = t
    BY <1>1, <1>3, <2>1 DEF SetsCall, Mapping, Unmapping
  <2>2. CASE u # t
    BY <1>1, <2>2 DEF SetsCall, Mapping, Unmapping
  <2> QED  BY <2>1, <2>2
<1>5. held' = held /\ held \subseteq DOMAIN maps
  BY <1>1 DEF Base, CallInv, PointersInv
<1>6. \A u \in Threads : Unmapping(u) => call[u].given \in DOMAIN maps
  BY DEF Base, CallInv, PointersInv, Match
<1>7. \A u \in Threads : Mapping(u) => call[u].task \in DOMAIN maps
  BY DEF Base, CallInv, MappingsInv
<1>8. ASSUME NEW i PROVE i \in Tokens' <=> i \in Tokens \cup {n}
  <2>1. i \in Tokens' <=>
          /\ i \in DOMAIN maps'
          /\ \/ i \in held'
             \/ \E u \in Threads : Unmapping(u)' /\ call'[u].given = i
             \/ \E u \in Threads : Mapping(u)' /\ call'[u].task = i
    BY DEF Tokens
  <2>2. i \in Tokens <=>
          /\ i \in DOMAIN maps
          /\ \/ i \in held
             \/ \E u \in Threads : Unmapping(u) /\ call[u].given = i
             \/ \E u \in Threads : Mapping(u) /\ call[u].task = i
    BY DEF Tokens
  <2>3. (\E u \in Threads : Unmapping(u)' /\ call'[u].given = i)
          <=> \E u \in Threads : Unmapping(u) /\ call[u].given = i
    BY <1>3, <1>4
  <2>4. (\E u \in Threads : Mapping(u)' /\ call'[u].task = i)
          <=> i = n \/ \E u \in Threads : Mapping(u) /\ call[u].task = i
    BY <1>3, <1>4
  <2> QED  BY <1>2, <1>5, <1>6, <1>7, <2>1, <2>2, <2>3, <2>4
<1> QED  BY <1>1, <1>2, <1>8

(* Others move a token.                                                    *)
LEMMA TokensMove ==
  ASSUME Base, NEW t \in Threads, FinishMap(t) \/ BeginUnmap(t) \/ ThrowFromUnmap(t)
  PROVE  SameMaps /\ Tokens' = Tokens /\ Registered' = Registered
<1>1. CASE FinishMap(t)
  <2>1. PICK i \in DOMAIN maps :
          /\ Mapping(t) /\ call[t].task = i /\ SetsState(i, "queued") /\ SetsCall(t, Idle)
          /\ held' = held \cup {i} /\ UNCHANGED outstanding
    BY <1>1, FinishMapIs
  <2>2. ~Unmapping(t) /\ DOMAIN maps' = DOMAIN maps
    BY <2>1, CallIs DEF Base, SetsState, SameMaps
  <2>3. \A j : j \in Tokens' <=> j \in Tokens
    BY <2>1, <2>2, Returned DEF Tokens
  <2> QED  BY <2>1, <2>3 DEF SetsState, Registered
<1>2. CASE BeginUnmap(t)
  <2>1. PICK i \in held, found \in Registered :
          /\ SetsCall(t, [at |-> "unmapping", task |-> found, given |-> i])
          /\ call[t] = Idle /\ held' = held \ {i} /\ UNCHANGED <<maps, outstanding>>
    BY <1>2, BeginUnmapIs
  <2>2. ~Mapping(t) /\ ~Unmapping(t) /\ i \in DOMAIN maps
    BY <2>1, CallIs DEF Base, CallInv, PointersInv
  <2>3. ASSUME NEW u \in Threads
        PROVE  /\ Unmapping(u)' <=> u = t \/ Unmapping(u)
               /\ Mapping(u)' <=> Mapping(u)
               /\ u # t => call'[u] = call[u]
               /\ u = t => call'[u].given = i
    <3>1. CASE u = t
      BY <2>1, <2>2, <3>1 DEF SetsCall, Mapping, Unmapping
    <3>2. CASE u # t
      BY <2>1, <3>2 DEF SetsCall, Mapping, Unmapping
    <3> QED  BY <3>1, <3>2
  <2>4. \A j : j \in Tokens' <=> j \in Tokens
    BY <2>1, <2>2, <2>3 DEF Tokens
  <2> QED  BY <2>1, <2>4 DEF SameMaps, Registered
<1>3. CASE ThrowFromUnmap(t)
  <2>1. PICK given \in DOMAIN maps :
          /\ Unmapping(t) /\ given = call[t].given /\ held' = held \cup {given}
          /\ SetsCall(t, Idle) /\ UNCHANGED <<maps, outstanding>>
    BY <1>3, ThrowFromUnmapIs
  <2>2. ~Mapping(t)
    BY <2>1, CallIs DEF Base
  <2>3. \A j : j \in Tokens' <=> j \in Tokens
    BY <2>1, <2>2, Returned DEF Tokens
  <2> QED  BY <2>1, <2>3 DEF SameMaps, Registered
<1> QED  BY <1>1, <1>2, <1>3

LEMMA ThrowFromMapTokens ==
  ASSUME Base, NEW t \in Threads, ThrowFromMap(t)
  PROVE  /\ SameMaps /\ Mapping(t) /\ call[t].task \in Tokens
         /\ Tokens' = Tokens \ {call[t].task} /\ Registered' = Registered \ {call[t].task}
<1>1. PICK i \in DOMAIN maps :
        /\ Mapping(t) /\ call[t].task = i /\ maps[i].state = "made"
        /\ SetsState(i, "failed") /\ SetsCall(t, Idle)
        /\ Registered' = Registered \ {i} /\ UNCHANGED held
  BY ThrowFromMapIs
<1>2. i \notin held /\ \A u \in Threads : Unmapping(u) => call[u].given # i
  BY <1>1 DEF Base, CallInv, PointersInv, Match
<1>3. \A u \in Threads : Mapping(u) /\ call[u].task = i => u = t
  BY <1>1 DEF Base, CallInv, MappingsInv
<1>4. ~Unmapping(t) /\ DOMAIN maps' = DOMAIN maps /\ SameMaps
  BY <1>1, CallIs DEF Base, SetsState, SameMaps
<1>5. \A j : j \in Tokens' <=> j \in Tokens /\ j # i
  BY <1>1, <1>2, <1>3, <1>4, Returned DEF Tokens
<1>6. i \in Tokens
  BY <1>1 DEF Tokens
<1> QED  BY <1>1, <1>4, <1>5, <1>6

LEMMA FinishUnmapTokens ==
  ASSUME Base, NEW t \in Threads, FinishUnmap(t)
  PROVE  /\ SameMaps /\ Unmapping(t) /\ call[t].given \in Tokens
         /\ maps[call[t].given].ptr = maps[call[t].task].ptr
         /\ Tokens' = Tokens \ {call[t].given} /\ Registered' = Registered \ {call[t].task}
<1>1. PICK i : i = call[t].given
  OBVIOUS
<1>2. /\ Unmapping(t) /\ SetsCall(t, Idle) /\ UNCHANGED <<maps, held>>
      /\ Registered' = Registered \ {call[t].task}
  BY FinishUnmapIs
<1>3. /\ i \notin held /\ Match(i, call[t].task)
      /\ \A u \in Threads : Unmapping(u) /\ call[u].given = i => u = t
  BY <1>1, <1>2 DEF Base, CallInv, PointersInv
<1>4. \A u \in Threads : Mapping(u) => call[u].task # i
  BY <1>3 DEF Base, CallInv, MappingsInv, Match
<1>5. ~Mapping(t)
  BY <1>2, CallIs DEF Base
<1>6. \A j : j \in Tokens' <=> j \in Tokens /\ j # i
  BY <1>1, <1>2, <1>3, <1>4, <1>5, Returned DEF Tokens
<1>7. i \in Tokens
  BY <1>1, <1>2, <1>3 DEF Tokens, Match
<1> QED  BY <1>1, <1>2, <1>3, <1>6, <1>7 DEF Match, SameMaps

LEMMA CalmTokens ==
  ASSUME Base, Calm
  PROVE  SameMaps /\ Tokens' = Tokens /\ Registered' = Registered
BY RegistryQuiet DEF Calm, SameMaps, Tokens, Mapping, Unmapping, Base

LEMMA TokenMaps == Tokens \subseteq DOMAIN maps
BY DEF Tokens

LEMMA CountStep ==
  ASSUME Base, TaskInv, CountInv, [Next]_vars
  PROVE  CountInv'
<1> SUFFICES ASSUME NEW p PROVE SameSize(RegisteredAt(p)', TokensAt(p)')
  BY DEF CountInv
<1>1. PICK R, T : R = RegisteredAt(p) /\ T = TokensAt(p)
  OBVIOUS
<1>2. SameSize(R, T)
  BY <1>1 DEF CountInv
<1>3. Registered \subseteq DOMAIN maps /\ Tokens \subseteq DOMAIN maps
  BY RegisteredMaps, TokenMaps DEF Base
<1>4. ASSUME NEW t \in Threads, BeginMap(t) PROVE SameSize(RegisteredAt(p)', TokensAt(p)')
  <2>1. PICK n : /\ n \notin DOMAIN maps /\ \A i \in DOMAIN maps : maps'[i] = maps[i]
                 /\ Tokens' = Tokens \cup {n} /\ Registered' = Registered \cup {n}
    BY <1>4, BeginMapTokens
  <2>2. n \notin R /\ n \notin T
    BY <1>1, <1>3, <2>1 DEF RegisteredAt, TokensAt
  <2>3. CASE maps'[n].ptr = p
    <3>1. RegisteredAt(p)' = R \cup {n} /\ TokensAt(p)' = T \cup {n}
      BY <1>1, <1>3, <2>1, <2>3 DEF RegisteredAt, TokensAt
    <3> QED  BY <1>2, <2>2, <3>1, SizesGrow
  <2>4. CASE maps'[n].ptr # p
    <3>1. RegisteredAt(p)' = R /\ TokensAt(p)' = T
      BY <1>1, <1>3, <2>1, <2>4 DEF RegisteredAt, TokensAt
    <3> QED  BY <1>2, <3>1
  <2> QED  BY <2>3, <2>4
<1>5. ASSUME SameMaps, Tokens' = Tokens, Registered' = Registered
      PROVE  SameSize(RegisteredAt(p)', TokensAt(p)')
  <2>1. RegisteredAt(p)' = R /\ TokensAt(p)' = T
    BY <1>1, <1>3, <1>5 DEF RegisteredAt, TokensAt, SameMaps
  <2> QED  BY <1>2, <2>1
<1>6. ASSUME NEW i \in Registered, NEW j \in Tokens, maps[i].ptr = maps[j].ptr, SameMaps,
             Tokens' = Tokens \ {j}, Registered' = Registered \ {i}
      PROVE  SameSize(RegisteredAt(p)', TokensAt(p)')
  <2>1. PICK x, y : x = i /\ y = j
    OBVIOUS
  <2>2. CASE maps[i].ptr = p
    <3>1. RegisteredAt(p)' = R \ {x} /\ TokensAt(p)' = T \ {y} /\ x \in R /\ y \in T
      BY <1>1, <1>3, <1>6, <2>1, <2>2 DEF RegisteredAt, TokensAt, SameMaps
    <3> QED  BY <1>2, <3>1, SizesKept
  <2>3. CASE maps[i].ptr # p
    <3>1. RegisteredAt(p)' = R /\ TokensAt(p)' = T
      BY <1>1, <1>3, <1>6, <2>3 DEF RegisteredAt, TokensAt, SameMaps
    <3> QED  BY <1>2, <3>1
  <2> QED  BY <2>2, <2>3
<1>7. \A t \in Threads : Mapping(t) \/ Unmapping(t) => call[t].task \in Registered
  BY CallIs DEF TaskInv, Base
<1>8. CASE Commands
  BY <1>5, <1>8, CommandsAreCalm, CalmTokens
<1>9. ASSUME NEW t \in Threads, ThrowFromMap(t) PROVE SameSize(RegisteredAt(p)', TokensAt(p)')
  BY <1>6, <1>7, <1>9, ThrowFromMapTokens
<1>10. ASSUME NEW t \in Threads, FinishUnmap(t) PROVE SameSize(RegisteredAt(p)', TokensAt(p)')
  BY <1>6, <1>7, <1>10, FinishUnmapTokens
<1>11. ASSUME NEW t \in Threads, FinishMap(t) \/ BeginUnmap(t) \/ ThrowFromUnmap(t)
       PROVE  SameSize(RegisteredAt(p)', TokensAt(p)')
  BY <1>5, <1>11, TokensMove
<1> QED  BY <1>4, <1>8, <1>9, <1>10, <1>11, CallsOrCommands DEF Calls

LEMMA HandedStep ==
  ASSUME Base, TaskInv, HandedInv, [Next]_vars
  PROVE  HandedInv'
<1>1. /\ held \subseteq DOMAIN maps /\ \A i \in held : maps[i].state # "made"
      /\ \A t \in Threads : Unmapping(t) =>
           call[t].given \in DOMAIN maps /\ maps[call[t].given].state # "made"
      /\ \A u \in DOMAIN unmaps :
           unmaps[u].given \in DOMAIN maps /\ maps[unmaps[u].given].state # "made"
  BY DEF Base, CallInv, PointersInv, Match
<1>2. ASSUME NEW t \in Threads, BeginMap(t) PROVE HandedInv'
  <2>1. PICK n : \E region \in Regions, flags \in {"R", "W"} :
          /\ MapAdded(n, region, flags) /\ call[t] = Idle
          /\ SetsCall(t, [at |-> "mapping", task |-> n])
          /\ Registered' = Registered \cup {n} /\ UNCHANGED <<held, unmaps>>
    BY <1>2, BeginMapIs
  <2>2. \A u \in Threads : Unmapping(u)' => Unmapping(u) /\ call'[u] = call[u]
    BY <2>1 DEF SetsCall, Unmapping
  <2>3. Handed' \subseteq Handed
    BY <1>1, <2>1, <2>2 DEF Handed, MapAdded
  <2> QED  BY <2>1, <2>3 DEF HandedInv, Unmapped
<1>3. ASSUME NEW t \in Threads, FinishMap(t) PROVE HandedInv'
  <2>1. PICK i \in DOMAIN maps :
          /\ Mapping(t) /\ call[t].task = i /\ SetsState(i, "queued") /\ SetsCall(t, Idle)
          /\ held' = held \cup {i} /\ UNCHANGED <<unmaps, outstanding>>
    BY <1>3, FinishMapIs
  <2>2. i \in Registered
    BY <2>1, CallIs DEF TaskInv, Base
  <2>3. \A j \in Handed' : j \in Handed \/ j = i
    BY <2>1, Returned DEF Handed, SetsState, SameMaps
  <2>4. Registered' = Registered
    BY <2>1 DEF Registered
  <2> QED  BY <2>1, <2>2, <2>3, <2>4 DEF HandedInv, Unmapped
<1>4. ASSUME NEW t \in Threads, ThrowFromMap(t) PROVE HandedInv'
  <2>1. PICK i \in DOMAIN maps :
          /\ maps[i].state = "made" /\ SetsState(i, "failed") /\ SetsCall(t, Idle)
          /\ Registered' = Registered \ {i} /\ UNCHANGED <<held, unmaps>>
    BY <1>4, ThrowFromMapIs
  <2>2. i \notin Handed
    BY <1>1, <2>1 DEF Handed
  <2>3. Handed' \subseteq Handed
    BY <2>1, Returned DEF Handed, SetsState, SameMaps
  <2> QED  BY <2>1, <2>2, <2>3 DEF HandedInv, Unmapped
<1>5. ASSUME NEW t \in Threads, BeginUnmap(t) PROVE HandedInv'
  <2>1. PICK i \in held, found \in Registered :
          /\ SetsCall(t, [at |-> "unmapping", task |-> found, given |-> i])
          /\ call[t] = Idle /\ held' = held \ {i} /\ UNCHANGED <<maps, unmaps, outstanding>>
    BY <1>5, BeginUnmapIs
  <2>2. \A u \in Threads :
          call'[u] = IF u = t THEN [at |-> "unmapping", task |-> found, given |-> i] ELSE call[u]
    BY <2>1 DEF SetsCall
  <2>3. Handed' \subseteq Handed
    BY <1>1, <2>1, <2>2 DEF Handed, Unmapping
  <2> QED  BY <2>1, <2>3 DEF HandedInv, Unmapped, Registered
<1>6. ASSUME NEW t \in Threads, ThrowFromUnmap(t) PROVE HandedInv'
  <2>1. PICK given \in DOMAIN maps :
          /\ Unmapping(t) /\ given = call[t].given /\ held' = held \cup {given}
          /\ SetsCall(t, Idle) /\ UNCHANGED <<maps, unmaps, outstanding>>
    BY <1>6, ThrowFromUnmapIs
  <2>2. Handed' \subseteq Handed
    BY <1>1, <2>1, Returned DEF Handed
  <2> QED  BY <2>1, <2>2 DEF HandedInv, Unmapped, Registered
<1>7. ASSUME NEW t \in Threads, FinishUnmap(t) PROVE HandedInv'
  <2>1. PICK found, given : found = call[t].task /\ given = call[t].given
    OBVIOUS
  <2>2. PICK u :
          /\ u \notin DOMAIN unmaps /\ DOMAIN unmaps' = DOMAIN unmaps \cup {u}
          /\ \A v \in DOMAIN unmaps : unmaps'[v] = unmaps[v]
          /\ unmaps'[u] = [map |-> found, given |-> given, state |-> "queued"]
          /\ Unmapping(t) /\ SetsCall(t, Idle) /\ Registered' = Registered \ {found}
          /\ UNCHANGED <<maps, held>>
    BY <1>7, <2>1, FinishUnmapIs
  <2>3. unmaps'[u].map = found /\ unmaps'[u].given = given
    BY <2>2
  <2>4. Handed' \subseteq Handed
    BY <1>1, <2>1, <2>2, <2>3, Returned DEF Handed
  <2>5. \A i : Unmapped(i) \/ i = found => Unmapped(i)'
    BY <2>2, <2>3 DEF Unmapped
  <2> QED  BY <2>2, <2>4, <2>5 DEF HandedInv
<1>8. CASE Commands
  <2>1. Calm /\ Registered' = Registered
    BY <1>8, CommandsAreCalm, CalmTokens
  <2>2. Handed' \subseteq Handed
    BY <2>1 DEF Calm, SameMaps, SameUnmaps, Handed, Unmapping
  <2>3. \A i : Unmapped(i) => Unmapped(i)'
    BY <2>1 DEF Calm, SameUnmaps, Unmapped
  <2> QED  BY <2>1, <2>2, <2>3 DEF HandedInv
<1> QED  BY <1>2, <1>3, <1>4, <1>5, <1>6, <1>7, <1>8, CallsOrCommands DEF Calls

(* Dropping a reference undoes what is registered, if it is the last one.  *)
LEMMA UndoneRelease ==
  ASSUME Base, TaskInv, HolderInv, UndoneInv, DOMAIN maps' = DOMAIN maps, SameUnmaps,
         \A u \in DOMAIN unmaps : Ran(unmaps'[u]) <=> Ran(unmaps[u]),
         Registered' \subseteq Registered, alive' = (refs > 1),
         \A j \in DOMAIN maps :
           undone'[j] = undone[j] + IF refs = 1 /\ j \in Registered THEN 1 ELSE 0
  PROVE  UndoneInv'
<1>1. refs \in Nat /\ (alive <=> refs > 0)
  BY AliveIs
<1>2. Registered \subseteq DOMAIN maps /\ \A u \in DOMAIN unmaps : unmaps[u].map \in DOMAIN maps
  BY RegisteredMaps DEF Base, CallInv, PointersInv, Match
<1>3. \A j \in DOMAIN maps : undone[j] \in {0, 1}
  BY DEF UndoneInv
<1>4. ASSUME NEW j \in DOMAIN maps, j \notin Registered PROVE undone'[j] = undone[j]
  BY <1>3, <1>4
<1>5. refs # 1 => \A j \in DOMAIN maps : undone'[j] = undone[j]
  BY <1>3
<1>6. refs = 1 => \A j \in Registered : undone'[j] = 1
  BY <1>1, <1>2, <1>3 DEF UndoneInv
<1>7. alive' => refs # 1 /\ alive
  <2>1. refs > 1 => refs # 1 /\ refs > 0
    BY <1>1
  <2> QED  BY <1>1, <2>1
<1>8. \A j \in Registered' : alive' => undone'[j] = 0
  BY <1>2, <1>5, <1>7 DEF UndoneInv
<1>9. \A j \in DOMAIN maps' : undone'[j] \in {0, 1}
  BY <1>3, <1>4, <1>5, <1>6
<1>10. ASSUME NEW u \in DOMAIN unmaps'
       PROVE  undone'[unmaps'[u].map] = IF Ran(unmaps'[u]) THEN 1 ELSE 0
  <2>1. u \in DOMAIN unmaps /\ unmaps'[u].map = unmaps[u].map
    BY <1>10 DEF SameUnmaps
  <2>2. unmaps[u].map \notin Registered /\ unmaps[u].map \in DOMAIN maps
    BY <1>2, <2>1 DEF TaskInv
  <2>3. undone'[unmaps[u].map] = undone[unmaps[u].map]
    BY <1>4, <2>2
  <2>4. undone[unmaps[u].map] = IF Ran(unmaps[u]) THEN 1 ELSE 0
    BY <2>1 DEF UndoneInv
  <2> QED  BY <2>1, <2>3, <2>4
<1> QED  BY <1>8, <1>9, <1>10 DEF UndoneInv, Ran

LEMMA UndoneQuiet ==
  ASSUME UndoneInv, DOMAIN maps' = DOMAIN maps, UNCHANGED <<unmaps, undone, alive>>,
         Registered' = Registered
  PROVE  UndoneInv'
BY DEF UndoneInv, Ran

LEMMA UndoneStep ==
  ASSUME Base, TaskInv, HolderInv, UndoneInv, [Next]_vars
  PROVE  UndoneInv'
<1>1. Registered \subseteq DOMAIN maps /\ \A u \in DOMAIN unmaps : unmaps[u].map \in DOMAIN maps
  BY RegisteredMaps DEF Base, CallInv, PointersInv, Match
<1>2. ~released => alive
  BY AliveIs
<1>3. ASSUME NEW t \in Threads, BeginMap(t) PROVE UndoneInv'
  <2>1. PICK n : \E region \in Regions, flags \in {"R", "W"} :
          /\ MapAdded(n, region, flags) /\ Registered' = Registered \cup {n}
          /\ \A i \in DOMAIN maps : undone'[i] = undone[i]
          /\ undone'[n] = 0 /\ UNCHANGED <<unmaps, alive>>
    BY <1>3, BeginMapIs
  <2>2. /\ n \notin DOMAIN maps /\ DOMAIN maps' = DOMAIN maps \cup {n}
        /\ \A i \in DOMAIN maps : undone'[i] = undone[i]
        /\ undone'[n] = 0 /\ UNCHANGED <<unmaps, alive>> /\ Registered' = Registered \cup {n}
    BY <2>1 DEF MapAdded
  <2>3. \A i \in Registered' : alive' => undone'[i] = 0
    BY <1>1, <2>2 DEF UndoneInv
  <2>4. \A i \in DOMAIN maps' : undone'[i] \in {0, 1}
    BY <2>2 DEF UndoneInv
  <2>5. \A u \in DOMAIN unmaps' : undone'[unmaps'[u].map] = IF Ran(unmaps'[u]) THEN 1 ELSE 0
    BY <1>1, <2>2 DEF UndoneInv
  <2> QED  BY <2>3, <2>4, <2>5 DEF UndoneInv, Ran
<1>4. ASSUME NEW t \in Threads, FinishMap(t) \/ BeginUnmap(t) \/ ThrowFromUnmap(t) PROVE UndoneInv'
  <2>1. Registered' = Registered /\ DOMAIN maps' = DOMAIN maps
    BY <1>4, TokensMove DEF SameMaps
  <2>2. UNCHANGED <<unmaps, undone, alive>>
    BY <1>4 DEF FinishMap, BeginUnmap, ThrowFromUnmap, object
  <2> QED  BY <2>1, <2>2, UndoneQuiet
<1>5. ASSUME NEW t \in Threads, ThrowFromMap(t) PROVE UndoneInv'
  <2>1. PICK i \in DOMAIN maps :
          /\ SetsState(i, "failed") /\ Registered' = Registered \ {i} /\ alive' = (refs > 1)
          /\ \A j \in DOMAIN maps :
               undone'[j] = undone[j] + IF refs = 1 /\ j \in Registered THEN 1 ELSE 0
          /\ UNCHANGED unmaps
    BY <1>5, ThrowFromMapIs
  <2>2. SameUnmaps /\ DOMAIN maps' = DOMAIN maps
    BY <2>1 DEF SameUnmaps, SetsState, SameMaps
  <2> QED  BY <2>1, <2>2, UndoneRelease
<1>6. ASSUME NEW t \in Threads, FinishUnmap(t) PROVE UndoneInv'
  <2>1. PICK found : found = call[t].task
    OBVIOUS
  <2>2. PICK u :
          /\ u \notin DOMAIN unmaps /\ DOMAIN unmaps' = DOMAIN unmaps \cup {u}
          /\ \A v \in DOMAIN unmaps : unmaps'[v] = unmaps[v]
          /\ unmaps'[u] = [map |-> found, given |-> call[t].given, state |-> "queued"]
          /\ Unmapping(t) /\ Registered' = Registered \ {found}
          /\ ~released /\ UNCHANGED <<maps, undone, alive>>
    BY <1>6, <2>1, FinishUnmapIs
  <2>3. found \in Registered
    BY <2>1, <2>2, CallIs DEF TaskInv, Base
  <2>4. undone[found] = 0
    BY <1>2, <2>2, <2>3 DEF UndoneInv
  <2>5. unmaps'[u].map = found /\ ~Ran(unmaps'[u])
    BY <2>2 DEF Ran
  <2>6. \A v \in DOMAIN unmaps' : undone'[unmaps'[v].map] = IF Ran(unmaps'[v]) THEN 1 ELSE 0
    BY <2>2, <2>4, <2>5 DEF UndoneInv
  <2>7. /\ \A i \in Registered' : alive' => undone'[i] = 0
        /\ \A i \in DOMAIN maps' : undone'[i] \in {0, 1}
    BY <2>2 DEF UndoneInv
  <2> QED  BY <2>6, <2>7 DEF UndoneInv, Ran
<1>7. CASE Commands
  <2>1. Calm /\ Registered' = Registered /\ DOMAIN maps' = DOMAIN maps /\ SameUnmaps
    BY <1>7, CommandsAreCalm, CalmTokens DEF Calm, SameMaps
  <2>2. CASE HostWrite \/ DeviceWrite \/ UNCHANGED vars
    <3>1. UNCHANGED <<unmaps, undone, alive>>
      BY <2>2 DEF HostWrite, DeviceWrite, vars, object
    <3> QED  BY <2>1, <3>1, UndoneQuiet
  <2>3. CASE clReleaseMemObject
    <3>1. /\ alive' = (refs > 1) /\ unmaps' = unmaps
          /\ \A j \in DOMAIN maps :
               undone'[j] = undone[j] + IF refs = 1 /\ j \in Registered THEN 1 ELSE 0
      BY <2>3, ReleaseIs
    <3> QED  BY <2>1, <3>1, UndoneRelease
  <2>4. ASSUME NEW i \in DOMAIN maps, RunMap(i) \/ FailMap(i) PROVE UndoneInv'
    <3>1. UNCHANGED <<unmaps, undone, alive>>
      BY <2>4 DEF RunMap, FailMap, object
    <3> QED  BY <2>1, <3>1, UndoneQuiet
  <2>5. ASSUME NEW i \in DOMAIN maps, CompleteMap(i) PROVE UndoneInv'
    <3>1. /\ alive' = (refs > 1) /\ unmaps' = unmaps
          /\ \A j \in DOMAIN maps :
               undone'[j] = undone[j] + IF refs = 1 /\ j \in Registered THEN 1 ELSE 0
      BY <2>5, CompleteMapIs
    <3> QED  BY <2>1, <3>1, UndoneRelease
  <2>6. ASSUME NEW u \in DOMAIN unmaps, EndUnmap(u) PROVE UndoneInv'
    <3>1. /\ \/ unmaps[u].state = "running" /\ SetsUnmap(u, "complete")
             \/ unmaps[u].state = "queued" /\ SetsUnmap(u, "failed")
          /\ alive' = (refs > 1)
          /\ \A j \in DOMAIN maps :
               undone'[j] = undone[j] + IF refs = 1 /\ j \in Registered THEN 1 ELSE 0
      BY <2>6, EndUnmapIs
    <3>2. \A v \in DOMAIN unmaps : Ran(unmaps'[v]) <=> Ran(unmaps[v])
      BY <3>1 DEF SetsUnmap, Ran
    <3> QED  BY <2>1, <3>1, <3>2, UndoneRelease
  <2>7. ASSUME NEW u \in DOMAIN unmaps, RunUnmap(u) PROVE UndoneInv'
    <3>1. PICK m \in DOMAIN maps :
            /\ unmaps[u].state = "queued" /\ m = unmaps[u].map /\ SetsUnmap(u, "running")
            /\ \A j \in DOMAIN maps : undone'[j] = IF j = m THEN undone[j] + 1 ELSE undone[j]
            /\ alive' = alive
      BY <2>7, RunUnmapIs DEF object
    <3>2. m \notin Registered /\ undone[m] = 0
      BY <3>1 DEF TaskInv, UndoneInv, Ran
    <3>3. \A v \in DOMAIN unmaps : unmaps[v].map = m => v = u
      BY <3>1 DEF TaskInv
    <3>4. /\ \A i \in Registered' : alive' => undone'[i] = 0
          /\ \A i \in DOMAIN maps' : undone'[i] \in {0, 1}
      BY <1>1, <2>1, <3>1, <3>2 DEF UndoneInv
    <3>5. \A v \in DOMAIN unmaps : v # u => undone[unmaps[v].map] = IF Ran(unmaps[v]) THEN 1 ELSE 0
      BY DEF UndoneInv
    <3>6. \A v \in DOMAIN unmaps : v # u => (Ran(unmaps'[v]) <=> Ran(unmaps[v]))
      BY <3>1 DEF SetsUnmap, Ran
    <3>7. \A v \in DOMAIN unmaps : v # u => undone'[unmaps[v].map] = undone[unmaps[v].map]
      BY <1>1, <3>1, <3>3
    <3>8. Ran(unmaps'[u]) /\ undone'[unmaps[u].map] = 1
      BY <3>1, <3>2 DEF SetsUnmap, Ran
    <3>9. \A v \in DOMAIN unmaps' : undone'[unmaps'[v].map] = IF Ran(unmaps'[v]) THEN 1 ELSE 0
      BY <2>1, <3>5, <3>6, <3>7, <3>8 DEF SameUnmaps
    <3> QED  BY <3>4, <3>9 DEF UndoneInv, Ran
  <2> QED  BY <1>7, <2>2, <2>3, <2>4, <2>5, <2>6, <2>7 DEF Commands
<1> QED  BY <1>3, <1>4, <1>5, <1>6, <1>7, CallsOrCommands DEF Calls

OnceInv == raced = {} => TaskInv /\ CountInv /\ HandedInv /\ UndoneInv

LEMMA OnceInit ==
  ASSUME Init
  PROVE  OnceInv
<1>1. maps = <<>> /\ unmaps = <<>> /\ outstanding = <<>> /\ \A t \in Threads : call[t] = Idle
  BY DEF Init
<1>2. Registered = {} /\ Tokens = {} /\ Handed = {}
  BY <1>1 DEF Registered, Tokens, Handed
<1>3. \A p : RegisteredAt(p) = {} /\ TokensAt(p) = {}
  BY <1>2 DEF RegisteredAt, TokensAt
<1>4. CountInv
  BY <1>3, FS_EmptySet DEF CountInv, SameSize
<1>5. TaskInv /\ HandedInv /\ UndoneInv
  BY <1>1, <1>2 DEF TaskInv, HandedInv, UndoneInv
<1> QED  BY <1>4, <1>5 DEF OnceInv

LEMMA OnceStep ==
  ASSUME Base, HolderInv, OnceInv, [Next]_vars
  PROVE  OnceInv'
BY RacedStays, TaskStep, CountStep, HandedStep, UndoneStep DEF OnceInv

LEMMA AllGivenBack ==
  ASSUME Base, OnceInv
  PROVE  UndoneOnce
<1> SUFFICES ASSUME raced = {}
             PROVE  /\ \A i \in DOMAIN maps : undone[i] <= 1
                    /\ (held = {} /\ \A t \in Threads : call[t] = Idle) =>
                         /\ Registered = {}
                         /\ (\A u \in DOMAIN unmaps : unmaps[u].state = "complete") =>
                              \A u \in DOMAIN unmaps : undone[unmaps[u].given] = 1
  BY DEF UndoneOnce
<1>1. CountInv /\ HandedInv /\ UndoneInv
  BY DEF OnceInv
<1>2. \A i \in DOMAIN maps : undone[i] <= 1
  BY <1>1 DEF UndoneInv
<1>3. ASSUME held = {}, \A t \in Threads : call[t] = Idle PROVE Registered = {}
  <2>1. Tokens = {}
    BY <1>3, CallIs DEF Tokens, Base
  <2>2. ASSUME NEW i \in Registered PROVE FALSE
    <3>1. PICK R, T, p : R = RegisteredAt(p) /\ T = TokensAt(p) /\ p = maps[i].ptr
      OBVIOUS
    <3>2. T = {} /\ i \in R
      BY <2>1, <3>1 DEF TokensAt, RegisteredAt
    <3>3. SameSize(R, T)
      BY <1>1, <3>1 DEF CountInv
    <3> QED  BY <3>2, <3>3, FS_EmptySet DEF SameSize
  <2> QED  BY <2>2
<1>4. ASSUME Registered = {}, \A u \in DOMAIN unmaps : unmaps[u].state = "complete",
             NEW u \in DOMAIN unmaps
      PROVE  undone[unmaps[u].given] = 1
  <2>1. unmaps[u].given \in Handed
    BY DEF Handed, Base, CallInv, PointersInv, Match
  <2>2. PICK v \in DOMAIN unmaps : unmaps[v].map = unmaps[u].given
    BY <1>1, <1>4, <2>1 DEF HandedInv, Unmapped
  <2> QED  BY <1>1, <1>4, <2>2 DEF UndoneInv, Ran
<1> QED  BY <1>2, <1>3, <1>4

(* A pointer is looked up before the task pool lock is taken and removed   *)
(* after, and the registry cannot tell maps with one pointer apart.  As    *)
(* long as no two calls find the same map, what they do together is right: *)
(* no map is undone twice, none is left behind.                            *)
THEOREM MapsUndoneOnce == Spec => []UndoneOnce
<1>1. Init => Base /\ HolderInv /\ OnceInv
  BY BaseInit, OnceInit
<1>2. Base /\ HolderInv /\ OnceInv /\ [Next]_vars => (Base /\ HolderInv /\ OnceInv)'
  BY BaseStep, HolderStep, OnceStep
<1>3. Base /\ OnceInv => UndoneOnce
  BY AllGivenBack
<1> QED  BY <1>1, <1>2, <1>3, PTL DEF Spec

-----------------------------------------------------------------------------
(* What overlaps, and whose content is in the object                       *)

LEMMA LeastCell ==
  ASSUME NEW S \in Regions
  PROVE  Min(S) \in S
<1>1. S \subseteq Nat /\ S # {}
  BY MapTrackingAssumption
<1>2. PICK x \in S : \A y \in S : ~ (<<y, x>> \in OpToRel(<, Nat))
  BY <1>1, NatLessThanWellFounded, WFMin
<1>3. \A y \in S : ~(y < x)
  BY <1>1, <1>2 DEF OpToRel
<1>4. \A y \in S : x =< y
  BY <1>1, <1>3
<1> QED  BY <1>4 DEF Min

(* Maps with one pointer are one map or overlap.                           *)
LEMMA OnePointer ==
  ASSUME MapsType, NEW i \in DOMAIN maps, NEW j \in DOMAIN maps, i # j, maps[i].ptr = maps[j].ptr
  PROVE  kind # "copy" /\ maps[i].region \cap maps[j].region # {}
<1>1. /\ maps[i].ptr = Pointer(i, maps[i].region) /\ maps[j].ptr = Pointer(j, maps[j].region)
      /\ maps[i].region \in Regions /\ maps[j].region \in Regions
  <2>1. maps[i] \in MapRecord /\ maps[j] \in MapRecord
    BY DEF MapsType
  <2>2. /\ maps[i].ptr = Pointer(i, maps[i].region)
        /\ maps[j].ptr = Pointer(j, maps[j].region)
    BY DEF MapsType
  <2> QED  BY <2>1, <2>2 DEF MapRecord
<1>2. kind # "copy"
  <2>1. SUFFICES ASSUME kind = "copy" PROVE FALSE
    OBVIOUS
  <2>2. maps[i].ptr = <<"staging", i>> /\ maps[j].ptr = <<"staging", j>>
    BY <1>1, <2>1 DEF Pointer
  <2>3. <<"staging", i>> = <<"staging", j>>
    BY <2>2
  <2> QED  BY <2>3
<1>3. PICK a, b : a = Min(maps[i].region) /\ b = Min(maps[j].region)
  OBVIOUS
<1>4. <<"cell", a>> = <<"cell", b>>
  BY <1>1, <1>2, <1>3 DEF Pointer
<1>5. a = b
  BY <1>4
<1> QED  BY <1>1, <1>2, <1>3, <1>5, LeastCell

Open(i) ==
  \/ i \in held
  \/ \E t \in Threads : Unmapping(t) /\ call[t].given = i
  \/ \E u \in DOMAIN unmaps : unmaps[u].given = i /\ unmaps[u].state = "queued"

LEMMA InUseIs ==
  ASSUME NEW i
  PROVE  i \in InUse <=>
           /\ i \in DOMAIN maps
           /\ \/ i \in held \/ ~Ended(maps[i])
              \/ \E t \in Threads : Unmapping(t) /\ call[t].given = i
              \/ \E u \in DOMAIN unmaps : unmaps[u].given = i /\ ~Ended(unmaps[u])
BY DEF InUse, Unmapping

LEMMA OpenInUse ==
  ASSUME NEW i \in DOMAIN maps, Open(i)
  PROVE  i \in InUse
BY InUseIs DEF Open, Ended

LEMMA BeginMapOpen ==
  ASSUME Base, NEW t \in Threads, BeginMap(t)
  PROVE  \E n : \E region \in Regions, flags \in {"R", "W"} :
           /\ MapAdded(n, region, flags) /\ Legal(region, flags)
           /\ \A i : Open(i)' <=> Open(i)
           /\ ~Open(n)
           /\ \A i : i \in InUse' => i \in InUse \/ i = n
<1>1. PICK n : \E region \in Regions, flags \in {"R", "W"} :
        /\ MapAdded(n, region, flags) /\ Legal(region, flags) /\ call[t] = Idle
        /\ SetsCall(t, [at |-> "mapping", task |-> n]) /\ UNCHANGED <<held, unmaps>>
  BY BeginMapIs
<1>2. /\ n \notin DOMAIN maps /\ DOMAIN maps' = DOMAIN maps \cup {n}
      /\ \A i \in DOMAIN maps : maps'[i] = maps[i]
  BY <1>1 DEF MapAdded
<1>3. ~Unmapping(t)
  BY <1>1, CallIs DEF Base
<1>4. \A u \in Threads : /\ Unmapping(u)' <=> Unmapping(u)
                         /\ Unmapping(u) => call'[u] = call[u]
  BY <1>1, <1>3 DEF SetsCall, Unmapping
<1>5. \A i : Open(i)' <=> Open(i)
  BY <1>1, <1>4 DEF Open
<1>6. ~Open(n)
  BY <1>2 DEF Open, Base, CallInv, PointersInv, Match
<1>7. ASSUME NEW i, i \in InUse', i # n PROVE i \in InUse
  <2>1. /\ i \in DOMAIN maps'
        /\ \/ i \in held' \/ ~Ended(maps'[i])
           \/ \E u \in Threads : Unmapping(u)' /\ call'[u].given = i
           \/ \E u \in DOMAIN unmaps' : unmaps'[u].given = i /\ ~Ended(unmaps'[u])
    BY <1>7, InUseIs DEF InUse, Unmapping
  <2> QED  BY <1>1, <1>2, <1>4, <1>7, <2>1, InUseIs
<1> QED  BY <1>1, <1>5, <1>6, <1>7

LEMMA FinishMapOpen ==
  ASSUME Base, NEW t \in Threads, FinishMap(t)
  PROVE  /\ Mapping(t) /\ maps[call[t].task].state = "made" /\ SetsState(call[t].task, "queued")
         /\ \A j : Open(j)' <=> Open(j) \/ j = call[t].task
         /\ InUse' \subseteq InUse
<1>1. PICK i \in DOMAIN maps :
        /\ Mapping(t) /\ call[t].task = i /\ maps[i].state = "made"
        /\ SetsState(i, "queued") /\ SetsCall(t, Idle)
        /\ held' = held \cup {i} /\ UNCHANGED unmaps
  BY FinishMapIs
<1>2. ~Unmapping(t)
  BY <1>1, CallIs DEF Base
<1>3. \A j : Open(j)' <=> Open(j) \/ j = i
  BY <1>1, <1>2, Returned DEF Open
<1>4. i \in InUse
  BY <1>1, InUseIs DEF Ended
<1>5. ASSUME NEW j, j \in InUse' PROVE j \in InUse
  <2>1. /\ j \in DOMAIN maps'
        /\ \/ j \in held' \/ ~Ended(maps'[j])
           \/ \E u \in Threads : Unmapping(u)' /\ call'[u].given = j
           \/ \E u \in DOMAIN unmaps' : unmaps'[u].given = j /\ ~Ended(unmaps'[u])
    BY <1>5 DEF InUse, Unmapping
  <2> QED  BY <1>1, <1>2, <1>4, <2>1, InUseIs, Returned DEF SetsState, SameMaps, Ended
<1> QED  BY <1>1, <1>3, <1>5

(* The other calls leave open what is open.                                *)
LEMMA OpenMoves ==
  ASSUME Base, NEW t \in Threads,
         ThrowFromMap(t) \/ BeginUnmap(t) \/ FinishUnmap(t) \/ ThrowFromUnmap(t)
  PROVE  (\A j : Open(j)' <=> Open(j)) /\ InUse' \subseteq InUse
<1>1. CASE ThrowFromMap(t)
  <2>1. PICK i \in DOMAIN maps :
          /\ Mapping(t) /\ maps[i].state = "made" /\ SetsState(i, "failed") /\ SetsCall(t, Idle)
          /\ UNCHANGED <<held, unmaps>>
    BY <1>1, ThrowFromMapIs
  <2>2. ~Unmapping(t)
    BY <2>1, CallIs DEF Base
  <2>3. \A j : Open(j)' <=> Open(j)
    BY <2>1, <2>2, Returned DEF Open
  <2>4. ASSUME NEW j, j \in InUse' PROVE j \in InUse
    <3>1. /\ j \in DOMAIN maps'
          /\ \/ j \in held' \/ ~Ended(maps'[j])
             \/ \E u \in Threads : Unmapping(u)' /\ call'[u].given = j
             \/ \E u \in DOMAIN unmaps' : unmaps'[u].given = j /\ ~Ended(unmaps'[u])
      BY <2>4 DEF InUse, Unmapping
    <3> QED  BY <2>1, <2>2, <3>1, InUseIs, Returned DEF SetsState, SameMaps, Ended
  <2> QED  BY <2>3, <2>4
<1>2. CASE BeginUnmap(t)
  <2>1. PICK i \in held, found \in Registered :
          /\ SetsCall(t, [at |-> "unmapping", task |-> found, given |-> i])
          /\ call[t] = Idle /\ held' = held \ {i} /\ UNCHANGED <<maps, unmaps>>
    BY <1>2, BeginUnmapIs
  <2>2. ~Unmapping(t)
    BY <2>1, CallIs DEF Base
  <2>3. ASSUME NEW u \in Threads
        PROVE  /\ Unmapping(u)' <=> u = t \/ Unmapping(u)
               /\ u # t => call'[u] = call[u]
               /\ u = t => call'[u].given = i
    <3>1. CASE u = t
      BY <2>1, <2>2, <3>1 DEF SetsCall, Unmapping
    <3>2. CASE u # t
      BY <2>1, <3>2 DEF SetsCall, Unmapping
    <3> QED  BY <3>1, <3>2
  <2>4. \A j : Open(j)' <=> Open(j)
    BY <2>1, <2>2, <2>3 DEF Open
  <2>5. ASSUME NEW j, j \in InUse' PROVE j \in InUse
    <3>1. /\ j \in DOMAIN maps'
          /\ \/ j \in held' \/ ~Ended(maps'[j])
             \/ \E u \in Threads : Unmapping(u)' /\ call'[u].given = j
             \/ \E u \in DOMAIN unmaps' : unmaps'[u].given = j /\ ~Ended(unmaps'[u])
      BY <2>5 DEF InUse, Unmapping
    <3> QED  BY <2>1, <2>3, <3>1, InUseIs
  <2> QED  BY <2>4, <2>5
<1>3. CASE ThrowFromUnmap(t)
  <2>1. PICK given \in DOMAIN maps :
          /\ Unmapping(t) /\ given = call[t].given /\ held' = held \cup {given}
          /\ SetsCall(t, Idle) /\ UNCHANGED <<maps, unmaps>>
    BY <1>3, ThrowFromUnmapIs
  <2>2. \A j : Open(j)' <=> Open(j)
    BY <2>1, Returned DEF Open
  <2>3. ASSUME NEW j, j \in InUse' PROVE j \in InUse
    <3>1. /\ j \in DOMAIN maps'
          /\ \/ j \in held' \/ ~Ended(maps'[j])
             \/ \E u \in Threads : Unmapping(u)' /\ call'[u].given = j
             \/ \E u \in DOMAIN unmaps' : unmaps'[u].given = j /\ ~Ended(unmaps'[u])
      BY <2>3 DEF InUse, Unmapping
    <3> QED  BY <2>1, <3>1, InUseIs, Returned
  <2> QED  BY <2>2, <2>3
<1>4. CASE FinishUnmap(t)
  <2>1. PICK found, given : found = call[t].task /\ given = call[t].given
    OBVIOUS
  <2>2. PICK u :
          /\ u \notin DOMAIN unmaps /\ DOMAIN unmaps' = DOMAIN unmaps \cup {u}
          /\ \A v \in DOMAIN unmaps : unmaps'[v] = unmaps[v]
          /\ unmaps'[u] = [map |-> found, given |-> given, state |-> "queued"]
          /\ Unmapping(t) /\ SetsCall(t, Idle) /\ UNCHANGED <<maps, held>>
    BY <1>4, <2>1, FinishUnmapIs
  <2>3. unmaps'[u].given = given /\ unmaps'[u].state = "queued"
    BY <2>2
  <2>4. \A j : (\E v \in Threads : Unmapping(v) /\ call[v].given = j) <=>
                 j = given \/ \E v \in Threads : Unmapping(v)' /\ call'[v].given = j
    BY <2>1, <2>2, Returned
  <2>5. \A j : (\E v \in DOMAIN unmaps' : unmaps'[v].given = j /\ unmaps'[v].state = "queued") <=>
                 \/ j = given
                 \/ \E v \in DOMAIN unmaps : unmaps[v].given = j /\ unmaps[v].state = "queued"
    BY <2>2, <2>3
  <2>6. \A j : Open(j)' <=> Open(j)
    BY <2>2, <2>4, <2>5 DEF Open
  <2>7. ASSUME NEW j, j \in InUse' PROVE j \in InUse
    <3>1. /\ j \in DOMAIN maps'
          /\ \/ j \in held' \/ ~Ended(maps'[j])
             \/ \E v \in Threads : Unmapping(v)' /\ call'[v].given = j
             \/ \E v \in DOMAIN unmaps' : unmaps'[v].given = j /\ ~Ended(unmaps'[v])
      BY <2>7 DEF InUse, Unmapping
    <3>2. CASE j = given
      BY <2>1, <2>2, <3>1, <3>2, InUseIs
    <3>3. CASE j # given
      BY <2>2, <2>3, <2>4, <3>1, <3>3, InUseIs
    <3> QED  BY <3>2, <3>3
  <2> QED  BY <2>6, <2>7
<1> QED  BY <1>1, <1>2, <1>3, <1>4

(* A command that ends is not in use any more, unless its pointer is held. *)
LEMMA CommandsClose ==
  ASSUME Base, Commands
  PROVE  (\A j : Open(j)' => Open(j)) /\ InUse' \subseteq InUse
<1>1. Calm
  BY CommandsAreCalm
<1>2. /\ \A i \in DOMAIN maps : Ended(maps[i]) => Ended(maps'[i])
      /\ \A u \in DOMAIN unmaps : Ended(unmaps[u]) => Ended(unmaps'[u])
      /\ \A u \in DOMAIN unmaps : unmaps'[u].state = "queued" => unmaps[u].state = "queued"
  <2>1. CASE HostWrite \/ DeviceWrite \/ clReleaseMemObject \/ UNCHANGED vars
    BY <2>1 DEF HostWrite, DeviceWrite, clReleaseMemObject, vars
  <2>2. ASSUME NEW i \in DOMAIN maps, RunMap(i) \/ CompleteMap(i) \/ FailMap(i)
        PROVE  /\ UNCHANGED unmaps /\ ~Ended(maps[i])
               /\ \E s \in {"running", "complete", "failed"} : SetsState(i, s)
    BY <2>2, RunMapIs, CompleteMapIs, FailMapIs DEF Ended
  <2>3. ASSUME NEW u \in DOMAIN unmaps, RunUnmap(u) \/ EndUnmap(u)
        PROVE  /\ UNCHANGED maps /\ ~Ended(unmaps[u])
               /\ \E s \in {"running", "complete", "failed"} : SetsUnmap(u, s)
    BY <2>3, RunUnmapIs, EndUnmapIs DEF Ended
  <2>4. CASE \E i \in DOMAIN maps : RunMap(i) \/ CompleteMap(i) \/ FailMap(i)
    BY <2>2, <2>4 DEF SetsState, Ended
  <2>5. CASE \E u \in DOMAIN unmaps : RunUnmap(u) \/ EndUnmap(u)
    BY <2>3, <2>5 DEF SetsUnmap, Ended
  <2> QED  BY <2>1, <2>4, <2>5 DEF Commands
<1>3. \A j : Open(j)' => Open(j)
  BY <1>1, <1>2 DEF Open, Calm, SameUnmaps, Unmapping
<1>4. ASSUME NEW j, j \in InUse' PROVE j \in InUse
  <2>1. /\ j \in DOMAIN maps'
        /\ \/ j \in held' \/ ~Ended(maps'[j])
           \/ \E u \in Threads : Unmapping(u)' /\ call'[u].given = j
           \/ \E u \in DOMAIN unmaps' : unmaps'[u].given = j /\ ~Ended(unmaps'[u])
    BY <1>4 DEF InUse, Unmapping
  <2> QED  BY <1>1, <1>2, <2>1, InUseIs DEF Calm, SameMaps, SameUnmaps, Unmapping
<1> QED  BY <1>3, <1>4

Writing(i) == maps[i].flags = "W"

(* No map in use overlaps one that is for writing.                         *)
ExclInv ==
  \A i, j \in InUse :
    i # j /\ maps[i].region \cap maps[j].region # {} => ~Writing(i) /\ ~Writing(j)

(* A map for writing is registered as long as its pointer is not given     *)
(* back, and it is the one found for that pointer.                         *)
OwnInv ==
  /\ \A i \in DOMAIN maps : Writing(i) => (i \in Registered <=> i \in Tokens)
  /\ \A t \in Threads : Unmapping(t) /\ (Writing(call[t].given) \/ Writing(call[t].task)) =>
       call[t].given = call[t].task
  /\ \A u \in DOMAIN unmaps : Writing(unmaps[u].given) \/ Writing(unmaps[u].map) =>
       unmaps[u].given = unmaps[u].map

LEMMA AllButBeginMap ==
  ASSUME Base, [Next]_vars, \A t \in Threads : ~BeginMap(t)
  PROVE  /\ SameMaps /\ InUse' \subseteq InUse
         /\ \A i \in DOMAIN maps : Writing(i)' <=> Writing(i)
<1>1. SameMaps
  BY TokensMove, ThrowFromMapTokens, FinishUnmapTokens, CommandsAreCalm, CallsOrCommands
     DEF Calls, Calm
<1>2. InUse' \subseteq InUse
  BY FinishMapOpen, OpenMoves, CommandsClose, CallsOrCommands DEF Calls
<1> QED  BY <1>1, <1>2 DEF SameMaps, Writing

LEMMA ExclStep ==
  ASSUME Base, ExclInv, [Next]_vars
  PROVE  ExclInv'
<1>1. ASSUME NEW t \in Threads, BeginMap(t) PROVE ExclInv'
  <2>1. PICK n : \E region \in Regions, flags \in {"R", "W"} :
          /\ MapAdded(n, region, flags) /\ Legal(region, flags)
          /\ \A i : i \in InUse' => i \in InUse \/ i = n
    BY <1>1, BeginMapOpen
  <2>2. PICK region \in Regions, flags \in {"R", "W"} :
          MapAdded(n, region, flags) /\ Legal(region, flags)
    BY <2>1
  <2>3. /\ \A i \in DOMAIN maps : maps'[i] = maps[i]
        /\ maps'[n].region = region /\ maps'[n].flags = flags
    BY <2>2 DEF MapAdded
  <2>4. InUse \subseteq DOMAIN maps
    BY DEF InUse
  <2>5. ASSUME NEW i \in InUse', NEW j \in InUse', i # j, maps'[i].region \cap maps'[j].region # {}
        PROVE  maps'[i].flags # "W" /\ maps'[j].flags # "W"
    <3>1. CASE i \in InUse /\ j \in InUse
      BY <2>3, <2>4, <2>5, <3>1 DEF ExclInv, Writing
    <3>2. CASE i \in InUse /\ j = n
      BY <2>2, <2>3, <2>4, <2>5, <3>2 DEF Legal
    <3>3. CASE j \in InUse /\ i = n
      BY <2>2, <2>3, <2>4, <2>5, <3>3 DEF Legal
    <3> QED  BY <2>1, <2>5, <3>1, <3>2, <3>3
  <2> QED  BY <2>5 DEF ExclInv, Writing
<1>2. CASE \A t \in Threads : ~BeginMap(t)
  BY <1>2, AllButBeginMap DEF ExclInv, InUse, SameMaps
<1> QED  BY <1>1, <1>2

(* The only map with the pointer of a map for writing that may be given    *)
(* back is that map.                                                       *)
LEMMA OneToken ==
  ASSUME Base, ExclInv, NEW i \in Tokens, NEW j \in Tokens, Writing(i), maps[i].ptr = maps[j].ptr
  PROVE  i = j
<1>1. ASSUME NEW k \in Tokens PROVE k \in InUse
  <2>1. \A t \in Threads : Mapping(t) => ~Ended(maps[call[t].task])
    BY DEF Base, CallInv, MappingsInv, Ended
  <2> QED  BY <2>1, InUseIs DEF Tokens
<1>2. i \in DOMAIN maps /\ j \in DOMAIN maps
  BY TokenMaps
<1> QED  BY <1>1, <1>2, OnePointer DEF ExclInv, Base

LEMMA FoundIsGiven ==
  ASSUME Base, ExclInv, CountInv, OwnInv, NEW i \in held, NEW found \in Registered,
         maps[i].ptr = maps[found].ptr, Writing(i) \/ Writing(found)
  PROVE  i = found
<1>1. i \in Tokens
  BY DEF Tokens, Base, CallInv, PointersInv
<1>2. i \in DOMAIN maps /\ found \in DOMAIN maps
  BY <1>1, TokenMaps, RegisteredMaps DEF Base
<1>3. CASE Writing(found)
  <2>1. found \in Tokens
    BY <1>2, <1>3 DEF OwnInv
  <2> QED  BY <1>1, <1>3, <2>1, OneToken
<1>4. CASE Writing(i)
  <2>1. i \in Registered
    BY <1>1, <1>2, <1>4 DEF OwnInv
  <2>2. PICK R, T, p : R = RegisteredAt(p) /\ T = TokensAt(p) /\ p = maps[i].ptr
    OBVIOUS
  <2>3. SameSize(R, T)
    BY <2>2 DEF CountInv
  <2>4. \A j \in T : j = i
    BY <1>1, <1>4, <2>2, OneToken DEF TokensAt
  <2>5. i \in T /\ i \in R /\ found \in R
    BY <1>1, <2>1, <2>2 DEF TokensAt, RegisteredAt
  <2>6. T = {i}
    BY <2>4, <2>5
  <2>7. Cardinality(R) = 1
    BY <2>3, <2>6, FS_Singleton DEF SameSize
  <2> QED  BY <2>3, <2>5, <2>7, FS_Singleton DEF SameSize
<1> QED  BY <1>3, <1>4

LEMMA OwnStep ==
  ASSUME Base, ExclInv, TaskInv, CountInv, OwnInv, [Next]_vars
  PROVE  OwnInv'
<1>1. Registered \subseteq DOMAIN maps /\ Tokens \subseteq DOMAIN maps
  BY RegisteredMaps, TokenMaps DEF Base
<1>2. /\ \A t \in Threads : Unmapping(t) =>
           call[t].given \in DOMAIN maps /\ call[t].task \in DOMAIN maps
      /\ \A u \in DOMAIN unmaps : unmaps[u].given \in DOMAIN maps /\ unmaps[u].map \in DOMAIN maps
  BY DEF Base, CallInv, PointersInv, Match
<1>3. ASSUME NEW t \in Threads, BeginMap(t) PROVE OwnInv'
  <2>1. PICK n : \E region \in Regions, flags \in {"R", "W"} :
          /\ MapAdded(n, region, flags) /\ call[t] = Idle
          /\ SetsCall(t, [at |-> "mapping", task |-> n]) /\ UNCHANGED unmaps
    BY <1>3, BeginMapIs
  <2>2. \A i \in DOMAIN maps : Writing(i)' <=> Writing(i)
    BY <2>1 DEF MapAdded, Writing
  <2>3. \A u \in Threads : Unmapping(u)' => Unmapping(u) /\ call'[u] = call[u]
    BY <2>1 DEF SetsCall, Unmapping
  <2>4. \A u \in Threads : Unmapping(u)' /\ (Writing(call[u].given)' \/ Writing(call[u].task)') =>
          call'[u].given = call'[u].task
    BY <1>2, <2>2, <2>3 DEF OwnInv, Writing
  <2>5. \A u \in DOMAIN unmaps' : Writing(unmaps[u].given)' \/ Writing(unmaps[u].map)' =>
          unmaps'[u].given = unmaps'[u].map
    BY <1>2, <2>1, <2>2 DEF OwnInv, Writing
  <2>6. \A i \in DOMAIN maps' : Writing(i)' => (i \in Registered' <=> i \in Tokens')
    <3>1. PICK m : /\ m \notin DOMAIN maps /\ DOMAIN maps' = DOMAIN maps \cup {m}
                   /\ Tokens' = Tokens \cup {m} /\ Registered' = Registered \cup {m}
      BY <1>3, BeginMapTokens
    <3> QED  BY <2>2, <3>1 DEF OwnInv
  <2> QED  BY <2>4, <2>5, <2>6 DEF OwnInv
<1>4. CASE \A t \in Threads : ~BeginMap(t)
  <2>1. SameMaps /\ \A i \in DOMAIN maps : Writing(i)' <=> Writing(i)
    BY <1>4, AllButBeginMap
  <2>2. ASSUME Tokens' = Tokens, Registered' = Registered
        PROVE  \A i \in DOMAIN maps' : Writing(i)' => (i \in Registered' <=> i \in Tokens')
    BY <2>1, <2>2 DEF OwnInv, SameMaps
  <2>3. ASSUME \A u \in Threads : Unmapping(u)' => Unmapping(u) /\ call'[u] = call[u]
        PROVE  \A u \in Threads :
                 Unmapping(u)' /\ (Writing(call[u].given)' \/ Writing(call[u].task)') =>
                   call'[u].given = call'[u].task
    BY <1>2, <2>1, <2>3 DEF OwnInv, Writing
  <2>4. ASSUME SameUnmaps
        PROVE  \A u \in DOMAIN unmaps' : Writing(unmaps[u].given)' \/ Writing(unmaps[u].map)' =>
                 unmaps'[u].given = unmaps'[u].map
    BY <1>2, <2>1, <2>4 DEF OwnInv, Writing, SameUnmaps
  <2>5. CASE Commands
    <3>1. Calm /\ Tokens' = Tokens /\ Registered' = Registered
      BY <2>5, CommandsAreCalm, CalmTokens
    <3>2. SameUnmaps /\ \A u \in Threads : Unmapping(u)' => Unmapping(u) /\ call'[u] = call[u]
      BY <3>1 DEF Calm, Unmapping
    <3> QED  BY <2>2, <2>3, <2>4, <3>1, <3>2 DEF OwnInv
  <2>6. ASSUME NEW t \in Threads, FinishMap(t) \/ ThrowFromUnmap(t) PROVE OwnInv'
    <3>1. SetsCall(t, Idle) /\ UNCHANGED unmaps
      BY <2>6, FinishMapIs, ThrowFromUnmapIs
    <3>2. SameUnmaps /\ \A u \in Threads : Unmapping(u)' => Unmapping(u) /\ call'[u] = call[u]
      BY <3>1, Returned DEF SameUnmaps
    <3>3. Tokens' = Tokens /\ Registered' = Registered
      BY <2>6, TokensMove
    <3> QED  BY <2>2, <2>3, <2>4, <3>2, <3>3 DEF OwnInv
  <2>7. ASSUME NEW t \in Threads, ThrowFromMap(t) PROVE OwnInv'
    <3>1. SetsCall(t, Idle) /\ UNCHANGED unmaps
      BY <2>7, ThrowFromMapIs
    <3>2. SameUnmaps /\ \A u \in Threads : Unmapping(u)' => Unmapping(u) /\ call'[u] = call[u]
      BY <3>1, Returned DEF SameUnmaps
    <3>3. PICK i : Tokens' = Tokens \ {i} /\ Registered' = Registered \ {i}
      BY <2>7, ThrowFromMapTokens
    <3>4. \A j \in DOMAIN maps' : Writing(j)' => (j \in Registered' <=> j \in Tokens')
      BY <2>1, <3>3 DEF OwnInv, SameMaps
    <3> QED  BY <2>3, <2>4, <3>2, <3>4 DEF OwnInv
  <2>8. ASSUME NEW t \in Threads, BeginUnmap(t) PROVE OwnInv'
    <3>1. PICK i \in held, found \in Registered :
            /\ maps[found].ptr = maps[i].ptr /\ UNCHANGED <<maps, unmaps>>
            /\ SetsCall(t, [at |-> "unmapping", task |-> found, given |-> i])
      BY <2>8, BeginUnmapIs
    <3>2. SameUnmaps
      BY <3>1 DEF SameUnmaps
    <3>3. Tokens' = Tokens /\ Registered' = Registered
      BY <2>8, TokensMove
    <3>4. Writing(i) \/ Writing(found) => i = found
      BY <3>1, FoundIsGiven
    <3>5. ASSUME NEW u \in Threads, Unmapping(u)',
                 maps'[call'[u].given].flags = "W" \/ maps'[call'[u].task].flags = "W"
          PROVE  call'[u].given = call'[u].task
      <4>1. CASE u = t
        <5>1. call'[u].given = i /\ call'[u].task = found
          BY <3>1, <4>1 DEF SetsCall
        <5> QED  BY <3>1, <3>4, <3>5, <5>1 DEF Writing
      <4>2. CASE u # t
        <5>1. call'[u] = call[u] /\ Unmapping(u)
          BY <3>1, <3>5, <4>2 DEF SetsCall, Unmapping
        <5> QED  BY <3>1, <3>5, <5>1 DEF OwnInv, Writing
      <4> QED  BY <4>1, <4>2
    <3> QED  BY <2>2, <2>4, <3>2, <3>3, <3>5 DEF OwnInv, Writing
  <2>9. ASSUME NEW t \in Threads, FinishUnmap(t) PROVE OwnInv'
    <3>1. PICK found, given : found = call[t].task /\ given = call[t].given
      OBVIOUS
    <3>2. PICK u :
            /\ u \notin DOMAIN unmaps /\ DOMAIN unmaps' = DOMAIN unmaps \cup {u}
            /\ \A v \in DOMAIN unmaps : unmaps'[v] = unmaps[v]
            /\ unmaps'[u] = [map |-> found, given |-> given, state |-> "queued"]
            /\ Unmapping(t) /\ SetsCall(t, Idle) /\ UNCHANGED maps
      BY <2>9, <3>1, FinishUnmapIs
    <3>3. Tokens' = Tokens \ {given} /\ Registered' = Registered \ {found}
      BY <2>9, <3>1, FinishUnmapTokens
    <3>4. /\ Writing(given) \/ Writing(found) => given = found
          /\ given \in DOMAIN maps /\ found \in DOMAIN maps
      BY <1>2, <3>1, <3>2 DEF OwnInv
    <3>5. \A j \in DOMAIN maps' : Writing(j)' => (j \in Registered' <=> j \in Tokens')
      BY <2>1, <3>3, <3>4 DEF OwnInv, SameMaps
    <3>6. \A v \in Threads : Unmapping(v)' => Unmapping(v) /\ call'[v] = call[v]
      BY <3>2, Returned
    <3>7. unmaps'[u].map = found /\ unmaps'[u].given = given
      BY <3>2
    <3>8. ASSUME NEW v \in DOMAIN unmaps',
                 maps'[unmaps'[v].given].flags = "W" \/ maps'[unmaps'[v].map].flags = "W"
          PROVE  unmaps'[v].given = unmaps'[v].map
      <4>1. CASE v = u
        BY <3>2, <3>4, <3>7, <3>8, <4>1 DEF Writing
      <4>2. CASE v # u
        BY <3>2, <3>8, <4>2 DEF OwnInv, Writing
      <4> QED  BY <4>1, <4>2
    <3> QED  BY <2>3, <3>5, <3>6, <3>8 DEF OwnInv, Writing
  <2> QED  BY <1>4, <2>5, <2>6, <2>7, <2>8, <2>9, CallsOrCommands DEF Calls
<1> QED  BY <1>3, <1>4

Covers(i, c) == c \in maps[i].region
Recorded(i) == maps[i].state \in {"running", "complete"}

(* The host may have written the cell, or the object has what was written. *)
Accounted(c) ==
  \/ \E i \in DOMAIN maps : Writing(i) /\ Covers(i, c) /\ maps[i].state = "complete" /\ Open(i)
  \/ device[c] = truth[c]

(* Every open mapping of the cell shows what was written last.             *)
Shown(c) == \A i \in DOMAIN maps : Covers(i, c) /\ Recorded(i) /\ Open(i) => View(i)[c] = truth[c]

DataInv == \A c \in Cells : Spoilt(c) \/ (Accounted(c) /\ Shown(c))

LEMMA ViewIs ==
  ASSUME MapsType, NEW i
  PROVE  \/ kind = "use" /\ View(i) = host
         \/ kind = "alloc" /\ View(i) = device
         \/ kind = "copy" /\ View(i) = staging[i]
<1>1. kind = "use" \/ kind = "alloc" \/ kind = "copy"
  BY DEF MapsType
<1>2. kind = "use" => View(i) = host
  BY DEF View
<1>3. kind = "alloc" => View(i) = device
  BY DEF View
<1>4. kind = "copy" => View(i) = staging[i]
  BY DEF View
<1> QED  BY <1>1, <1>2, <1>3, <1>4

(* A command that failed stays failed.                                     *)
LEMMA SpoiltStays ==
  ASSUME Base, [Next]_vars, NEW c, Spoilt(c)
  PROVE  Spoilt(c)'
<1>1. /\ DOMAIN maps \subseteq DOMAIN maps'
      /\ \A i \in DOMAIN maps :
           maps'[i].region = maps[i].region /\ maps'[i].flags = maps[i].flags
  <2>1. ASSUME NEW t \in Threads, BeginMap(t)
        PROVE  DOMAIN maps \subseteq DOMAIN maps' /\ \A i \in DOMAIN maps : maps'[i] = maps[i]
    BY <2>1, BeginMapTokens
  <2> QED  BY <2>1, AllButBeginMap DEF SameMaps
<1>2. \A i \in DOMAIN maps : maps[i].state = "failed" => maps'[i].state = "failed"
  <2>1. ASSUME NEW t \in Threads, BeginMap(t)
        PROVE  \A i \in DOMAIN maps : maps'[i] = maps[i]
    BY <2>1, BeginMapTokens
  <2>2. ASSUME NEW t \in Threads, FinishMap(t) \/ ThrowFromMap(t)
        PROVE  \E i \in DOMAIN maps : maps[i].state = "made" /\ \E s : SetsState(i, s)
    BY <2>2, FinishMapIs, ThrowFromMapIs
  <2>3. ASSUME NEW t \in Threads, BeginUnmap(t) \/ FinishUnmap(t) \/ ThrowFromUnmap(t)
        PROVE  maps' = maps
    BY <2>3 DEF BeginUnmap, FinishUnmap, ThrowFromUnmap
  <2>4. ASSUME Commands
        PROVE  \/ maps' = maps
               \/ \E i \in DOMAIN maps : maps[i].state # "failed" /\ \E s : SetsState(i, s)
    <3>1. ASSUME NEW i \in DOMAIN maps, RunMap(i) \/ CompleteMap(i) \/ FailMap(i)
          PROVE  maps[i].state # "failed" /\ \E s : SetsState(i, s)
      BY <3>1, RunMapIs, CompleteMapIs, FailMapIs
    <3>2. ASSUME NEW u \in DOMAIN unmaps, RunUnmap(u) \/ EndUnmap(u) PROVE maps' = maps
      BY <3>2 DEF RunUnmap, EndUnmap
    <3>3. ASSUME HostWrite \/ DeviceWrite \/ clReleaseMemObject \/ UNCHANGED vars PROVE maps' = maps
      BY <3>3 DEF HostWrite, DeviceWrite, clReleaseMemObject, vars
    <3> QED  BY <2>4, <3>1, <3>2, <3>3 DEF Commands
  <2> QED  BY <2>1, <2>2, <2>3, <2>4, CallsOrCommands DEF Calls, SetsState
<1>3. /\ DOMAIN unmaps \subseteq DOMAIN unmaps'
      /\ \A u \in DOMAIN unmaps :
           /\ unmaps'[u].map = unmaps[u].map
           /\ unmaps[u].state = "failed" => unmaps'[u].state = "failed"
  <2>1. ASSUME NEW t \in Threads, FinishUnmap(t)
        PROVE  /\ DOMAIN unmaps \subseteq DOMAIN unmaps'
               /\ \A u \in DOMAIN unmaps : unmaps'[u] = unmaps[u]
    BY <2>1, FinishUnmapIs
  <2>2. ASSUME NEW t \in Threads,
               BeginMap(t) \/ FinishMap(t) \/ ThrowFromMap(t) \/ BeginUnmap(t) \/ ThrowFromUnmap(t)
        PROVE  unmaps' = unmaps
    BY <2>2 DEF BeginMap, FinishMap, ThrowFromMap, BeginUnmap, ThrowFromUnmap
  <2>3. ASSUME Commands
        PROVE  \/ unmaps' = unmaps
               \/ \E u \in DOMAIN unmaps : unmaps[u].state # "failed" /\ \E s : SetsUnmap(u, s)
    <3>1. ASSUME NEW u \in DOMAIN unmaps, RunUnmap(u) \/ EndUnmap(u)
          PROVE  unmaps[u].state # "failed" /\ \E s : SetsUnmap(u, s)
      BY <3>1, RunUnmapIs, EndUnmapIs
    <3>2. ASSUME NEW i \in DOMAIN maps, RunMap(i) \/ CompleteMap(i) \/ FailMap(i)
          PROVE  unmaps' = unmaps
      BY <3>2 DEF RunMap, CompleteMap, FailMap
    <3>3. ASSUME HostWrite \/ DeviceWrite \/ clReleaseMemObject \/ UNCHANGED vars
          PROVE  unmaps' = unmaps
      BY <3>3 DEF HostWrite, DeviceWrite, clReleaseMemObject, vars
    <3> QED  BY <2>3, <3>1, <3>2, <3>3 DEF Commands
  <2> QED  BY <2>1, <2>2, <2>3, CallsOrCommands DEF Calls, SetsUnmap, SameUnmaps
<1>4. PICK i \in DOMAIN maps : c \in maps[i].region /\ maps[i].flags = "W" /\ Failed(i)
  BY DEF Spoilt
<1>5. Failed(i)'
  BY <1>2, <1>3, <1>4 DEF Failed
<1> QED  BY <1>1, <1>4, <1>5 DEF Spoilt

(* A step that neither writes the cell nor changes a view of it.           *)
LEMMA CellKept ==
  ASSUME NEW c, Accounted(c), Shown(c), device'[c] = device[c], truth'[c] = truth[c],
         DOMAIN maps \subseteq DOMAIN maps',
         \A i \in DOMAIN maps : maps'[i].region = maps[i].region /\ maps'[i].flags = maps[i].flags,
         \A i \in DOMAIN maps :
           Writing(i) /\ Covers(i, c) /\ maps[i].state = "complete" /\ Open(i) =>
             maps'[i].state = "complete" /\ Open(i)',
         \A i \in DOMAIN maps' :
           Covers(i, c)' /\ Recorded(i)' /\ Open(i)' =>
             i \in DOMAIN maps /\ Recorded(i) /\ Open(i) /\ View(i)'[c] = View(i)[c]
  PROVE  Accounted(c)' /\ Shown(c)'
<1>1. Accounted(c)'
  BY DEF Accounted, Writing, Covers
<1>2. ASSUME NEW i \in DOMAIN maps', Covers(i, c)', Recorded(i)', Open(i)'
      PROVE  View(i)'[c] = truth'[c]
  <2>1. i \in DOMAIN maps /\ Recorded(i) /\ Open(i) /\ View(i)'[c] = View(i)[c]
    BY <1>2
  <2>2. Covers(i, c)
    BY <1>2, <2>1 DEF Covers
  <2> QED  BY <2>1, <2>2 DEF Shown
<1> QED  BY <1>1, <1>2 DEF Shown

(* Two open maps of a cell are both for reading.                           *)
LEMMA OneWriter ==
  ASSUME ExclInv, NEW c, NEW i \in InUse, NEW j \in InUse, i # j, Covers(i, c), Covers(j, c)
  PROVE  ~Writing(i) /\ ~Writing(j)
BY DEF ExclInv, Covers

LEMMA SameViews ==
  ASSUME MapsType, UNCHANGED <<kind, host, device>>, NEW i, staging'[i] = staging[i]
  PROVE  View(i)' = View(i)
<1>1. CASE kind = "use"
  BY <1>1 DEF View
<1>2. CASE kind = "alloc"
  BY <1>2 DEF View
<1>3. CASE kind = "copy"
  BY <1>3 DEF View
<1> QED  BY <1>1, <1>2, <1>3 DEF MapsType

(* The calls of the application move no data.                              *)
LEMMA DataInCalls ==
  ASSUME Base, [Next]_vars, Calls, NEW c, Accounted(c), Shown(c)
  PROVE  Accounted(c)' /\ Shown(c)'
<1>1. ASSUME NEW t \in Threads, BeginMap(t) PROVE Accounted(c)' /\ Shown(c)'
  <2>1. PICK n : \E region \in Regions, flags \in {"R", "W"} :
          /\ MapAdded(n, region, flags) /\ \A i : Open(i)' <=> Open(i)
    BY <1>1, BeginMapOpen
  <2>2. /\ n = Len(maps) + 1 /\ DOMAIN maps' = DOMAIN maps \cup {n}
        /\ \A i \in DOMAIN maps : maps'[i] = maps[i]
        /\ maps'[n].state = "made"
    BY <2>1 DEF MapAdded
  <2>3. \A i \in DOMAIN maps : staging'[i] = staging[i]
    BY <1>1, BeginMapIs
  <2>4. UNCHANGED <<kind, device, host, truth>>
    BY <1>1 DEF BeginMap
  <2>5. ~Recorded(n)'
    BY <2>2 DEF Recorded
  <2>6. \A i \in DOMAIN maps : View(i)' = View(i)
    BY <2>3, <2>4, SameViews DEF Base
  <2>7. \A i \in DOMAIN maps : Recorded(i)' <=> Recorded(i)
    BY <2>2 DEF Recorded
  <2> QED  BY <2>1, <2>2, <2>4, <2>5, <2>6, <2>7, CellKept
<1>2. ASSUME UNCHANGED <<device, host, truth, staging, kind>>, SameMaps, NEW k,
             k \in DOMAIN maps => ~Recorded(k)' /\ maps[k].state # "complete",
             \A i \in DOMAIN maps :
               i # k => maps'[i].state = maps[i].state /\ (Open(i)' <=> Open(i))
      PROVE  Accounted(c)' /\ Shown(c)'
  <2>1. \A i \in DOMAIN maps : View(i)' = View(i)
    BY <1>2, SameViews DEF Base
  <2>2. \A i \in DOMAIN maps : i # k => (Recorded(i)' <=> Recorded(i))
    BY <1>2 DEF Recorded
  <2>3. /\ DOMAIN maps' = DOMAIN maps
        /\ \A i \in DOMAIN maps : maps'[i].region = maps[i].region /\ maps'[i].flags = maps[i].flags
    BY <1>2 DEF SameMaps
  <2>4. \A i \in DOMAIN maps : maps[i].state = "complete" => i # k
    BY <1>2
  <2>5. \A i \in DOMAIN maps : Recorded(i)' => i # k
    BY <1>2
  <2> QED  BY <1>2, <2>1, <2>2, <2>3, <2>4, <2>5, CellKept
<1>3. ASSUME NEW t \in Threads, FinishMap(t) PROVE Accounted(c)' /\ Shown(c)'
  <2>1. PICK k : k = call[t].task
    OBVIOUS
  <2>2. /\ maps[k].state = "made" /\ SetsState(k, "queued")
        /\ \A i : Open(i)' <=> Open(i) \/ i = k
    BY <1>3, <2>1, FinishMapOpen
  <2>3. UNCHANGED <<device, host, truth, staging, kind>>
    BY <1>3 DEF FinishMap, data
  <2>4. k \in DOMAIN maps => ~Recorded(k)' /\ maps[k].state # "complete"
    BY <2>2 DEF SetsState, Recorded
  <2>5. SameMaps /\ \A i \in DOMAIN maps : i # k => maps'[i].state = maps[i].state
    BY <2>2 DEF SetsState
  <2> QED  BY <1>2, <2>2, <2>3, <2>4, <2>5
<1>4. ASSUME NEW t \in Threads, ThrowFromMap(t) PROVE Accounted(c)' /\ Shown(c)'
  <2>1. PICK k \in DOMAIN maps : maps[k].state = "made" /\ SetsState(k, "failed")
    BY <1>4, ThrowFromMapIs
  <2>2. UNCHANGED <<device, host, truth, staging, kind>>
    BY <1>4 DEF ThrowFromMap, data
  <2>3. k \in DOMAIN maps => ~Recorded(k)' /\ maps[k].state # "complete"
    BY <2>1 DEF SetsState, Recorded
  <2>4. SameMaps /\ \A i \in DOMAIN maps : i # k => maps'[i].state = maps[i].state
    BY <2>1 DEF SetsState
  <2>5. \A i : Open(i)' <=> Open(i)
    BY <1>4, OpenMoves
  <2> QED  BY <1>2, <2>2, <2>3, <2>4, <2>5
<1>5. ASSUME NEW t \in Threads, BeginUnmap(t) \/ FinishUnmap(t) \/ ThrowFromUnmap(t)
      PROVE  Accounted(c)' /\ Shown(c)'
  <2>1. UNCHANGED <<device, host, truth, staging, kind, maps>>
    BY <1>5 DEF BeginUnmap, FinishUnmap, ThrowFromUnmap, data
  <2>2. SameMaps /\ \A i \in DOMAIN maps : maps'[i].state = maps[i].state
    BY <2>1 DEF SameMaps
  <2>3. 0 \notin DOMAIN maps
    BY DEF Base, MapsType
  <2>4. \A i : Open(i)' <=> Open(i)
    BY <1>5, OpenMoves
  <2> QED  BY <1>2, <2>1, <2>2, <2>3, <2>4
<1> QED  BY <1>1, <1>3, <1>4, <1>5 DEF Calls

LEMMA HeldOpen ==
  ASSUME Base, NEW i \in held
  PROVE  i \in DOMAIN maps /\ Open(i) /\ i \in InUse
BY OpenInUse DEF Open, Base, CallInv, PointersInv

(* The host writes through the only mapping of the cell.                   *)
LEMMA DataHostWrite ==
  ASSUME Base, ExclInv, HostWrite, NEW c \in Cells, Accounted(c), Shown(c)
  PROVE  Accounted(c)' /\ Shown(c)'
<1>1. PICK i \in held, v \in Values : \E d \in maps[i].region :
        /\ maps[i].flags = "W" /\ maps[i].state = "complete" /\ d \in Cells
        /\ truth' = [truth EXCEPT ![d] = v]
        /\ host' = IF kind = "use" THEN [host EXCEPT ![d] = v] ELSE host
        /\ device' = IF kind = "alloc" THEN [device EXCEPT ![d] = v] ELSE device
        /\ staging' = IF kind = "copy" THEN [staging EXCEPT ![i][d] = v] ELSE staging
        /\ UNCHANGED Books /\ MapsType' /\ DataType'
  BY HostWriteIs
<1>2. PICK d \in maps[i].region :
        /\ maps[i].flags = "W" /\ maps[i].state = "complete" /\ d \in Cells
        /\ truth' = [truth EXCEPT ![d] = v]
        /\ host' = IF kind = "use" THEN [host EXCEPT ![d] = v] ELSE host
        /\ device' = IF kind = "alloc" THEN [device EXCEPT ![d] = v] ELSE device
        /\ staging' = IF kind = "copy" THEN [staging EXCEPT ![i][d] = v] ELSE staging
        /\ UNCHANGED Books
  BY <1>1
<1>3. i \in DOMAIN maps /\ Open(i) /\ i \in InUse
  BY HeldOpen
<1>4. UNCHANGED <<kind, maps, unmaps, call, held>>
  BY <1>2 DEF Books
<1>5. \A j : Open(j)' <=> Open(j)
  BY <1>4 DEF Open, Unmapping
<1>6. /\ truth \in [Cells -> Contents] /\ host \in [Cells -> Contents]
      /\ device \in [Cells -> Contents] /\ staging \in Seq([Cells -> Contents])
      /\ DOMAIN staging = DOMAIN maps
  BY DEF Base, DataType, MapsType
<1>7. ASSUME NEW j \in DOMAIN maps
      PROVE  /\ kind = "use" => View(j)' = [host EXCEPT ![d] = v]
             /\ kind = "alloc" => View(j)' = [device EXCEPT ![d] = v]
             /\ kind = "copy" /\ j # i => View(j)' = View(j)
             /\ kind = "copy" /\ j = i => View(j)' = [staging[i] EXCEPT ![d] = v]
  <2>1. kind = "use" => View(j)' = [host EXCEPT ![d] = v]
    BY <1>2, <1>4 DEF View
  <2>2. kind = "alloc" => View(j)' = [device EXCEPT ![d] = v]
    BY <1>2, <1>4 DEF View
  <2>3. ASSUME kind = "copy" PROVE View(j)' = staging'[j] /\ View(j) = staging[j]
    BY <1>4, <2>3 DEF View
  <2>4. kind = "copy" /\ j # i => staging'[j] = staging[j]
    BY <1>2, <1>6
  <2>5. kind = "copy" /\ j = i => staging'[j] = [staging[i] EXCEPT ![d] = v]
    BY <1>2, <1>3, <1>6
  <2> QED  BY <2>1, <2>2, <2>3, <2>4, <2>5
<1>8. kind \in {"use", "alloc", "copy"}
  BY DEF Base, MapsType
<1>9. staging[i] \in [Cells -> Contents]
  BY <1>3, <1>6
<1>10. CASE c = d
  <2>1. Accounted(c)'
    BY <1>2, <1>3, <1>4, <1>5, <1>10 DEF Accounted, Writing, Covers
  <2>2. ASSUME NEW j \in DOMAIN maps, Covers(j, c), Open(j) PROVE j = i
    BY <1>2, <1>3, <1>10, <2>2, OpenInUse, OneWriter DEF Covers, Writing
  <2>3. View(i)'[c] = v
    BY <1>3, <1>6, <1>7, <1>8, <1>9, <1>10
  <2>4. truth'[c] = v
    BY <1>2, <1>6, <1>10
  <2> QED  BY <1>4, <1>5, <2>1, <2>2, <2>3, <2>4 DEF Shown, Covers
<1>11. CASE c # d
  <2>1. device'[c] = device[c] /\ truth'[c] = truth[c]
    BY <1>2, <1>6, <1>11
  <2>2. ASSUME NEW j \in DOMAIN maps PROVE View(j)'[c] = View(j)[c]
    <3>1. CASE kind = "use"
      <4>1. View(j) = host
        BY <3>1 DEF View
      <4> QED  BY <1>6, <1>7, <1>11, <3>1, <4>1
    <3>2. CASE kind = "alloc"
      <4>1. View(j) = device
        BY <3>2 DEF View
      <4> QED  BY <1>6, <1>7, <1>11, <3>2, <4>1
    <3>3. CASE kind = "copy"
      <4>1. View(j) = staging[j]
        BY <3>3 DEF View
      <4> QED  BY <1>7, <1>9, <1>11, <3>3, <4>1
    <3> QED  BY <1>8, <3>1, <3>2, <3>3
  <2> QED  BY <1>4, <1>5, <2>1, <2>2, CellKept DEF Writing, Covers, Recorded
<1> QED  BY <1>10, <1>11

(* A command of the device writes a cell that no open mapping covers.      *)
LEMMA DataDeviceWrite ==
  ASSUME Base, DeviceWrite, NEW c \in Cells, Accounted(c), Shown(c)
  PROVE  Accounted(c)' /\ Shown(c)'
<1>1. PICK d \in Cells, v \in Values :
        /\ \A i \in InUse : d \notin maps[i].region
        /\ device' = [device EXCEPT ![d] = v] /\ truth' = [truth EXCEPT ![d] = v]
        /\ UNCHANGED <<host, staging, Books>>
  BY DeviceWriteIs
<1>2. UNCHANGED <<kind, maps, unmaps, call, held, host, staging>>
  BY <1>1 DEF Books
<1>3. \A j : Open(j)' <=> Open(j)
  BY <1>2 DEF Open, Unmapping
<1>4. device \in [Cells -> Contents] /\ truth \in [Cells -> Contents]
  BY DEF Base, DataType
<1>5. CASE c = d
  <2>1. device'[c] = truth'[c]
    BY <1>1, <1>4, <1>5
  <2>2. \A j \in DOMAIN maps : Open(j) => ~Covers(j, c)
    BY <1>1, <1>5, OpenInUse DEF Covers
  <2> QED  BY <1>2, <1>3, <2>1, <2>2 DEF Accounted, Shown, Covers
<1>6. CASE c # d
  <2>1. device'[c] = device[c] /\ truth'[c] = truth[c]
    BY <1>1, <1>4, <1>6
  <2>2. ASSUME NEW j \in DOMAIN maps PROVE View(j)'[c] = View(j)[c]
    <3>1. CASE kind = "use"
      <4>1. View(j) = host /\ View(j)' = host'
        BY <1>2, <3>1 DEF View
      <4> QED  BY <1>2, <4>1
    <3>2. CASE kind = "alloc"
      <4>1. View(j) = device /\ View(j)' = device'
        BY <1>2, <3>2 DEF View
      <4> QED  BY <2>1, <4>1
    <3>3. CASE kind = "copy"
      <4>1. View(j) = staging[j] /\ View(j)' = staging'[j]
        BY <1>2, <3>3 DEF View
      <4> QED  BY <1>2, <4>1
    <3> QED  BY <3>1, <3>2, <3>3 DEF Base, MapsType
  <2> QED  BY <1>2, <1>3, <2>1, <2>2, CellKept DEF Writing, Covers, Recorded
<1> QED  BY <1>5, <1>6

(* A map that runs finds in the object what was written last, since        *)
(* nothing it covers is mapped for writing.                                *)
LEMMA DataRunMap ==
  ASSUME Base, ExclInv, NEW i \in DOMAIN maps, RunMap(i), NEW c \in Cells, Accounted(c), Shown(c)
  PROVE  Accounted(c)' /\ Shown(c)'
<1>1. /\ maps[i].state = "queued" /\ SetsState(i, "running")
      /\ UNCHANGED <<kind, unmaps, outstanding, call, held, object, undone, raced>>
      /\ UNCHANGED <<device, truth>>
      /\ IF kind = "use"
           THEN \A d \in Cells : host'[d] = IF d \in maps[i].region THEN device[d] ELSE host[d]
           ELSE host' = host
      /\ \A j \in DOMAIN maps : j # i \/ kind # "copy" => staging'[j] = staging[j]
      /\ kind = "copy" => \A d \in maps[i].region : staging'[i][d] = device[d]
  BY RunMapIs
<1>2. \A j : Open(j)' <=> Open(j)
  BY <1>1 DEF Open, Unmapping
<1>3. SameMaps /\ \A j \in DOMAIN maps : maps'[j].state = IF j = i THEN "running" ELSE maps[j].state
  BY <1>1 DEF SetsState
<1>4. i \in InUse
  BY <1>1, InUseIs DEF Ended
<1>5. Covers(i, c) => device[c] = truth[c]
  BY <1>1, <1>4, OpenInUse, OneWriter DEF Accounted
<1>6. Accounted(c)'
  BY <1>1, <1>2, <1>3 DEF Accounted, Writing, Covers, SameMaps
<1>7. ASSUME NEW j \in DOMAIN maps, Covers(j, c), Recorded(j)', Open(j)
      PROVE  View(j)'[c] = truth[c]
  <2>1. j # i => Recorded(j) /\ View(j)[c] = truth[c]
    BY <1>3, <1>7 DEF Recorded, Shown
  <2>2. CASE kind = "use"
    <3>1. View(j)' = host' /\ View(j) = host
      BY <1>1, <2>2 DEF View
    <3> QED  BY <1>1, <1>5, <1>7, <2>1, <2>2, <3>1 DEF Covers
  <2>3. CASE kind = "alloc"
    <3>1. View(j)' = device' /\ View(j) = device
      BY <1>1, <2>3 DEF View
    <3> QED  BY <1>1, <1>5, <1>7, <2>1, <3>1
  <2>4. CASE kind = "copy"
    <3>1. View(j)' = staging'[j] /\ View(j) = staging[j]
      BY <1>1, <2>4 DEF View
    <3> QED  BY <1>1, <1>5, <1>7, <2>1, <2>4, <3>1 DEF Covers
  <2> QED  BY <2>2, <2>3, <2>4 DEF Base, MapsType
<1> QED  BY <1>1, <1>2, <1>3, <1>6, <1>7 DEF Shown, Covers, SameMaps

(* Steps of commands that move no data.                                    *)
LEMMA DataEndMap ==
  ASSUME Base, NEW i \in DOMAIN maps, CompleteMap(i) \/ FailMap(i), NEW c, Accounted(c), Shown(c)
  PROVE  Accounted(c)' /\ Shown(c)'
<1>1. /\ \/ maps[i].state = "running" /\ SetsState(i, "complete")
         \/ maps[i].state = "queued" /\ SetsState(i, "failed")
      /\ UNCHANGED <<kind, unmaps, call, held, data>>
  BY CompleteMapIs, FailMapIs
<1>2. UNCHANGED <<device, host, staging, truth>>
  BY <1>1 DEF data
<1>3. \A j : Open(j)' <=> Open(j)
  BY <1>1 DEF Open, Unmapping
<1>4. \A j \in DOMAIN maps : View(j)' = View(j)
  BY <1>1, <1>2, SameViews DEF Base
<1>5. SameMaps /\ \A j \in DOMAIN maps : Recorded(j)' => Recorded(j)
  BY <1>1 DEF SetsState, Recorded
<1>6. \A j \in DOMAIN maps : maps[j].state = "complete" => maps'[j].state = "complete"
  BY <1>1 DEF SetsState
<1> QED  BY <1>2, <1>3, <1>4, <1>5, <1>6, CellKept DEF SameMaps

LEMMA DataQuiet ==
  ASSUME Base, clReleaseMemObject \/ UNCHANGED vars, NEW c, Accounted(c), Shown(c)
  PROVE  Accounted(c)' /\ Shown(c)'
<1>1. UNCHANGED <<kind, maps, unmaps, call, held, device, host, staging, truth>>
  BY DEF clReleaseMemObject, vars, data
<1>2. \A j : Open(j)' <=> Open(j)
  BY <1>1 DEF Open, Unmapping
<1>3. \A j \in DOMAIN maps : View(j)' = View(j)
  BY <1>1, SameViews DEF Base
<1> QED  BY <1>1, <1>2, <1>3, CellKept DEF Recorded

(* A pointer is given back to one unmap, which leaves the others open.     *)
LEMMA OpenBut ==
  ASSUME Base, Commands, NEW u \in DOMAIN unmaps, unmaps[u].state = "queued",
         NEW g, g = unmaps[u].given, \E s : SetsUnmap(u, s) /\ s # "queued"
  PROVE  ~Open(g)' /\ \A j : j # g => (Open(j)' <=> Open(j))
<1>1. Calm
  BY CommandsAreCalm
<1>2. PICK s : SetsUnmap(u, s) /\ s # "queued"
  OBVIOUS
<1>4. /\ g \notin held /\ \A t \in Threads : Unmapping(t) => call[t].given # g
      /\ \A v \in DOMAIN unmaps : unmaps[v].given = g => v = u
  BY DEF Base, CallInv, PointersInv
<1>5. /\ DOMAIN unmaps' = DOMAIN unmaps /\ unmaps'[u].state # "queued"
      /\ \A v \in DOMAIN unmaps : unmaps'[v].given = unmaps[v].given
      /\ \A v \in DOMAIN unmaps : v # u => unmaps'[v].state = unmaps[v].state
  BY <1>2 DEF SetsUnmap, SameUnmaps
<1>6. held' = held /\ call' = call
  BY <1>1 DEF Calm
<1>7. ~Open(g)'
  BY <1>4, <1>5, <1>6 DEF Open, Unmapping
<1>8. ASSUME NEW j, j # g PROVE Open(j)' <=> Open(j)
  BY <1>5, <1>6, <1>8 DEF Open, Unmapping
<1> QED  BY <1>7, <1>8

(* An unmap copies back what the host sees through the mapping, which is   *)
(* what was written last; for reading it leaves the object as it is.       *)
LEMMA DataRunUnmap ==
  ASSUME Base, ExclInv, OwnInv, NEW u \in DOMAIN unmaps, RunUnmap(u),
         NEW c \in Cells, ~Spoilt(c), Accounted(c), Shown(c)
  PROVE  Accounted(c)' /\ Shown(c)'
<1>1. PICK g : g = unmaps[u].given
  OBVIOUS
<1>2. PICK m \in DOMAIN maps :
        /\ unmaps[u].state = "queued" /\ Ended(maps[g]) /\ m = unmaps[u].map
        /\ SetsUnmap(u, "running") /\ UNCHANGED <<kind, maps, host, truth>>
        /\ IF maps[m].flags = "W" /\ kind # "alloc"
             THEN \A d \in Cells :
                    device'[d] = IF d \in maps[m].region THEN View(m)[d] ELSE device[d]
             ELSE device' = device
        /\ \A j \in DOMAIN maps : j # m => staging'[j] = staging[j]
  BY <1>1, RunUnmapIs
<1>3. ~Open(g)' /\ \A j : j # g => (Open(j)' <=> Open(j))
  <2>1. Commands
    BY DEF Commands
  <2>2. \E s : SetsUnmap(u, s) /\ s # "queued"
    BY <1>2
  <2> QED  BY <1>1, <1>2, <2>1, <2>2, OpenBut
<1>4. Open(g) /\ g \in DOMAIN maps /\ maps[g].ptr = maps[m].ptr
  BY <1>1, <1>2 DEF Open, Base, CallInv, PointersInv, Match
<1>5. Writing(g) \/ Writing(m) => g = m
  BY <1>1, <1>2 DEF OwnInv
<1>6. kind = "copy" => g = m
  BY <1>4, OnePointer DEF Base
<1>7. \A j \in DOMAIN maps : j # g /\ kind = "copy" => staging'[j] = staging[j]
  BY <1>2, <1>6
<1>8. CASE Writing(m) /\ Covers(m, c)
  <2>1. g = m /\ m \in InUse
    BY <1>4, <1>5, <1>8, OpenInUse
  <2>2. maps[m].state = "complete"
    BY <1>2, <1>8, <2>1 DEF Ended, Spoilt, Failed, Writing, Covers
  <2>3. View(m)[c] = truth[c]
    BY <1>4, <1>8, <2>1, <2>2 DEF Shown, Recorded
  <2>4. device'[c] = truth[c]
    <3>1. CASE kind = "alloc"
      <4>1. View(m) = device
        BY <3>1 DEF View
      <4> QED  BY <1>2, <2>3, <3>1, <4>1
    <3>2. CASE kind # "alloc"
      BY <1>2, <1>8, <2>3, <3>2 DEF Writing, Covers
    <3> QED  BY <3>1, <3>2
  <2>5. ASSUME NEW j \in DOMAIN maps, Covers(j, c), Open(j) PROVE j = m
    BY <1>8, <2>1, <2>5, OpenInUse, OneWriter
  <2>6. \A j \in DOMAIN maps : Covers(j, c) => ~Open(j)'
    BY <1>3, <2>1, <2>5
  <2> QED  BY <1>2, <2>4, <2>6 DEF Accounted, Shown, Covers
<1>9. CASE ~(Writing(m) /\ Covers(m, c))
  <2>1. device'[c] = device[c] /\ truth'[c] = truth[c]
    BY <1>2, <1>9 DEF Writing, Covers
  <2>2. \A j \in DOMAIN maps : Writing(j) /\ Covers(j, c) => j # g
    BY <1>5, <1>9
  <2>3. ASSUME NEW j \in DOMAIN maps, j # g PROVE View(j)'[c] = View(j)[c]
    <3>1. CASE kind = "use"
      <4>1. View(j) = host /\ View(j)' = host'
        BY <1>2, <3>1 DEF View
      <4> QED  BY <1>2, <4>1
    <3>2. CASE kind = "alloc"
      <4>1. View(j) = device /\ View(j)' = device'
        BY <1>2, <3>2 DEF View
      <4> QED  BY <2>1, <4>1
    <3>3. CASE kind = "copy"
      <4>1. View(j) = staging[j] /\ View(j)' = staging'[j]
        BY <1>2, <3>3 DEF View
      <4> QED  BY <1>7, <2>3, <3>3, <4>1
    <3> QED  BY <3>1, <3>2, <3>3 DEF Base, MapsType
  <2> QED  BY <1>2, <1>3, <2>1, <2>2, <2>3, CellKept DEF Writing, Covers, Recorded
<1> QED  BY <1>8, <1>9

(* An unmap that fails spoils what was mapped for writing.                 *)
LEMMA DataEndUnmap ==
  ASSUME Base, OwnInv, NEW u \in DOMAIN unmaps, EndUnmap(u),
         NEW c, ~Spoilt(c)', Accounted(c), Shown(c)
  PROVE  Accounted(c)' /\ Shown(c)'
<1>1. PICK g : g = unmaps[u].given
  OBVIOUS
<1>2. /\ \/ unmaps[u].state = "running" /\ SetsUnmap(u, "complete")
         \/ unmaps[u].state = "queued" /\ SetsUnmap(u, "failed")
      /\ UNCHANGED <<kind, maps, call, held, data>>
  BY EndUnmapIs
<1>3. UNCHANGED <<device, host, staging, truth>>
  BY <1>2 DEF data
<1>4. \A j \in DOMAIN maps : View(j)' = View(j)
  BY <1>2, <1>3, SameViews DEF Base
<1>5. \A j : Open(j)' => Open(j)
  BY CommandsClose DEF Commands
<1>6. ASSUME NEW j \in DOMAIN maps, Writing(j), Covers(j, c), Open(j) PROVE Open(j)'
  <2>1. CASE unmaps[u].state = "running"
    BY <1>2, <1>6, <2>1 DEF Open, SetsUnmap, SameUnmaps, Unmapping
  <2>2. CASE unmaps[u].state = "queued" /\ SetsUnmap(u, "failed")
    <3>1. j = g => unmaps[u].map = j
      BY <1>1, <1>6 DEF OwnInv
    <3>2. j = g => Failed(j)'
      BY <2>2, <3>1 DEF Failed, SetsUnmap, SameUnmaps
    <3>3. j # g
      BY <1>2, <1>6, <3>2 DEF Spoilt, Writing, Covers
    <3>4. Commands
      BY DEF Commands
    <3>5. \E s : SetsUnmap(u, s) /\ s # "queued"
      BY <2>2
    <3> QED  BY <1>1, <1>6, <2>2, <3>3, <3>4, <3>5, OpenBut
  <2> QED  BY <1>2, <2>1, <2>2
<1> QED  BY <1>2, <1>3, <1>4, <1>5, <1>6, CellKept DEF Recorded

LEMMA DataStep ==
  ASSUME Base, ExclInv, OwnInv, DataInv, [Next]_vars
  PROVE  DataInv'
<1> SUFFICES ASSUME NEW c \in Cells, ~Spoilt(c)' PROVE Accounted(c)' /\ Shown(c)'
  BY DEF DataInv
<1>1. ~Spoilt(c)
  BY SpoiltStays
<1>2. Accounted(c) /\ Shown(c)
  BY <1>1 DEF DataInv
<1>3. CASE Calls
  BY <1>2, <1>3, DataInCalls
<1>4. CASE Commands
  BY <1>1, <1>2, <1>4, DataHostWrite, DataDeviceWrite, DataRunMap, DataEndMap, DataQuiet,
     DataRunUnmap, DataEndUnmap DEF Commands
<1> QED  BY <1>3, <1>4, CallsOrCommands

CoherentInv == raced = {} => OwnInv /\ DataInv

LEMMA CoherentInit ==
  ASSUME Init
  PROVE  ExclInv /\ CoherentInv
<1>1. maps = <<>> /\ unmaps = <<>> /\ outstanding = <<>> /\ \A t \in Threads : call[t] = Idle
  BY DEF Init
<1>2. InUse = {}
  BY <1>1 DEF InUse
<1>3. ExclInv
  BY <1>2 DEF ExclInv
<1>4. OwnInv
  BY <1>1 DEF OwnInv, Unmapping, Idle
<1>5. \A c \in Cells : Accounted(c) /\ Shown(c)
  BY <1>1 DEF Init, Accounted, Shown
<1> QED  BY <1>3, <1>4, <1>5 DEF CoherentInv, DataInv

LEMMA CoherentStep ==
  ASSUME Base, OnceInv, ExclInv, CoherentInv, [Next]_vars
  PROVE  ExclInv' /\ CoherentInv'
BY RacedStays, ExclStep, OwnStep, DataStep DEF OnceInv, CoherentInv

LEMMA CellsCoherent ==
  ASSUME Base, ExclInv, CoherentInv
  PROVE  MappingsCoherent
<1> SUFFICES ASSUME raced = {}, NEW c \in Cells, ~Spoilt(c)
             PROVE  /\ (\A i \in InUse : c \in maps[i].region => maps[i].flags = "R") =>
                         device[c] = truth[c]
                    /\ \A i \in held : maps[i].state = "complete" /\ c \in maps[i].region =>
                         View(i)[c] = truth[c]
  BY DEF MappingsCoherent
<1>1. Accounted(c) /\ Shown(c)
  BY DEF CoherentInv, DataInv
<1>2. ASSUME \A i \in InUse : c \in maps[i].region => maps[i].flags = "R" PROVE device[c] = truth[c]
  BY <1>1, <1>2, OpenInUse DEF Accounted, Writing, Covers
<1>3. ASSUME NEW i \in held, maps[i].state = "complete", c \in maps[i].region
      PROVE  View(i)[c] = truth[c]
  BY <1>1, <1>3, HeldOpen DEF Shown, Covers, Recorded
<1> QED  BY <1>2, <1>3

(* Mapping never loses or mixes up what host and device write, for any     *)
(* threads, cells, regions and values and however the object is backed:    *)
(* Map and Unmap together, with look-ups, exceptions and failed commands   *)
(* in between, as long as no two calls find the same map.                  *)
THEOREM MappingsStayCoherent == Spec => []MappingsCoherent
<1>1. Init => Base /\ HolderInv /\ OnceInv /\ ExclInv /\ CoherentInv
  BY BaseInit, OnceInit, CoherentInit
<1>2. Base /\ HolderInv /\ OnceInv /\ ExclInv /\ CoherentInv /\ [Next]_vars
        => (Base /\ HolderInv /\ OnceInv /\ ExclInv /\ CoherentInv)'
  BY BaseStep, HolderStep, OnceStep, CoherentStep
<1>3. Base /\ ExclInv /\ CoherentInv => MappingsCoherent
  BY CellsCoherent
<1> QED  BY <1>1, <1>2, <1>3, PTL DEF Spec

=============================================================================
