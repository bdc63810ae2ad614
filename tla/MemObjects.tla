----------------------------- MODULE MemObjects -----------------------------
(***************************************************************************)
(* The creation of memory objects (resources.cpp): buffers, sub-buffers,   *)
(* images and images over a buffer.  What is kept is what later commands   *)
(* depend on: the access the flags give, where the object lies in the      *)
(* storage of its root, its extents and the layout of its host memory.     *)
(*                                                                         *)
(* A refused call changes nothing and is not a step.  Sizes are in bytes   *)
(* for buffers and in texels for images.                                   *)
(***************************************************************************)
EXTENDS Integers, Sequences, FiniteSets, SequencesExt

CONSTANTS
  FlagSets,      \* the sets of flags an application passes
  Sizes,         \* buffer sizes and sub-buffer sizes it asks for
  Origins,       \* sub-buffer origins it asks for
  Extents,       \* <<image_width, image_height, image_depth>> it asks for
  ArraySizes,    \* image_array_size it asks for
  HostPitches,   \* image_row_pitch, and multiples for image_slice_pitch
  Formats,       \* bytes of a texel
  ImageTypes,    \* image types it asks for
  Alignment,     \* D3D12_CONSTANT_BUFFER_DATA_PLACEMENT_ALIGNMENT
  MaxAxis,       \* D3D12_REQ_TEXTURE..._DIMENSION
  MaxSize,       \* UINT_MAX, the largest buffer
  MaxObjects     \* bound: objects that exist

ASSUME MemObjectsAssumption ==
  /\ Extents \subseteq Nat \X Nat \X Nat
  /\ Sizes \subseteq Nat /\ Origins \subseteq Nat /\ ArraySizes \subseteq Nat
  /\ HostPitches \subseteq Nat /\ Formats \subseteq Nat \ {0}
  /\ Alignment \in Nat \ {0} /\ {MaxAxis, MaxSize} \subseteq Nat /\ MaxObjects \in Nat

VARIABLE objects    \* the memory objects, in the order they were created

DeviceAccess == {"READ_WRITE", "WRITE_ONLY", "READ_ONLY"}
HostAccess   == {"HOST_WRITE_ONLY", "HOST_READ_ONLY", "HOST_NO_ACCESS"}
HostPtr      == {"USE_HOST_PTR", "ALLOC_HOST_PTR", "COPY_HOST_PTR"}
MemFlags     == DeviceAccess \cup HostAccess \cup HostPtr

Arrays  == {"IMAGE1D_ARRAY", "IMAGE2D_ARRAY"}
AtLeast1(n) == IF n = 0 THEN 1 ELSE n

AtMostOne(S) == Cardinality(S) <= 1
Buffers == {i \in DOMAIN objects : objects[i].type = "BUFFER"}
Images  == DOMAIN objects \ Buffers

-----------------------------------------------------------------------------
ValidateMemFlagsBase(flags) ==
  /\ flags \subseteq MemFlags
  /\ AtMostOne(flags \cap DeviceAccess)
  /\ AtMostOne(flags \cap HostAccess)
  /\ "USE_HOST_PTR" \in flags => flags \cap HostPtr = {"USE_HOST_PTR"}

(* A host pointer comes exactly with the flags that need one.              *)
ValidateMemFlags(flags, haveHostPtr) ==
  /\ haveHostPtr = (flags \cap {"USE_HOST_PTR", "COPY_HOST_PTR"} # {})
  /\ ValidateMemFlagsBase(flags)

(* An object over a buffer takes over the buffer's host pointer flags and  *)
(* the access it does not name, and may not name more.                     *)
AddsAccess(flags, of) ==
  \/ "WRITE_ONLY" \in of /\ flags \cap {"READ_ONLY", "READ_WRITE"} # {}
  \/ "READ_ONLY" \in of /\ flags \cap {"WRITE_ONLY", "READ_WRITE"} # {}
  \/ "HOST_WRITE_ONLY" \in of /\ "HOST_READ_ONLY" \in flags
  \/ "HOST_READ_ONLY" \in of /\ "HOST_WRITE_ONLY" \in flags
  \/ "HOST_NO_ACCESS" \in of /\ flags \cap {"HOST_READ_ONLY", "HOST_WRITE_ONLY"} # {}

Inherit(flags, of, mask) == IF flags \cap mask = {} THEN of \cap mask ELSE {}

(* Mutant: only device access is compared.                                 *)
ValidateDeviceAccessOnly(flags, of) ==
  /\ flags \cap HostPtr = {}
  /\ "WRITE_ONLY" \in of => flags \cap {"READ_ONLY", "READ_WRITE"} = {}
  /\ "READ_ONLY" \in of => flags \cap {"WRITE_ONLY", "READ_WRITE"} = {}

ValidateMemFlagsForBufferReference(flags, of) ==
  flags \cap HostPtr = {} /\ ~AddsAccess(flags, of)

FlagsOverBuffer(flags, of) ==
  flags \cup (of \cap HostPtr) \cup Inherit(flags, of, DeviceAccess)
        \cup Inherit(flags, of, HostAccess)

-----------------------------------------------------------------------------
(* A buffer's description: everything but its width is zero.  storage is   *)
(* the object whose D3D12 resources it uses, itself for a new one.         *)
GetBufferDesc(type, width, flags, bytes) ==
  [type |-> type, width |-> width, height |-> 0, depth |-> 0, array |-> 0,
   rowPitch |-> 0, slicePitch |-> 0, bytes |-> bytes, flags |-> flags,
   parent |-> 0, storage |-> Len(objects) + 1, offset |-> 0, initial |-> 0]

(* The constructor of an object over buffer b.                             *)
Over(b, type, width, flags, origin, bytes) ==
  [GetBufferDesc(type, width, FlagsOverBuffer(flags, objects[b].flags), bytes)
     EXCEPT !.parent = b, !.storage = objects[b].storage,
            !.offset = origin + objects[b].offset]

(* clCreateBuffer, and the constructor, which copies the host's data.      *)
CreateBuffer(flags, size, haveHostPtr) ==
  /\ Len(objects) < MaxObjects
  /\ size \in 1 .. MaxSize
  /\ ValidateMemFlags(flags, haveHostPtr)
  /\ objects' = Append(objects,
       [GetBufferDesc("BUFFER", size, flags, 1) EXCEPT
          !.initial = IF haveHostPtr THEN size ELSE 0])

(* clCreateSubBuffer; the buffer may be a sub-buffer itself.               *)
CreateSubBuffer(b, flags, origin, size) ==
  /\ Len(objects) < MaxObjects
  /\ ValidateMemFlagsForBufferReference(flags, objects[b].flags)
  /\ size # 0 /\ origin % Alignment = 0
  /\ origin + size <= objects[b].width
  /\ objects' = Append(objects,
       Over(b, "BUFFER", size, flags, origin, 1))

(* clCreateImage for IMAGE1D_BUFFER.                                       *)
CreateImage1DBuffer(b, flags, width, bytes) ==
  /\ Len(objects) < MaxObjects
  /\ ValidateMemFlags(flags, FALSE)
  /\ ValidateMemFlagsForBufferReference(flags, objects[b].flags)
  /\ bytes * width <= objects[b].width
  /\ objects' = Append(objects,
       Over(b, "IMAGE1D_BUFFER", width, flags, 0, bytes))

-----------------------------------------------------------------------------
(* The checks of clCreateImage on the extents of a texture ...             *)
ExtentsInRange(d) ==
  /\ d.width <= MaxAxis
  /\ d.type \in {"IMAGE2D", "IMAGE2D_ARRAY", "IMAGE3D"} => d.height <= MaxAxis
  /\ d.type = "IMAGE3D" => d.depth <= MaxAxis
  /\ d.type \in Arrays => d.array \in 1 .. MaxAxis

(* ... on its pitches, which only come with host memory ...                *)
PitchesValid(d, haveHostPtr) ==
  LET least == d.bytes * d.width
      row   == IF d.rowPitch = 0 THEN least ELSE d.rowPitch
  IN  /\ d.rowPitch # 0 =>
           haveHostPtr /\ d.rowPitch >= least /\ d.rowPitch % d.bytes = 0
      /\ d.type \in Arrays \cup {"IMAGE3D"} /\ d.slicePitch # 0 =>
           /\ haveHostPtr
           /\ d.slicePitch >= row * AtLeast1(d.height)
           /\ d.slicePitch % row = 0

(* ... and the description it keeps: extents the type does not have are    *)
(* cleared and pitches are filled in.                                      *)
Normalized(d) ==
  LET row == IF d.rowPitch = 0 THEN d.bytes * d.width ELSE d.rowPitch IN
  [d EXCEPT !.height = IF d.type \in {"IMAGE1D", "IMAGE1D_ARRAY"} THEN 0 ELSE @,
            !.depth = IF d.type = "IMAGE3D" THEN @ ELSE 0,
            !.array = IF d.type \in Arrays THEN @ ELSE 0,
            !.rowPitch = row,
            !.slicePitch = IF d.type \notin Arrays \cup {"IMAGE3D"} THEN 0
                           ELSE IF @ = 0 THEN row * AtLeast1(d.height) ELSE @]

(* What the constructor copies from the host: Height and DepthOrArraySize  *)
(* are those of the D3D12 description.                                     *)
InitialDataSize(d, height) ==
  d.bytes * d.width
    + Normalized(d).rowPitch * (AtLeast1(height) - 1)
    + Normalized(d).slicePitch *
        ((IF d.type = "IMAGE3D" THEN AtLeast1(d.depth)
          ELSE IF d.type \in Arrays THEN d.array ELSE 1) - 1)

(* clCreateImage for a texture.                                            *)
CreateImage(d, haveHostPtr) ==
  /\ Len(objects) < MaxObjects
  /\ ValidateMemFlags(d.flags, haveHostPtr)
  /\ ExtentsInRange(d) /\ PitchesValid(d, haveHostPtr)
  /\ objects' = Append(objects,
       [Normalized(d) EXCEPT
          !.initial = IF haveHostPtr THEN InitialDataSize(d, d.height) ELSE 0])

ImageDesc(type, flags, bytes, e, n, pitch, slices) ==
  [type |-> type, width |-> e[1], height |-> e[2], depth |-> e[3],
   array |-> n, rowPitch |-> pitch, slicePitch |-> pitch * slices,
   bytes |-> bytes, flags |-> flags, parent |-> 0,
   storage |-> Len(objects) + 1, offset |-> 0, initial |-> 0]

ObjectsInit == objects = <<>>

ObjectsNext ==
  \/ \E flags \in FlagSets, size \in Sizes, ptr \in BOOLEAN :
       CreateBuffer(flags, size, ptr)
  \/ \E b \in Buffers, flags \in FlagSets, origin \in Origins, size \in Sizes :
       CreateSubBuffer(b, flags, origin, size)
  \/ \E b \in Buffers, flags \in FlagSets, width \in Sizes, f \in Formats :
       CreateImage1DBuffer(b, flags, width, f)
  \/ \E type \in ImageTypes, flags \in FlagSets, f \in Formats, e \in Extents,
        n \in ArraySizes, pitch \in HostPitches, slices \in {0, 2},
        ptr \in BOOLEAN :
       CreateImage(ImageDesc(type, flags, f, e, n, pitch, slices), ptr)

ObjectsSpec == ObjectsInit /\ [][ObjectsNext]_objects

-----------------------------------------------------------------------------
(* What the host and kernels may do with an object: what the flags do not  *)
(* take away.                                                              *)
HostMay(o) ==
  {"read", "write"} \ UNION {
    CASE f = "HOST_NO_ACCESS"  -> {"read", "write"}
      [] f = "HOST_READ_ONLY"  -> {"write"}
      [] f = "HOST_WRITE_ONLY" -> {"read"}
      [] OTHER -> {} : f \in o.flags}

DeviceMay(o) ==
  {"read", "write"} \ ((IF "READ_ONLY" \in o.flags THEN {"write"} ELSE {})
                 \cup (IF "WRITE_ONLY" \in o.flags THEN {"read"} ELSE {}))

\* An object over a buffer lies in it, and so in the storage of the root, and
\* what the constructor copied from the host has every texel an upload reads.
ObjectsInsideStorage ==
  \A o \in ToSet(objects) :
    /\ o.parent # 0 =>
         LET p == objects[o.parent] IN
         /\ p.offset <= o.offset
         /\ o.offset + o.width * o.bytes <= p.offset + p.width
    /\ o.initial # 0 =>
         o.bytes * o.width
           + o.rowPitch * (AtLeast1(o.height) - 1)
           + o.slicePitch * (AtLeast1(o.depth) * AtLeast1(o.array) - 1)
           <= o.initial

(* An object over a buffer, however many lie between, gives neither the    *)
(* host nor a kernel access that the buffer was created without            *)
(* (ValidateMemFlagsForBufferReference), nor memory outside of it.         *)
NoAccessGained ==
  /\ ObjectsInsideStorage
  /\ \A o \in ToSet(objects) : o.parent # 0 =>
       LET p == objects[o.parent] IN
       HostMay(o) \subseteq HostMay(p) /\ DeviceMay(o) \subseteq DeviceMay(p)
=============================================================================
