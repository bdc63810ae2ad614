------------------------------ MODULE Transfers ------------------------------
(***************************************************************************)
(* The commands that move data (resource_tasks.cpp): what the entry points *)
(* accept, the arguments they give to a task, and which cell each task     *)
(* reads for each cell it writes when it is recorded.                      *)
(*                                                                         *)
(* A cell of a buffer is a byte <<storage, address>>, a cell of a texture  *)
(* is a texel <<storage, slice, z, y, x>>, a byte of the application's     *)
(* memory is <<"host", address>>, its address relative to the pointer of   *)
(* the call.  A texel stands for its first byte where one meets bytes.     *)
(* Textures have one mip level and were not imported from GL; a region has *)
(* no zero in it unless an entry point tests for that.                     *)
(***************************************************************************)
EXTENDS MemObjects

CONSTANTS
  Points,       \* origins and offsets <<x, y, z>>
  HostPoints,   \* host offsets of the rectangle commands
  Regions,      \* regions <<width, height, depth>>
  Pitches,      \* <<row pitch, slice pitch>> of an image command's host memory
  Layouts,      \* pairs of them, for the two sides of a rectangle
  Patterns,     \* pattern sizes of a fill
  PitchUnit,    \* D3D12_TEXTURE_DATA_PITCH_ALIGNMENT
  PlaceUnit     \* D3D12_TEXTURE_DATA_PLACEMENT_ALIGNMENT

VARIABLES
  phase,        \* "idle", "queued", "done"
  call,         \* the accepted call
  task,         \* the task's m_Args
  hostVersion,  \* how often the application wrote its memory since the call
  captured,     \* the version of it that the task has copied, or none
  moved         \* {<<cell written, cell read>>} when it was recorded

transferVars == <<phase, call, task, hostVersion, captured, moved>>

None == [op |-> "none"]
NotYet == -1

Cells(r) == (0 .. r[1] - 1) \X (0 .. r[2] - 1) \X (0 .. r[3] - 1)
Plus(p, c) == <<p[1] + c[1], p[2] + c[2], p[3] + c[3]>>
At(p, row, slice) == p[3] * slice + p[2] * row + p[1]
Byte(i, a) == <<objects[i].storage, a>>
Host(a) == <<"host", a>>
AlignUp(n, unit) == ((n + unit - 1) \div unit) * unit
Positive(r) == \A k \in 1 .. 3 : r[k] # 0
Default(pitch, least) == IF pitch = 0 THEN least ELSE pitch

-----------------------------------------------------------------------------
(* ProcessImageDimensions: which coordinates an image type has ...         *)
ArrayAxis(o) ==
  CASE o.type = "IMAGE1D_ARRAY" -> 2 [] o.type = "IMAGE2D_ARRAY" -> 3 [] OTHER -> 0
HasRows(o)   == o.type \in {"IMAGE2D", "IMAGE2D_ARRAY", "IMAGE3D"}
HasDepth(o)  == o.type = "IMAGE3D"

AxisSize(o, k) ==
  CASE k = ArrayAxis(o) -> o.array
    [] k = 2 /\ HasRows(o) -> o.height
    [] k = 3 /\ HasDepth(o) -> o.depth
    [] OTHER -> 1

(* ... which must hold the region, while the others are 0 and 1.  The      *)
(* first coordinate is not looked at.                                      *)
ProcessImageDimensions(o, origin, r) ==
  /\ o.type # "BUFFER"
  /\ \A k \in 2 .. 3 : origin[k] + r[k] <= AxisSize(o, k)

(* What it fills in: slices, rows and depth of the box.                    *)
Box(o, origin, r) ==
  LET a == ArrayAxis(o) IN
  [first  |-> IF a = 0 THEN 0 ELSE origin[a],
   slices |-> IF a = 0 THEN 1 ELSE r[a],
   origin |-> <<origin[1], IF HasRows(o) THEN origin[2] ELSE 0,
                IF HasDepth(o) THEN origin[3] ELSE 0>>,
   region |-> <<r[1], IF HasRows(o) THEN r[2] ELSE 1,
                IF HasDepth(o) THEN r[3] ELSE 1>>]

Texel(i, slice, p) == <<objects[i].storage, slice, p[3], p[2], p[1]>>

(* The resource of an image over a buffer is the buffer: a box in it is    *)
(* one of bytes.                                                           *)
InResource(i, slice, p) ==
  IF objects[i].type = "IMAGE1D_BUFFER" THEN Byte(i, p[1]) ELSE Texel(i, slice, p)

-----------------------------------------------------------------------------
(* MemWriteFillTask: rows of a buffer ...                                  *)
WriteRows(t) ==
  {<<Byte(t.obj, objects[t.obj].offset + At(Plus(t.dst, c), t.dstRow, t.dstSlice)),
     Host(At(Plus(t.src, c), t.row, t.slice))>> : c \in Cells(t.region)}

(* ... boxes of a texture, slice by slice ...                              *)
WriteBoxes(t) ==
  {<<InResource(t.obj, t.first + i, Plus(t.dst, c)),
     Host((i + c[3]) * t.slice + c[2] * t.row + c[1] * objects[t.obj].bytes)>>
     : i \in 0 .. t.slices - 1, c \in Cells(t.region)}

(* ... or the bytes of a fill, whose pattern repeats; a sub-buffer's place *)
(* is in the argument and is added again.                                  *)
FillRow(t) ==
  {<<Byte(t.obj, objects[t.obj].offset + t.dst[1] + k), Host(k % t.pattern)>>
     : k \in 0 .. t.region[1] - 1}

(* FillImageTask                                                           *)
FillBoxes(t) ==
  {<<InResource(t.obj, t.first + i, Plus(t.dst, c)), Host(0)>>
     : i \in 0 .. t.slices - 1, c \in Cells(t.region)}

(* CopyBits: which byte of mapped memory each byte of the host's comes     *)
(* from; the source origin only counts with a host offset.                 *)
CopyBits(t, origin) ==
  LET from == IF t.dst = <<0, 0, 0>> THEN <<0, 0, 0>> ELSE origin IN
  {<<At(Plus(t.dst, c), t.row, t.slice), Plus(from, c)>> : c \in Cells(t.region)}

(* MemReadTask of a buffer.  Memory the host can reach is read in place,   *)
(* from its start; otherwise a copy is made, of the region for a plain     *)
(* read and of the whole buffer for a rectangle.                           *)
ReadRows(t) ==
  LET o == objects[t.obj]
      InPlace(p) == Byte(t.obj, At(p, t.srcRow, t.srcSlice))
      Whole(p)   == Byte(t.obj, o.offset + At(p, t.srcRow, t.srcSlice))
      Region(p)  == Byte(t.obj, o.offset + t.src[1] + p[1])
  IN  CASE "ALLOC_HOST_PTR" \in o.flags ->
             {<<Host(b[1]), InPlace(b[2])>> : b \in CopyBits(t, t.src)}
        [] t.rect  -> {<<Host(b[1]), Whole(b[2])>> : b \in CopyBits(t, t.src)}
        [] OTHER   -> {<<Host(b[1]), Region(b[2])>> : b \in CopyBits(t, <<0, 0, 0>>)}

(* MemReadTask of an image: without a copy the slices are counted from the *)
(* first one and all land in the same place.                               *)
ReadBoxes(t) ==
  LET o == objects[t.obj]
      To(i, c) == Host(i * t.slice + c[3] * t.slice + c[2] * t.row + c[1] * o.bytes)
  IN  IF "ALLOC_HOST_PTR" \in o.flags
        THEN {<<To(0, c), InResource(t.obj, i, Plus(t.src, c))>>
                : i \in 0 .. t.slices - 1, c \in Cells(t.region)}
        ELSE {<<To(i, c), InResource(t.obj, t.first + i, Plus(t.src, c))>>
                : i \in 0 .. t.slices - 1, c \in Cells(t.region)}

-----------------------------------------------------------------------------
(* CopyResourceTask, for buffers ...                                       *)
CopyBytes(t) ==
  {<<Byte(t.dest, t.dst[1] + k), Byte(t.source, t.src[1] + k)>>
     : k \in 0 .. t.region[1] - 1}

ImageTypesCopyCompatible(a, b) ==
  \/ a = b
  \/ {a, b} \subseteq {"IMAGE1D", "IMAGE1D_ARRAY", "IMAGE1D_BUFFER"}
  \/ {a, b} \subseteq {"IMAGE2D", "IMAGE2D_ARRAY"}

(* ... and for textures, slice by slice, or through a temporary texture    *)
(* that has one slice and no depth.                                        *)
CopyTexels(t) ==
  LET direct == ImageTypesCopyCompatible(objects[t.source].type, objects[t.dest].type)
      slices == IF direct THEN t.slices ELSE 1
      region == IF direct THEN t.region ELSE [t.region EXCEPT ![3] = 1]
  IN  {<<InResource(t.dest, t.firstDst + i, Plus(t.dst, c)),
         InResource(t.source, t.firstSrc + i, Plus(t.src, c))>>
         : i \in 0 .. slices - 1, c \in Cells(region)}

(* Mutant: the pitches change places.                                      *)
CopyRowsSwapped(t) ==
  {<<Byte(t.dest, objects[t.dest].offset + At(Plus(t.dst, c), t.srcRow, t.srcSlice)),
     Byte(t.source, objects[t.source].offset + At(Plus(t.src, c), t.dstRow, t.dstSlice))>>
     : c \in Cells(t.region)}

(* CopyBufferRectTask: row by row.                                         *)
CopyRows(t) ==
  {<<Byte(t.dest, objects[t.dest].offset + At(Plus(t.dst, c), t.dstRow, t.dstSlice)),
     Byte(t.source, objects[t.source].offset + At(Plus(t.src, c), t.srcRow, t.srcSlice))>>
     : c \in Cells(t.region)}

(* The constructor of CopyBufferAndImageTask: rows that D3D12 cannot       *)
(* address, and slices that it cannot, go through a temporary buffer.      *)
NeedsTemp(t) ==
  \/ t.pitch # AlignUp(t.pitch, PitchUnit)
  \/ t.slices > 1 /\ (t.pitch * t.region[2]) % PlaceUnit # 0

(* Its buffer's address of a texel, which only depends on the offset of    *)
(* the call when there is a temporary buffer; that one is filled, or       *)
(* emptied, by rows of Width bytes and without regard to slices.           *)
BufferAndImage(t) ==
  LET f == objects[t.image].bytes
      base == objects[t.buffer].offset + (IF NeedsTemp(t) THEN t.at ELSE 0)
      Address(i, c) == base + (i * t.region[2] + c[3] * t.region[2] + c[2]) * t.pitch
                            + c[1] * f
      Reached(i, c) == NeedsTemp(t) => i = 0 /\ c[1] * f + f <= t.region[1]
  IN  {<<Texel(t.image, t.first + i, Plus(t.origin, c)), Byte(t.buffer, Address(i, c))>>
         : <<i, c>> \in {x \in (0 .. t.slices - 1) \X Cells(t.region) :
                           Reached(x[1], x[2])}}

Swapped(pairs) == {<<p[2], p[1]>> : p \in pairs}

RecordImpl(t) ==
  CASE t.op \in {"WriteBuffer", "WriteBufferRect"} -> WriteRows(t)
    [] t.op = "FillBuffer" -> FillRow(t)
    [] t.op = "WriteImage" -> WriteBoxes(t)
    [] t.op = "FillImage"  -> FillBoxes(t)
    [] t.op \in {"ReadBuffer", "ReadBufferRect"} -> ReadRows(t)
    [] t.op = "ReadImage"  -> ReadBoxes(t)
    [] t.op = "CopyBuffer" -> CopyBytes(t)
    [] t.op = "CopyImage"  -> CopyTexels(t)
    [] t.op = "CopyBufferRect" -> CopyRows(t)
    [] t.op = "CopyBufferToImage" -> BufferAndImage(t)
    [] t.op = "CopyImageToBuffer" -> Swapped(BufferAndImage(t))

-----------------------------------------------------------------------------
(* An entry point whose checks passed creates the task and queues it.  c   *)
(* is what was asked for: region cells between two places; copies says     *)
(* whether the constructor copies from the application's memory.           *)
Enqueue(c, t, copies) ==
  /\ phase' = "queued"
  /\ call' = [c EXCEPT !.early = copies] /\ task' = t
  /\ hostVersion' = 0
  /\ captured' = IF copies THEN 0 ELSE NotYet
  /\ UNCHANGED <<objects, moved>>

Request(op, r, to, from) ==
  [op |-> op, region |-> r, to |-> to, from |-> from, early |-> FALSE]
InBuffer(b, at, row, slice) ==
  [in |-> "buffer", obj |-> b, at |-> at, row |-> row, slice |-> slice]
InImage(i, at) == [in |-> "image", obj |-> i, at |-> at]
InHost(at, row, slice) == [in |-> "host", at |-> at, row |-> row, slice |-> slice]
InHostImage(i, row, slice) ==
  [in |-> "host image", obj |-> i, row |-> row, slice |-> slice]
Packed(b, i, at, r) == [in |-> "packed", obj |-> b, image |-> i, at |-> at, region |-> r]
Pattern(n) == [in |-> "pattern", size |-> n]

(* The checks of a rectangle against its buffer ...                        *)
RectFits(o, at, r, row, slice) ==
  /\ row \in r[1] .. o.width
  /\ slice >= row * r[2] /\ (slice > o.width => slice = row * r[2])
  /\ (at[3] + r[3] - 1) * slice + (at[2] + r[2] - 1) * row + at[1] + r[1] <= o.width

(* ... and of the host's pitches.                                          *)
PitchesFit(r, row, slice) == row >= r[1] /\ slice >= row * r[2]

Rows(p, r) == Default(p[1], r[1])
Slices(p, r) == Default(p[2], Rows(p, r) * r[2])

clEnqueueWriteBufferRectImpl(op, b, blocking, at, host, r, p, hp) ==
  /\ RectFits(objects[b], at, r, Rows(p, r), Slices(p, r))
  /\ PitchesFit(r, Rows(hp, r), Slices(hp, r))
  /\ objects[b].flags \cap {"HOST_READ_ONLY", "HOST_NO_ACCESS"} = {}
  /\ Enqueue(Request(op, r, InBuffer(b, at, Rows(p, r), Slices(p, r)),
                     InHost(host, Rows(hp, r), Slices(hp, r))),
             [op |-> op, obj |-> b, dst |-> at, src |-> host, region |-> r,
              dstRow |-> Rows(p, r), dstSlice |-> Slices(p, r),
              row |-> Rows(hp, r), slice |-> Slices(hp, r)], blocking)

(* A plain write or read is a rectangle of one row.                        *)
Row(n) == <<n, 1, 1>>
Start == <<0, 0, 0>>
NoPitch == <<0, 0>>

clEnqueueWriteBuffer(b, blocking, offset, size) ==
  clEnqueueWriteBufferRectImpl("WriteBuffer", b, blocking, <<offset, 0, 0>>,
                               Start, Row(size), NoPitch, NoPitch)

clEnqueueFillBuffer(b, pattern, offset, size) ==
  /\ offset + size <= objects[b].width
  /\ size % pattern = 0 /\ offset % pattern = 0
  /\ Enqueue(Request("FillBuffer", Row(size), InBuffer(b, <<offset, 0, 0>>, size, size),
                     Pattern(pattern)),
             [op |-> "FillBuffer", obj |-> b, pattern |-> pattern,
              dst |-> <<offset + objects[b].offset, 0, 0>>, region |-> Row(size)],
             TRUE)

(* The application keeps the first coordinate in the image: of these entry *)
(* points only clEnqueueFillImage looks.                                   *)
ImageRowPitch(i, p, r) == Default(p[1], objects[i].bytes * r[1])
ImageSlicePitch(i, p, r) ==
  Default(p[2], ImageRowPitch(i, p, r) * Box(objects[i], Start, r).region[2])
ImagePitchesFit(i, p, r) ==
  /\ ImageRowPitch(i, p, r) >= objects[i].bytes * r[1]
  /\ ImageSlicePitch(i, p, r)
       >= ImageRowPitch(i, p, r) * Box(objects[i], Start, r).region[2]

clEnqueueWriteImage(i, blocking, origin, r, p) ==
  LET box == Box(objects[i], origin, r) IN
  /\ objects[i].flags \cap {"HOST_READ_ONLY", "HOST_NO_ACCESS"} = {}
  /\ origin[1] + r[1] <= objects[i].width
  /\ ProcessImageDimensions(objects[i], origin, r)
  /\ ImagePitchesFit(i, p, r)
  /\ Enqueue(Request("WriteImage", r, InImage(i, origin),
                     InHostImage(i, ImageRowPitch(i, p, r), ImageSlicePitch(i, p, r))),
             [op |-> "WriteImage", obj |-> i, dst |-> box.origin, region |-> box.region,
              first |-> box.first, slices |-> box.slices,
              row |-> ImageRowPitch(i, p, r), slice |-> ImageSlicePitch(i, p, r)],
             blocking)

clEnqueueFillImage(i, origin, r) ==
  LET box == Box(objects[i], origin, r) IN
  /\ origin[1] + r[1] <= objects[i].width
  /\ ProcessImageDimensions(objects[i], origin, r)
  /\ Enqueue(Request("FillImage", r, InImage(i, origin), Pattern(1)),
             [op |-> "FillImage", obj |-> i, dst |-> box.origin, region |-> box.region,
              first |-> box.first, slices |-> box.slices], TRUE)

(* A read also compares the host's pitches with the buffer's size.         *)
clEnqueueReadBufferRectImpl(op, b, at, host, r, p, hp) ==
  /\ RectFits(objects[b], at, r, Rows(p, r), Slices(p, r))
  /\ PitchesFit(r, Rows(hp, r), Slices(hp, r))
  /\ hp[1] <= objects[b].width /\ hp[2] <= objects[b].width
  /\ objects[b].flags \cap {"HOST_WRITE_ONLY", "HOST_NO_ACCESS"} = {}
  /\ Enqueue(Request(op, r, InHost(host, Rows(hp, r), Slices(hp, r)),
                     InBuffer(b, at, Rows(p, r), Slices(p, r))),
             [op |-> op, obj |-> b, src |-> at, dst |-> host, region |-> r,
              rect |-> op = "ReadBufferRect",
              srcRow |-> Rows(p, r), srcSlice |-> Slices(p, r),
              row |-> Rows(hp, r), slice |-> Slices(hp, r)], FALSE)

clEnqueueReadBuffer(b, offset, size) ==
  clEnqueueReadBufferRectImpl("ReadBuffer", b, <<offset, 0, 0>>, Start, Row(size),
                              NoPitch, NoPitch)

clEnqueueReadImage(i, origin, r, p) ==
  LET box == Box(objects[i], origin, r) IN
  /\ objects[i].flags \cap {"HOST_WRITE_ONLY", "HOST_NO_ACCESS"} = {}
  /\ origin[1] + r[1] <= objects[i].width
  /\ ProcessImageDimensions(objects[i], origin, r)
  /\ ImagePitchesFit(i, p, r)
  /\ Enqueue(Request("ReadImage", r,
                     InHostImage(i, ImageRowPitch(i, p, r), ImageSlicePitch(i, p, r)),
                     InImage(i, origin)),
             [op |-> "ReadImage", obj |-> i, src |-> box.origin, region |-> box.region,
              first |-> box.first, slices |-> box.slices,
              row |-> ImageRowPitch(i, p, r), slice |-> ImageSlicePitch(i, p, r)],
             FALSE)

-----------------------------------------------------------------------------
(* Copies compare their regions when both objects are one, or one is the   *)
(* parent of the other.                                                    *)
Related(s, d) == s = d \/ objects[s].parent = d \/ objects[d].parent = s

(* Ranges that start at a and b and reach to, and include, a+n and b+m.    *)
Meet(a, n, b, m) == (a <= b /\ b <= a + n) \/ (b <= a /\ a <= b + m)

clEnqueueCopyBuffer(s, d, from, to, size) ==
  LET src == from + objects[s].offset
      dst == to + objects[d].offset
  IN  /\ size # 0
      /\ size + from <= objects[s].width /\ size + to <= objects[d].width
      /\ ~(Related(s, d) /\ Meet(src, size - 1, dst, size - 1))
      /\ Enqueue(Request("CopyBuffer", Row(size), InBuffer(d, <<to, 0, 0>>, size, size),
                         InBuffer(s, <<from, 0, 0>>, size, size)),
                 [op |-> "CopyBuffer", source |-> s, dest |-> d,
                  src |-> <<src, 0, 0>>, dst |-> <<dst, 0, 0>>, region |-> Row(size)],
                 FALSE)

(* The second image decides on slices, rows and depth where it has them.   *)
clEnqueueCopyImage(s, d, from, to, r) ==
  LET a == Box(objects[s], from, r)
      b == Box(objects[d], to, r)
  IN  /\ objects[s].bytes = objects[d].bytes
      /\ from[1] + r[1] <= objects[s].width /\ to[1] + r[1] <= objects[d].width
      /\ ProcessImageDimensions(objects[s], from, r)
      /\ ProcessImageDimensions(objects[d], to, r)
      /\ ~(Related(s, d) /\ \A k \in 1 .. 3 : Meet(from[k], r[k], to[k], r[k]))
      /\ Enqueue(Request("CopyImage", r, InImage(d, to), InImage(s, from)),
                 [op |-> "CopyImage", source |-> s, dest |-> d,
                  src |-> a.origin, dst |-> b.origin,
                  firstSrc |-> a.first, firstDst |-> b.first,
                  slices |-> IF ArrayAxis(objects[d]) = 0 THEN a.slices ELSE b.slices,
                  region |-> <<r[1],
                               IF HasRows(objects[d]) THEN b.region[2] ELSE a.region[2],
                               IF HasDepth(objects[d]) THEN b.region[3] ELSE a.region[3]>>],
                 FALSE)

(* Whether two rectangles of the same pitches overlap (check_copy_overlap, *)
(* from the OpenCL specification): not if one fits in the gap between the  *)
(* other's rows, or slices.                                                *)
FitsInGap(a, b, size, pitch) ==
  \/ b >= a + size /\ b + size <= a + pitch
  \/ a >= b + size /\ a + size <= b + pitch

check_copy_overlap(srcOff, dstOff, from, to, r, row, slice) ==
  /\ ~FitsInGap((from[1] + srcOff) % row, (to[1] + dstOff) % row, r[1], row)
  /\ ~FitsInGap((from[2] * row + from[1] + srcOff) % slice,
                (to[2] * row + to[1] + dstOff) % slice,
                (r[2] - 1) * row + r[1], slice)

clEnqueueCopyBufferRect(s, d, from, to, r, sp, dp) ==
  LET srow == Rows(sp, r)   sslice == Slices(sp, r)
      drow == Rows(dp, r)   dslice == Slices(dp, r)
      so == objects[s].offset
      do == objects[d].offset
      \* the start of the source is computed with the destination's pitch
      src == from[3] * sslice + from[2] * drow + from[1] + so
      dst == to[3] * dslice + to[2] * drow + to[1] + do
      sn == (r[3] - 1) * sslice + (r[2] - 1) * srow + r[1]
      dn == (r[3] - 1) * dslice + (r[2] - 1) * drow + r[1]
  IN  /\ Positive(r)
      /\ PitchesFit(r, srow, sslice) /\ PitchesFit(r, drow, dslice)
      /\ src + sn - so <= objects[s].width /\ dst + dn - do <= objects[d].width
      /\ ~ /\ Related(s, d) /\ Meet(src, sn, dst, dn)
           /\ \/ <<srow, sslice>> # <<drow, dslice>>
              \/ check_copy_overlap(so, do, from, to, r, srow, sslice)
      /\ Enqueue(Request("CopyBufferRect", r, InBuffer(d, to, drow, dslice),
                         InBuffer(s, from, srow, sslice)),
                 [op |-> "CopyBufferRect", source |-> s, dest |-> d, src |-> from,
                  dst |-> to, region |-> r, srcRow |-> srow, srcSlice |-> sslice,
                  dstRow |-> drow, dstSlice |-> dslice], FALSE)

(* Between a buffer and a texture, in which the rows are packed.  The size *)
(* compared with the buffer has no width in it, and the first coordinate   *)
(* of the image does not reach the task.                                   *)
BufferAndImageTask(op, b, i, at, origin, r) ==
  LET box == Box(objects[i], origin, r) IN
  [op |-> op, buffer |-> b, image |-> i, at |-> at,
   origin |-> [box.origin EXCEPT ![1] = 0], region |-> box.region,
   first |-> box.first, slices |-> box.slices, pitch |-> objects[i].bytes * r[1]]

BufferAndImageFit(b, i, at, origin, r) ==
  LET box == Box(objects[i], origin, r) IN
  /\ objects[i].type # "IMAGE1D_BUFFER"
  /\ origin[1] + r[1] <= objects[i].width
  /\ ProcessImageDimensions(objects[i], origin, r)
  /\ at + objects[i].bytes * box.region[2] * box.region[3] * box.slices
       <= objects[b].width

clEnqueueCopyImageToBuffer(i, b, origin, r, at) ==
  /\ BufferAndImageFit(b, i, at, origin, r)
  /\ Enqueue(Request("CopyImageToBuffer", r, Packed(b, i, at, r), InImage(i, origin)),
             BufferAndImageTask("CopyImageToBuffer", b, i, at, origin, r), FALSE)

clEnqueueCopyBufferToImage(b, i, at, origin, r) ==
  /\ BufferAndImageFit(b, i, at, origin, r)
  /\ Enqueue(Request("CopyBufferToImage", r, InImage(i, origin), Packed(b, i, at, r)),
             BufferAndImageTask("CopyBufferToImage", b, i, at, origin, r), FALSE)

-----------------------------------------------------------------------------
CopiesAtRecord == task.op \in {"WriteBuffer", "WriteBufferRect", "WriteImage"}

(* The task is recorded; one whose constructor did not copy the            *)
(* application's data does it now.                                         *)
Record ==
  /\ phase = "queued" /\ phase' = "done"
  /\ moved' = RecordImpl(task)
  /\ captured' = IF CopiesAtRecord /\ captured = NotYet THEN hostVersion ELSE captured
  /\ UNCHANGED <<objects, call, task, hostVersion>>

(* OnComplete: the task lets go of its objects.                            *)
OnComplete ==
  /\ phase = "done" /\ phase' = "idle"
  /\ call' = None /\ task' = None /\ moved' = {}
  /\ captured' = NotYet /\ hostVersion' = 0
  /\ UNCHANGED objects

(* The application may use its memory again once the call has returned,    *)
(* which matters to commands that read it.                                 *)
HostWrites ==
  /\ phase = "queued" /\ hostVersion = 0
  /\ call.from.in \in {"host", "host image", "pattern"}
  /\ hostVersion' = 1
  /\ UNCHANGED <<objects, phase, call, task, captured, moved>>

TransferInit ==
  /\ ObjectsInit
  /\ phase = "idle" /\ call = None /\ task = None
  /\ hostVersion = 0 /\ captured = NotYet /\ moved = {}

Create == phase = "idle" /\ ObjectsNext /\ UNCHANGED <<phase, call, task, hostVersion, captured, moved>>

OnBuffers ==
  phase = "idle" /\ \E b \in Buffers :
    \/ \E blocking \in BOOLEAN, offset \in Origins, size \in Sizes :
         clEnqueueWriteBuffer(b, blocking, offset, size)
    \/ \E offset \in Origins, size \in Sizes : clEnqueueReadBuffer(b, offset, size)
    \/ \E n \in Patterns, offset \in Origins, size \in Sizes :
         clEnqueueFillBuffer(b, n, offset, size)
    \/ \E blocking \in BOOLEAN, at \in Points, host \in HostPoints, r \in Regions,
          l \in Layouts :
         clEnqueueWriteBufferRectImpl("WriteBufferRect", b, blocking, at, host, r, l[1], l[2])
    \/ \E at \in Points, host \in HostPoints, r \in Regions, l \in Layouts :
         clEnqueueReadBufferRectImpl("ReadBufferRect", b, at, host, r, l[1], l[2])
    \/ \E d \in Buffers, from \in Origins, to \in Origins, size \in Sizes :
         clEnqueueCopyBuffer(b, d, from, to, size)
    \/ \E d \in Buffers, from \in Points, to \in Points, r \in Regions,
          l \in Layouts :
         clEnqueueCopyBufferRect(b, d, from, to, r, l[1], l[2])

OnImages ==
  phase = "idle" /\ \E i \in Images, at \in Points, r \in Regions :
    \/ \E blocking \in BOOLEAN, p \in Pitches : clEnqueueWriteImage(i, blocking, at, r, p)
    \/ clEnqueueFillImage(i, at, r)
    \/ \E p \in Pitches : clEnqueueReadImage(i, at, r, p)
    \/ \E d \in Images, to \in Points : clEnqueueCopyImage(i, d, at, to, r)
    \/ \E b \in Buffers, n \in Origins : clEnqueueCopyImageToBuffer(i, b, at, r, n)
    \/ \E b \in Buffers, n \in Origins : clEnqueueCopyBufferToImage(i, b, n, at, r)

TransferNext == Create \/ OnBuffers \/ OnImages \/ Record \/ OnComplete \/ HostWrites

-----------------------------------------------------------------------------
(* What a command means: cell c of its region, counted from the origin of  *)
(* a place, in OpenCL's coordinates.                                       *)
CellOf(place, c) ==
  CASE place.in = "buffer" ->
         Byte(place.obj, objects[place.obj].offset
                           + At(Plus(place.at, c), place.row, place.slice))
    [] place.in = "host" -> Host(At(Plus(place.at, c), place.row, place.slice))
    [] place.in = "pattern" -> Host(c[1] % place.size)
    [] place.in = "packed" ->
         Byte(place.obj, objects[place.obj].offset + place.at
                + ((c[3] * place.region[2] + c[2]) * place.region[1] + c[1])
                    * objects[place.image].bytes)
    [] place.in = "host image" ->
         Host(c[1] * objects[place.obj].bytes + c[3] * place.slice
                + c[2] * (IF ArrayAxis(objects[place.obj]) = 2
                            THEN place.slice ELSE place.row))
    [] OTHER ->
         LET o == objects[place.obj]
             p == Plus(place.at, c)
             a == ArrayAxis(o)
         IN  IF o.type = "IMAGE1D_BUFFER"
               THEN Byte(place.obj, o.offset + p[1] * o.bytes)
               ELSE Texel(place.obj, IF a = 0 THEN 0 ELSE p[a],
                          [k \in 1 .. 3 |-> IF k = a THEN 0 ELSE p[k]])

Wanted == {<<CellOf(call.to, c), CellOf(call.from, c)>> : c \in Cells(call.region)}

(* The calls whose task is known to do something else (README, section 6). *)
FillsSubBuffer == task.op = "FillBuffer" /\ objects[task.obj].offset # 0
ReadsFromTheStart ==
  \/ /\ task.op \in {"ReadBuffer", "ReadBufferRect"}
     /\ task.dst = Start
     /\ task.src # Start /\ (task.rect \/ "ALLOC_HOST_PTR" \in objects[task.obj].flags)
  \/ /\ task.op \in {"ReadBuffer", "ReadBufferRect"}
     /\ "ALLOC_HOST_PTR" \in objects[task.obj].flags /\ objects[task.obj].offset # 0
  \/ /\ task.op = "ReadImage" /\ "ALLOC_HOST_PTR" \in objects[task.obj].flags
     /\ ArrayAxis(objects[task.obj]) # 0 /\ (task.first # 0 \/ task.slices # 1)
TexelsTakenForBytes ==
  /\ call.op \in {"WriteImage", "FillImage", "ReadImage", "CopyImage"}
  /\ \E place \in {call.to, call.from} :
       /\ place.in = "image" /\ objects[place.obj].type = "IMAGE1D_BUFFER"
       /\ objects[place.obj].bytes # 1 \/ objects[place.obj].offset # 0
TakesSlicesForRows ==
  /\ task.op = "CopyImage"
  /\ \E k \in 2 .. 3 :
       /\ call.region[k] > 1
       /\ (ArrayAxis(objects[task.source]) = k) # (ArrayAxis(objects[task.dest]) = k)
MisplacesRows ==
  /\ task.op \in {"CopyImageToBuffer", "CopyBufferToImage"}
  /\ \/ \E place \in {call.to, call.from} : place.in = "image" /\ place.at[1] # 0
     \/ ~NeedsTemp(task) /\ task.at # 0
     \/ NeedsTemp(task) /\ (objects[task.image].bytes # 1 \/ task.slices # 1)
StartsWithOtherPitch ==
  task.op = "CopyBufferRect" /\ task.srcRow # task.dstRow /\ task.src[2] # 0

KnownDeviation ==
  \/ FillsSubBuffer \/ ReadsFromTheStart \/ TexelsTakenForBytes
  \/ TakesSlicesForRows \/ MisplacesRows

(* A fill, and a write that the application waits for, uses the data of    *)
(* the call: the application may write its memory right after, for the     *)
(* entry point does not wait for the write, it copies.                     *)
DataOfCallTime == phase = "done" /\ call.early => captured = 0

(* A copy that is accepted never reads what it writes, so the order in     *)
(* which rows are copied does not matter.                                  *)
CopiesDoNotOverlap ==
  /\ phase = "done" /\ ~StartsWithOtherPitch
  /\ task.op \in {"CopyBuffer", "CopyBufferRect", "CopyImage"}
  /\ Related(task.source, task.dest)
  => {pair[1] : pair \in moved} \cap {pair[2] : pair \in moved} = {}

\* The cells of an object.
Has(i, cell) ==
  LET o == objects[i] IN
  /\ cell[1] = o.storage
  /\ IF o.type \in {"BUFFER", "IMAGE1D_BUFFER"}
       THEN cell[2] \in o.offset .. o.offset + o.width * o.bytes - 1
       ELSE /\ cell[2] \in 0 .. AtLeast1(o.array) - 1 /\ cell[3] \in 0 .. AtLeast1(o.depth) - 1
            /\ cell[4] \in 0 .. AtLeast1(o.height) - 1 /\ cell[5] \in 0 .. o.width - 1

\* No accepted call reaches past its objects: neither into the rest of the
\* buffer a sub-buffer lies in nor into another slice of an array.
StaysInside ==
  phase = "done" /\ ~KnownDeviation /\ ~StartsWithOtherPitch =>
    \A pair \in moved :
      /\ call.to.in \in {"buffer", "packed", "image"} => Has(call.to.obj, pair[1])
      /\ call.from.in \in {"buffer", "packed", "image"} => Has(call.from.obj, pair[2])

(* A recorded task writes exactly the cells of the region its call names,  *)
(* each from the cell the call says: rows, slices, offsets and pitches of  *)
(* both sides, sub-buffers' places and array slices, whichever of the      *)
(* paths (in place, a copy, a temporary) the task takes; the data is that  *)
(* of the call, and not what the copy itself has written; and no call that *)
(* is accepted reaches past its objects.                                   *)
MovesTheRegion ==
  /\ DataOfCallTime /\ CopiesDoNotOverlap /\ StaysInside
  /\ phase = "done" /\ ~KnownDeviation => moved = Wanted
=============================================================================
