------------------------------ MODULE Nv12Layout ------------------------------
(***************************************************************************)
(* The arithmetic of an NV12 image's layout, from a camera frame through   *)
(* CameraPublisher::Impl::PublishFrame (src/camera_publisher.cpp) to the   *)
(* codec's input buffer (src/nv12_compressed_publisher.cpp): which bytes   *)
(* are read and written, and where the chroma plane is looked for.         *)
(* JpegEncoder builds on these operators.                                  *)
(*                                                                         *)
(* Planes are offsets into the image's data.  The machine's integer types  *)
(* are given by their largest values.                                      *)
(***************************************************************************)
EXTENDS Integers

CONSTANTS
    MaxI32, MaxU32, MaxU64,  \* the largest int, uint32_t, and uint64_t or size_t
    Page                     \* the alignment of the bitstream capacity, 4096

ASSUME WidthAssumption ==
    /\ MaxI32 \in Nat \ {0}
    /\ MaxU32 = 2 * MaxI32 + 1
    /\ MaxU64 = (MaxU32 + 1) * (MaxU32 + 1) - 1
ASSUME PageAssumption == Page \in Nat \ {0} /\ Page <= MaxI32

-----------------------------------------------------------------------------
(* PublishFrame.                                                           *)

\* The sizes are libsc132's, assumed to pad both planes to the same vstride.
YSize(f) == f.stride * f.vstride
UvSize(f) == YSize(f) \div 2

ImageOf(f) ==
    [width |-> f.width, height |-> f.height, step |-> f.stride, size |-> YSize(f) + UvSize(f)]

-----------------------------------------------------------------------------
(* ValidateAndLocatePlanes.                                                *)

\* Mutant: a row may be wider than the step.
ValidMetadataAnyStep(i) ==
    /\ i.width # 0 /\ i.height # 0 /\ i.width % 2 = 0 /\ i.height % 2 = 0 /\ i.step # 0
    /\ i.width <= MaxI32 /\ i.height <= MaxI32 /\ i.step <= MaxI32

ValidMetadata(i) ==
    /\ i.width # 0 /\ i.height # 0 /\ i.width % 2 = 0 /\ i.height % 2 = 0
    /\ i.step >= i.width
    /\ i.width <= MaxI32 /\ i.height <= MaxI32 /\ i.step <= MaxI32

\* The visible rows of both planes.  A product or sum that fits no size_t throws.
YVisible(i) == i.step * i.height
UvVisible(i) == i.step * (i.height \div 2)
CompactSize(i) == YVisible(i) + UvVisible(i)
CoversVisibleRows(i) == CompactSize(i) <= MaxU64 /\ CompactSize(i) <= i.size

\* The vstride that the size of a padded image implies, none if it implies none.
PaddedVstride(i) ==
    {v \in {(i.size * 2) \div (i.step * 3)} :
        /\ i.size <= MaxU64 \div 2 /\ (i.size * 2) % (i.step * 3) = 0
        /\ v >= i.height /\ v % 2 = 0}

\* Mutant: the padding is overlooked.
YPlaneSpanVisible(i) == {YVisible(i)}

\* Bytes from the luma to the chroma plane.
YPlaneSpan(i) ==
    IF i.size = CompactSize(i) THEN {YVisible(i)}
    ELSE {span \in {i.step * v : v \in PaddedVstride(i)} :
              span <= i.size /\ i.size - span >= UvVisible(i)}

\* The planes, or the empty set where the code throws.
Locate(i) ==
    IF ValidMetadata(i) /\ CoversVisibleRows(i)
    THEN {[uv |-> span, width |-> i.width, height |-> i.height, source_stride |-> i.step,
           chroma_height |-> i.height \div 2] : span \in YPlaneSpan(i)}
    ELSE {}

-----------------------------------------------------------------------------
(* EnsureContext and CopyIntoCodecInput.                                   *)

RawSize(p) == ((p.width * p.height * 3) % (MaxU64 + 1)) \div 2
BitstreamSize(p) == ((RawSize(p) + Page - 1) \div Page) * Page

CapacityFits(p) == BitstreamSize(p) # 0 /\ BitstreamSize(p) <= MaxU32

\* vstride is the chroma plane's stride where the codec gives one.
UvStride(b) == IF b.vstride > 0 THEN b.vstride ELSE b.stride

BufferTakes(p, b) ==
    /\ b.stride >= p.width /\ UvStride(b) >= p.width
    /\ b.y_size >= b.stride * p.height
    /\ b.uv_size >= UvStride(b) * (p.height \div 2)

\* The codec's vframe_buf.size, a uint32_t.
SizeField(p) == RawSize(p) % (MaxU32 + 1)

-----------------------------------------------------------------------------
(* What the accesses of the two copies need.                               *)

\* The last byte that reading or writing `rows` rows touches, plus one.
End(offset, stride, rows, width) == offset + (rows - 1) * stride + width

\* Both planes lie within the message's data, the chroma behind the luma's rows.
ReadsInside(i, p) ==
    /\ End(0, p.source_stride, p.height, p.width) <= p.uv
    /\ End(p.uv, p.source_stride, p.chroma_height, p.width) <= i.size

\* The rows written lie within the codec's planes, of whatever stride.
WritesInside(p, b) ==
    /\ End(0, b.stride, p.height, p.width) <= b.y_size
    /\ End(0, UvStride(b), p.chroma_height, p.width) <= b.uv_size

\* A frame with even visible size inside its strides.
WellFormed(f) ==
    /\ f.width % 2 = 0 /\ f.height % 2 = 0 /\ f.vstride % 2 = 0
    /\ f.width <= f.stride /\ f.height <= f.vstride
    /\ f.height <= MaxI32 /\ f.stride <= MaxI32
    /\ 2 * ImageOf(f).size <= MaxU64
=============================================================================
