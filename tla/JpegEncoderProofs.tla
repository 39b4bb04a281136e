------------------------- MODULE JpegEncoderProofs -------------------------
(***************************************************************************)
(* Theorems about JpegEncoder and the layout arithmetic of Nv12Layout, for *)
(* every width of the machine's integers and every message: what is copied *)
(* stays inside both buffers, the chroma plane is found where the camera   *)
(* put it, and the cached codec neither leaks nor mixes up pictures.       *)
(***************************************************************************)
EXTENDS JpegEncoder, TLAPS

-----------------------------------------------------------------------------
(* The inductive invariant.                                                *)

Images == [width : Nat, height : Nat, step : Nat, size : Nat]
CodecStates == {"none", "initialized", "configured", "started"}

\* From the allocation of an instance to the last call that needs it.
SetUpLabels == {"initialize", "configure", "start"}
EncodeLabels == {"dequeue_input", "copy", "queue_input", "dequeue_output"}
OutputLabels == {"find_end", "queue_output", "publish"}
LocatedLabels == {"ensure"} \cup SetUpLabels \cup EncodeLabels \cup OutputLabels
UnlocatedLabels == {"idle", "locate", "gone"}

OfSize(s) == [width |-> s[1], height |-> s[2]]

\* The context's flags say in what state the codec's instance is, and a size that
\* was once refused never gets into the cache.
ContextOK ==
    /\ ctx \in [size : Nat \X Nat, initialized : BOOLEAN, started : BOOLEAN]
    /\ codec \in [state : CodecStates, size : Nat \X Nat, frames : Seq(Nat)]
    /\ live = IF codec.state = "none" THEN 0 ELSE 1
    /\ ctx.initialized <=> codec.state # "none"
    /\ ctx.started <=> codec.state = "started"
    /\ ctx.started => ctx.size = codec.size /\ CapacityFits(OfSize(ctx.size))

\* What the set-up and the encoding have reached.
StageOK ==
    /\ at \in LocatedLabels \cup UnlocatedLabels \cup {"thrown"}
    /\ at \in {"initialize", "gone"} => codec.state = "none"
    /\ at = "configure" => codec.state = "initialized"
    /\ at = "start" => codec.state = "configured"
    /\ at \in EncodeLabels => codec.state = "started"
    /\ at \in {"configure", "start"} \cup EncodeLabels => codec.size = Size

\* Buffers and frames are with the encoder or the codec only inside the try block.
InsideOK ==
    /\ n \in Nat
    /\ held = IF at \in {"copy", "queue_input"} THEN {"input"}
              ELSE IF at \in {"find_end", "queue_output"} THEN {"output"} ELSE {}
    /\ codec.frames = IF at = "dequeue_output" THEN << n >> ELSE << >>
    /\ at \in OutputLabels => jpeg = n

\* The planes are those of the message, and refused ones are nowhere.
LayoutOK ==
    /\ image \in Images
    /\ frame = NoFrame \/ (frame \in Frames /\ image = ImageOf(frame))
    /\ at = "idle" => frame = NoFrame
    /\ at \in LocatedLabels => planes \in Locate(image)
    /\ at \in UnlocatedLabels => planes = NoPlanes
    /\ at = "thrown" => planes \in Locate(image) \/ (planes = NoPlanes /\ Locate(image) = {})
    /\ at \in SetUpLabels \cup EncodeLabels => CapacityFits(planes)
    /\ at \in {"copy", "queue_input"} => buffer \in Buffers
    /\ at = "queue_input" => BufferTakes(planes, buffer)

IInv == ContextOK /\ StageOK /\ InsideOK /\ LayoutOK

-----------------------------------------------------------------------------
(* Arithmetic.                                                             *)

LEMMA TimesMonotone ==
  ASSUME NEW a \in Nat, NEW b \in Nat, NEW c \in Nat, a <= b
  PROVE  c * a \in Nat /\ c * b \in Nat /\ c * a <= c * b
OBVIOUS

\* Rows that are no wider than the stride end within rows * stride.
LEMMA RowsEnd ==
  ASSUME NEW offset \in Nat, NEW stride \in Nat, NEW rows \in Nat \ {0}, NEW width \in Nat,
         width <= stride
  PROVE  End(offset, stride, rows, width) <= offset + stride * rows
<1>1. (rows - 1) * stride + stride = stride * rows
  OBVIOUS
<1>2. (rows - 1) * stride \in Int
  OBVIOUS
<1>3. stride * rows \in Int
  OBVIOUS
<1> DEFINE a == (rows - 1) * stride
           b == stride * rows
<1>4. a \in Int /\ b \in Int /\ a + stride = b
  BY <1>1, <1>2, <1>3
<1> HIDE DEF a, b
<1>5. offset + a + width <= offset + b
  BY <1>4
<1> QED
  BY <1>5 DEF a, b, End

LEMMA Widths == MaxI32 \in Nat /\ MaxU32 \in Nat /\ MaxU64 \in Nat
<1>1. MaxI32 \in Nat /\ MaxU32 \in Nat
  BY WidthAssumption
<1>2. (MaxU32 + 1) * (MaxU32 + 1) \in Nat \ {0}
  BY <1>1
<1> QED
  BY <1>1, <1>2, WidthAssumption

LEMMA Ranges ==
  /\ FrameFields \subseteq Nat \ {0} /\ ImageFields \subseteq Nat /\ DataSizes \subseteq Nat
  /\ BufferFields \subseteq Nat /\ PlaneSizes \subseteq Nat
BY InputAssumption, Widths

LEMMA Halves ==
  ASSUME NEW k \in Nat, k % 2 = 0
  PROVE  k \div 2 \in Nat /\ k = 2 * (k \div 2) /\ (k # 0 => k \div 2 # 0)
OBVIOUS

-----------------------------------------------------------------------------
(* The planes.                                                             *)

\* Whatever is located lies within the message's data, the chroma plane behind
\* the luma's rows.
LEMMA Located ==
  ASSUME NEW i \in Images, NEW p \in Locate(i)
  PROVE  /\ ValidMetadata(i)
         /\ p.width = i.width /\ p.height = i.height /\ p.source_stride = i.step
         /\ p.chroma_height = i.height \div 2
         /\ p.uv \in Nat /\ YVisible(i) <= p.uv /\ p.uv + UvVisible(i) <= i.size
         /\ p # NoPlanes
<1>1. ValidMetadata(i) /\ CompactSize(i) <= i.size
  BY DEF Locate, CoversVisibleRows
<1>2. PICK span \in YPlaneSpan(i) :
        p = [uv |-> span, width |-> i.width, height |-> i.height, source_stride |-> i.step,
             chroma_height |-> i.height \div 2]
  BY DEF Locate
<1>3. /\ i.width \in Nat \ {0} /\ i.height \in Nat \ {0} /\ i.step \in Nat \ {0}
      /\ i.size \in Nat /\ i.height % 2 = 0
  BY <1>1 DEF Images, ValidMetadata
<1>4. YVisible(i) \in Nat /\ UvVisible(i) \in Nat
  BY <1>3, Halves DEF YVisible, UvVisible
<1>5. span \in Nat /\ YVisible(i) <= span /\ span + UvVisible(i) <= i.size
  <2>1. CASE span = YVisible(i)
    BY <1>1, <1>4, <2>1 DEF CompactSize
  <2>2. CASE span # YVisible(i)
    <3>1. PICK v \in PaddedVstride(i) :
            span = i.step * v /\ span <= i.size /\ i.size - span >= UvVisible(i)
      BY <2>2 DEF YPlaneSpan
    <3>2. v = (i.size * 2) \div (i.step * 3) /\ v >= i.height
      BY <3>1 DEF PaddedVstride
    <3>3. i.size * 2 \in Nat /\ i.step * 3 \in Nat \ {0}
      BY <1>3
    <3>4. v \in Nat
      BY <3>2, <3>3
    <3>5. i.step * i.height <= i.step * v /\ i.step * v \in Nat
      BY <1>3, <3>2, <3>4, TimesMonotone
    <3> QED
      BY <1>3, <1>4, <3>1, <3>5 DEF YVisible
  <2> QED
    BY <2>1, <2>2
<1>6. p # NoPlanes
  BY <1>2, <1>3 DEF NoPlanes
<1> QED
  BY <1>1, <1>2, <1>5, <1>6

LEMMA LocatedReadsInside ==
  ASSUME NEW i \in Images, NEW p \in Locate(i)
  PROVE  ReadsInside(i, p)
<1>1. /\ i.width \in Nat \ {0} /\ i.height \in Nat \ {0} /\ i.step \in Nat \ {0}
      /\ i.size \in Nat /\ i.height % 2 = 0 /\ i.width <= i.step
  BY Located DEF Images, ValidMetadata
<1> DEFINE half == i.height \div 2
<1>2. half \in Nat \ {0} /\ i.step * half \in Nat /\ i.step * i.height \in Nat
  BY <1>1, Halves
<1>3. End(0, i.step, i.height, i.width) <= 0 + i.step * i.height
  BY <1>1, RowsEnd
<1>4. End(0, i.step, i.height, i.width) <= i.step * i.height
  BY <1>2, <1>3
<1>5. End(p.uv, i.step, half, i.width) <= p.uv + i.step * half
  BY <1>1, <1>2, Located, RowsEnd
<1>6. End(0, i.step, i.height, i.width) \in Int /\ End(p.uv, i.step, half, i.width) \in Int
  BY <1>1, <1>2, Located DEF End
<1>7. YVisible(i) = i.step * i.height /\ UvVisible(i) = i.step * half
  BY DEF YVisible, UvVisible
<1> HIDE DEF half
<1>8. End(0, i.step, i.height, i.width) <= p.uv
  BY <1>2, <1>4, <1>6, <1>7, Located
<1>9. End(p.uv, i.step, half, i.width) <= i.size
  BY <1>1, <1>2, <1>5, <1>6, <1>7, Located
<1> QED
  BY <1>8, <1>9, Located DEF ReadsInside, half

\* The copies stay inside the codec's planes when its buffer passes the test.
LEMMA TakenWritesInside ==
  ASSUME NEW i \in Images, NEW p \in Locate(i), NEW b \in Buffers, BufferTakes(p, b)
  PROVE  WritesInside(p, b)
<1>1. /\ p.width \in Nat \ {0} /\ p.height \in Nat \ {0} /\ p.height % 2 = 0
      /\ p.chroma_height = p.height \div 2
  BY Located DEF Images, ValidMetadata
<1>2. b.stride \in Nat /\ UvStride(b) \in Nat /\ b.y_size \in Nat /\ b.uv_size \in Nat
  BY Ranges DEF Buffers, UvStride
<1>3. p.chroma_height \in Nat \ {0}
  BY <1>1, Halves
<1>4. End(0, b.stride, p.height, p.width) <= 0 + b.stride * p.height
  BY <1>1, <1>2, RowsEnd DEF BufferTakes
<1>5. End(0, UvStride(b), p.chroma_height, p.width) <= 0 + UvStride(b) * p.chroma_height
  BY <1>1, <1>2, <1>3, RowsEnd DEF BufferTakes
<1>6. /\ End(0, b.stride, p.height, p.width) \in Int /\ b.stride * p.height \in Int
      /\ End(0, UvStride(b), p.chroma_height, p.width) \in Int
      /\ UvStride(b) * p.chroma_height \in Int
  BY <1>1, <1>2, <1>3 DEF End
<1>7. b.stride * p.height <= b.y_size /\ UvStride(b) * p.chroma_height <= b.uv_size
  BY <1>1, <1>2, <1>6 DEF BufferTakes
<1> DEFINE e == End(0, b.stride, p.height, p.width)
           l == b.stride * p.height
           g == End(0, UvStride(b), p.chroma_height, p.width)
           m == UvStride(b) * p.chroma_height
<1> HIDE DEF e, l, g, m
<1>8. e \in Int /\ l \in Int /\ g \in Int /\ m \in Int /\ e <= 0 + l /\ g <= 0 + m
      /\ l <= b.y_size /\ m <= b.uv_size
  BY <1>4, <1>5, <1>6, <1>7 DEF e, l, g, m
<1>9. e <= b.y_size /\ g <= b.uv_size
  BY <1>2, <1>8
<1> QED
  BY <1>9 DEF WritesInside, e, g

\* The product that the code forms in 64 bits does not wrap.
LEMMA RawSizeExact ==
  ASSUME NEW i \in Images, NEW p \in Locate(i)
  PROVE  /\ p.width * p.height * 3 \in Nat
         /\ RawSize(p) \in Nat /\ 2 * RawSize(p) = 3 * p.width * p.height
<1>1. /\ p.width \in 1..MaxI32 /\ p.height \in 1..MaxI32 /\ p.width % 2 = 0
      /\ MaxI32 \in Nat
  BY Located, WidthAssumption DEF Images, ValidMetadata
<1> DEFINE w == p.width
           h == p.height
           m == MaxI32
<1>2. w \in Nat /\ h \in Nat /\ m \in Nat /\ w <= m /\ h <= m
  BY <1>1
<1> HIDE DEF w, h, m
<1>3. w * h \in Nat /\ w * h <= m * m
  <2>1. w * h \in Nat /\ w * m \in Nat /\ m * m \in Nat
    BY <1>2
  <2>2. w * h <= w * m
    BY <1>2, TimesMonotone
  <2>3. m * w <= m * m /\ w * m = m * w
    BY <1>2, TimesMonotone
  <2> QED
    BY <2>1, <2>2, <2>3
<1>4. MaxU64 + 1 = 4 * (m * m) + 8 * m + 4 /\ m * m \in Nat
  <2>1. MaxU64 + 1 = (2 * m + 2) * (2 * m + 2)
    BY <1>2, WidthAssumption DEF m
  <2> QED
    BY <1>2, <2>1
<1>5. w * h * 3 < MaxU64 + 1 /\ w * h * 3 \in Nat
  BY <1>2, <1>3, <1>4
<1>6. (w * h * 3) % (MaxU64 + 1) = w * h * 3
  BY <1>5, WidthAssumption
<1>7. (w * h * 3) % 2 = 0
  <2>1. w = 2 * (w \div 2) /\ w \div 2 \in Nat
    BY <1>1, <1>2, Halves DEF w
  <2>2. w * h * 3 = 2 * ((w \div 2) * h * 3) /\ (w \div 2) * h * 3 \in Nat
    BY <1>2, <2>1
  <2> QED
    BY <2>2
<1>8. RawSize(p) = (w * h * 3) \div 2
  BY <1>6 DEF RawSize, w, h
<1>9. RawSize(p) \in Nat /\ w * h * 3 = 2 * RawSize(p)
  BY <1>5, <1>7, <1>8, Halves
<1>10. 3 * w * h = w * h * 3
  BY <1>2
<1> QED
  BY <1>5, <1>9, <1>10 DEF w, h

\* So the codec is told the picture's size, and its bitstream buffer holds as much.
LEMMA SizeFieldExact ==
  ASSUME NEW i \in Images, NEW p \in Locate(i), CapacityFits(p)
  PROVE  /\ 2 * SizeField(p) = 3 * p.width * p.height
         /\ SizeField(p) <= BitstreamSize(p)
<1> DEFINE raw == RawSize(p)
           pages == (raw + Page - 1) \div Page
<1>1. raw \in Nat /\ 2 * raw = 3 * p.width * p.height /\ Page \in Nat \ {0}
  BY RawSizeExact, PageAssumption
<1>2. BitstreamSize(p) = pages * Page /\ BitstreamSize(p) <= MaxU32
  BY DEF BitstreamSize, CapacityFits
<1>3. SizeField(p) = raw % (MaxU32 + 1)
  BY DEF SizeField
<1> HIDE DEF raw
<1>4. pages \in Nat /\ raw <= pages * Page /\ pages * Page \in Nat
  BY <1>1, PageAssumption
<1>5. raw <= MaxU32 /\ MaxU32 \in Nat
  BY <1>1, <1>2, <1>4, WidthAssumption
<1>6. SizeField(p) = raw
  BY <1>1, <1>3, <1>5
<1> QED
  BY <1>1, <1>2, <1>4, <1>6

LEMMA DivideExact ==
  ASSUME NEW d \in Nat \ {0}, NEW q \in Nat
  PROVE  d * q \in Nat /\ (d * q) \div d = q /\ (d * q) % d = 0
OBVIOUS

\* The layout of a camera's frame is accepted, and its padding is recovered from the
\* size of the message.
LEMMA CameraFrameLocated ==
  ASSUME NEW f \in Frames, WellFormed(f)
  PROVE  Locate(ImageOf(f)) # {} /\ \A p \in Locate(ImageOf(f)) : p.uv = YSize(f)
<1> DEFINE w == f.width
           h == f.height
           s == f.stride
           v == f.vstride
           i == ImageOf(f)
           k == v \div 2
           j == h \div 2
<1>1. /\ w \in Nat \ {0} /\ h \in Nat \ {0} /\ s \in Nat \ {0} /\ v \in Nat \ {0}
      /\ w % 2 = 0 /\ h % 2 = 0 /\ v % 2 = 0 /\ w <= s /\ h <= v
      /\ h <= MaxI32 /\ s <= MaxI32 /\ MaxI32 \in Nat
  BY Ranges, Widths DEF Frames, WellFormed
<1>2. k \in Nat /\ v = 2 * k /\ j \in Nat /\ h = 2 * j
  BY <1>1, Halves
<1>3. i = [width |-> w, height |-> h, step |-> s, size |-> YSize(f) + UvSize(f)]
  BY DEF ImageOf
<1>4. 2 * i.size <= MaxU64
  BY DEF WellFormed
<1> HIDE DEF w, h, s, v, i, k, j
<1>5. s * k \in Nat /\ s * j \in Nat /\ s * j <= s * k /\ s * v = 2 * (s * k) /\ s * h = 2 * (s * j)
  <2>1. j <= k
    BY <1>1, <1>2
  <2> QED
    BY <1>1, <1>2, <2>1, TimesMonotone
<1>6. YSize(f) = 2 * (s * k) /\ UvSize(f) = s * k
  <2>1. YSize(f) = 2 * (s * k)
    BY <1>5 DEF YSize, s, v
  <2> QED
    BY <1>5, <2>1 DEF UvSize
<1>7. i.size = 3 * (s * k)
  BY <1>3, <1>5, <1>6
<1>8. ValidMetadata(i)
  BY <1>1, <1>3 DEF ValidMetadata
<1>9. YVisible(i) = 2 * (s * j) /\ UvVisible(i) = s * j /\ CompactSize(i) = 3 * (s * j)
  BY <1>3, <1>5 DEF YVisible, UvVisible, CompactSize, j
<1>10. MaxU64 \in Nat
  BY Widths
<1>11. CoversVisibleRows(i)
  BY <1>4, <1>5, <1>7, <1>9, <1>10 DEF CoversVisibleRows
<1>12. YPlaneSpan(i) = {YSize(f)}
  <2>1. CASE i.size = CompactSize(i)
    BY <1>5, <1>6, <1>7, <1>9, <2>1 DEF YPlaneSpan
  <2>2. CASE i.size # CompactSize(i)
    <3>1. i.size * 2 = (s * 3) * v /\ s * 3 \in Nat \ {0}
      BY <1>1, <1>2, <1>5, <1>7
    <3>2. (i.size * 2) \div (s * 3) = v /\ (i.size * 2) % (s * 3) = 0
      <4>1. ((s * 3) * v) \div (s * 3) = v /\ ((s * 3) * v) % (s * 3) = 0
        BY <1>1, <3>1, DivideExact
      <4> QED
        BY <3>1, <4>1
    <3>3. i.size <= MaxU64 \div 2
      BY <1>4, <1>5, <1>7, <1>10
    <3>4. PaddedVstride(i) = {v}
      BY <1>1, <1>3, <3>2, <3>3 DEF PaddedVstride
    <3>5. s * v <= i.size /\ i.size - s * v >= UvVisible(i) /\ s * v = YSize(f)
      BY <1>5, <1>6, <1>7, <1>9
    <3> QED
      BY <1>3, <2>2, <3>4, <3>5 DEF YPlaneSpan
  <2> QED
    BY <2>1, <2>2
<1>13. Locate(i) = {[uv |-> YSize(f), width |-> i.width, height |-> i.height,
                     source_stride |-> i.step, chroma_height |-> i.height \div 2]}
  BY <1>8, <1>11, <1>12 DEF Locate
<1> QED
  BY <1>13 DEF i

-----------------------------------------------------------------------------
(* The inductive invariant holds.                                          *)

Labels == LocatedLabels \cup UnlocatedLabels \cup {"thrown"}

LEMMA Initially == Init => IInv
<1> SUFFICES ASSUME Init PROVE IInv
  OBVIOUS
<1>1. ContextOK
  BY DEF Init, ContextOK, NoContext, NoCodec, NoSize, CodecStates
<1>2. StageOK /\ InsideOK
  BY DEF Init, StageOK, InsideOK, NoCodec, LocatedLabels, UnlocatedLabels, SetUpLabels,
     EncodeLabels, OutputLabels
<1>3. LayoutOK
  BY DEF Init, LayoutOK, NoMessage, Images, LocatedLabels, UnlocatedLabels, SetUpLabels,
     EncodeLabels, OutputLabels
<1> QED
  BY <1>1, <1>2, <1>3 DEF IInv

LEMMA ImageOfInImages ==
  ASSUME NEW f \in Frames
  PROVE  ImageOf(f) \in Images
<1>1. f.width \in Nat /\ f.height \in Nat /\ f.stride \in Nat /\ f.vstride \in Nat
  BY Ranges DEF Frames
<1>2. YSize(f) \in Nat
  BY <1>1 DEF YSize
<1>3. UvSize(f) \in Nat
  BY <1>2 DEF UvSize
<1> QED
  BY <1>1, <1>2, <1>3 DEF ImageOf, Images

LEMMA ResetContext ==
  ASSUME ContextOK, Reset
  PROVE  ContextOK' /\ codec' = NoCodec /\ held' = {}
BY DEF ContextOK, Reset, NoContext, NoCodec, NoSize, CodecStates

\* The capacity is a matter of the size alone.
LEMMA CapacityOfSize ==
  ASSUME NEW p \in [uv : Nat, width : Nat, height : Nat, source_stride : Nat, chroma_height : Nat]
  PROVE  CapacityFits(p) <=> CapacityFits(OfSize(<< p.width, p.height >>))
BY DEF CapacityFits, BitstreamSize, RawSize, OfSize

LEMMA LocatedPlanes ==
  ASSUME NEW i \in Images, NEW p \in Locate(i)
  PROVE  p \in [uv : Nat, width : Nat, height : Nat, source_stride : Nat, chroma_height : Nat]
<1>1. p.uv \in Nat /\ i.width \in Nat /\ i.height \in Nat /\ i.step \in Nat
      /\ i.height \div 2 \in Nat
  BY Located DEF Images
<1>2. PICK span \in YPlaneSpan(i) :
        p = [uv |-> span, width |-> i.width, height |-> i.height, source_stride |-> i.step,
             chroma_height |-> i.height \div 2]
  BY DEF Locate
<1> QED
  BY <1>1, <1>2

\* A step that fails inside the try block, or that starts over, forgets the context.
LEMMA ResetStep ==
  ASSUME IInv, Reset, UNCHANGED <<message, planes, buffer, jpeg>>, at' \in Labels,
         at' \notin EncodeLabels \cup OutputLabels \cup {"configure", "start"},
         LayoutOK'
  PROVE  IInv'
<1>1. ContextOK' /\ codec' = NoCodec /\ held' = {}
  BY ResetContext DEF IInv
<1>2. StageOK'
  BY <1>1 DEF StageOK, NoCodec, Labels, EncodeLabels
<1>3. InsideOK'
  BY <1>1 DEF IInv, InsideOK, NoCodec, EncodeLabels, OutputLabels, message
<1> QED
  BY <1>1, <1>2, <1>3 DEF IInv

LEMMA PublishStep ==
  ASSUME IInv, PublishFrame \/ PublishMessage
  PROVE  IInv'
<1>1. /\ at = "idle" /\ at' = "locate" /\ UNCHANGED <<planes, encoder>> /\ n' \in Nat
  BY DEF PublishFrame, PublishMessage, Step, IInv, InsideOK
<1>2. image' \in Images /\ (frame' = NoFrame \/ (frame' \in Frames /\ image' = ImageOf(frame')))
  <2>1. CASE PublishFrame
    BY <2>1, ImageOfInImages DEF PublishFrame
  <2>2. CASE PublishMessage
    <3>1. image' \in Messages /\ frame' = frame
      BY <2>2 DEF PublishMessage
    <3>2. frame = NoFrame
      BY <1>1 DEF IInv, LayoutOK
    <3> QED
      BY <3>1, <3>2, Ranges DEF Messages, Images
  <2> QED
    BY <2>1, <2>2
<1>3. ContextOK' /\ StageOK'
  BY <1>1 DEF IInv, ContextOK, StageOK, encoder, UnlocatedLabels, EncodeLabels
<1>4. InsideOK'
  BY <1>1 DEF IInv, InsideOK, encoder, OutputLabels
<1>5. LayoutOK'
  BY <1>1, <1>2 DEF IInv, LayoutOK, LocatedLabels, SetUpLabels, EncodeLabels, OutputLabels,
     UnlocatedLabels
<1> QED
  BY <1>3, <1>4, <1>5 DEF IInv

LEMMA LocateStep ==
  ASSUME IInv, ValidateAndLocatePlanes
  PROVE  IInv'
<1>1. /\ at = "locate" /\ at' \in {"thrown", "ensure"} /\ UNCHANGED <<message, buffer, jpeg, encoder>>
      /\ at' = "thrown" => Locate(image) = {} /\ planes' = planes
      /\ at' = "ensure" => planes' \in Locate(image)
  BY DEF ValidateAndLocatePlanes, Step
<1>2. ContextOK' /\ StageOK'
  BY <1>1 DEF IInv, ContextOK, StageOK, encoder, LocatedLabels, EncodeLabels
<1>3. InsideOK'
  BY <1>1 DEF IInv, InsideOK, encoder, message, OutputLabels
<1>4. LayoutOK'
  BY <1>1 DEF IInv, LayoutOK, message, LocatedLabels, SetUpLabels, EncodeLabels,
     OutputLabels, UnlocatedLabels
<1> QED
  BY <1>2, <1>3, <1>4 DEF IInv

\* Steps of the set-up that leave the message and its planes alone.
LEMMA LayoutStays ==
  ASSUME LayoutOK, UNCHANGED <<message, planes, buffer>>, at \in LocatedLabels,
         at' \in (LocatedLabels \ {"copy", "queue_input"}) \cup {"thrown"},
         at' \in SetUpLabels \cup EncodeLabels => CapacityFits(planes)
  PROVE  LayoutOK'
BY DEF LayoutOK, message, LocatedLabels, SetUpLabels, EncodeLabels, OutputLabels,
   UnlocatedLabels

LEMMA EnsureStep ==
  ASSUME IInv, EnsureContext
  PROVE  IInv'
<1> USE DEF LocatedLabels, SetUpLabels, EncodeLabels, OutputLabels
<1>1. CASE ContextHit
  <2>1. /\ at = "ensure" /\ at' = "dequeue_input" /\ ctx.started /\ ctx.size = Size
        /\ UNCHANGED <<message, planes, buffer, jpeg, encoder>>
    BY <1>1 DEF ContextHit, Hit, Step
  <2>2. planes \in [uv : Nat, width : Nat, height : Nat, source_stride : Nat, chroma_height : Nat]
    BY <2>1, LocatedPlanes DEF IInv, LayoutOK
  <2>3. CapacityFits(planes) /\ codec.size = Size
    BY <2>1, <2>2, CapacityOfSize DEF IInv, ContextOK, Size
  <2>4. ContextOK' /\ StageOK'
    BY <2>1, <2>3 DEF IInv, ContextOK, StageOK, encoder, Size
  <2>5. InsideOK'
    BY <2>1 DEF IInv, InsideOK, encoder, message
  <2>6. LayoutOK'
    BY <2>1, <2>3, LayoutStays DEF IInv
  <2> QED
    BY <2>4, <2>5, <2>6 DEF IInv
<1>2. CASE ContextMiss
  <2>1. /\ at = "ensure" /\ at' \in {"initialize", "thrown"} /\ Reset
        /\ at' = "initialize" => CapacityFits(planes)
        /\ UNCHANGED <<message, planes, buffer, jpeg>>
    BY <1>2 DEF ContextMiss, Step
  <2>2. LayoutOK'
    BY <2>1, LayoutStays DEF IInv
  <2> QED
    BY <2>1, <2>2, ResetStep DEF Labels
<1>3. CASE Initialize
  <2>1. /\ at = "initialize" /\ at' = "configure" /\ codec.state = "none"
        /\ UNCHANGED <<message, planes, buffer, jpeg, held>>
        /\ live' = live + 1 /\ ctx' = [ctx EXCEPT !.initialized = TRUE]
        /\ codec' = [codec EXCEPT !.state = "initialized", !.size = Size]
    BY <1>3 DEF Initialize, Step, IInv, StageOK
  <2>2. planes \in [uv : Nat, width : Nat, height : Nat, source_stride : Nat, chroma_height : Nat]
    BY <2>1, LocatedPlanes DEF IInv, LayoutOK
  <2>3. Size \in Nat \X Nat
    BY <2>2 DEF Size
  <2>4. /\ codec'.state = "initialized" /\ codec'.size = Size /\ codec'.frames = codec.frames
        /\ codec' \in [state : CodecStates, size : Nat \X Nat, frames : Seq(Nat)]
    BY <2>1, <2>3 DEF IInv, ContextOK, CodecStates
  <2>5. /\ ctx' \in [size : Nat \X Nat, initialized : BOOLEAN, started : BOOLEAN]
        /\ ctx'.initialized /\ ctx'.started = ctx.started
    BY <2>1 DEF IInv, ContextOK
  <2>6. ~ctx.started /\ live' = 1
    BY <2>1 DEF IInv, ContextOK
  <2>7. ContextOK'
    BY <2>4, <2>5, <2>6 DEF ContextOK
  <2>8. StageOK'
    BY <2>1, <2>4 DEF StageOK, Size
  <2>9. InsideOK'
    BY <2>1, <2>4 DEF IInv, InsideOK, message
  <2>10. LayoutOK'
    BY <2>1, LayoutStays DEF IInv, LayoutOK
  <2> QED
    BY <2>7, <2>8, <2>9, <2>10 DEF IInv
<1>4. CASE Configure
  <2>1. /\ at = "configure" /\ at' = "start" /\ codec.state = "initialized"
        /\ UNCHANGED <<message, planes, buffer, jpeg, ctx, live, held>>
        /\ codec' = [codec EXCEPT !.state = "configured"]
    BY <1>4 DEF Configure, Step, IInv, StageOK
  <2>2. ContextOK'
    BY <2>1 DEF IInv, ContextOK, CodecStates
  <2>3. StageOK'
    BY <2>1 DEF IInv, ContextOK, StageOK, Size
  <2>4. InsideOK'
    BY <2>1 DEF IInv, InsideOK, message, ContextOK
  <2>5. LayoutOK'
    BY <2>1, LayoutStays DEF IInv, LayoutOK
  <2> QED
    BY <2>2, <2>3, <2>4, <2>5 DEF IInv
<1>5. CASE Start
  <2>1. /\ at = "start" /\ at' = "dequeue_input" /\ codec.state = "configured"
        /\ UNCHANGED <<message, planes, buffer, jpeg, live, held>>
        /\ codec' = [codec EXCEPT !.state = "started"]
        /\ ctx' = [ctx EXCEPT !.started = TRUE, !.size = Size]
    BY <1>5 DEF Start, Step, IInv, StageOK
  <2>2. planes \in [uv : Nat, width : Nat, height : Nat, source_stride : Nat, chroma_height : Nat]
    BY <2>1, LocatedPlanes DEF IInv, LayoutOK
  <2>3. CapacityFits(OfSize(Size)) /\ codec.size = Size
    BY <2>1, <2>2, CapacityOfSize DEF IInv, LayoutOK, StageOK, Size
  <2>4. ContextOK'
    BY <2>1, <2>2, <2>3 DEF IInv, ContextOK, Size, CodecStates
  <2>5. StageOK'
    BY <2>1, <2>3 DEF IInv, StageOK, ContextOK, Size
  <2>6. InsideOK'
    BY <2>1 DEF IInv, InsideOK, message, ContextOK
  <2>7. LayoutOK'
    BY <2>1, LayoutStays DEF IInv, LayoutOK
  <2> QED
    BY <2>4, <2>5, <2>6, <2>7 DEF IInv
<1>6. CASE EnsureContextThrows
  <2>1. /\ at \in SetUpLabels /\ at' = "thrown"
        /\ UNCHANGED <<message, planes, buffer, jpeg, encoder>>
    BY <1>6 DEF EnsureContextThrows, Step
  <2>2. ContextOK' /\ StageOK'
    BY <2>1 DEF IInv, ContextOK, StageOK, encoder
  <2>3. InsideOK'
    BY <2>1 DEF IInv, InsideOK, encoder, message
  <2>4. LayoutOK'
    BY <2>1, LayoutStays DEF IInv
  <2> QED
    BY <2>2, <2>3, <2>4 DEF IInv
<1> QED
  BY <1>1, <1>2, <1>3, <1>4, <1>5, <1>6 DEF EnsureContext

LEMMA InputStep ==
  ASSUME IInv, DequeueInput \/ CopyIntoCodecInput \/ QueueInput
  PROVE  IInv'
<1> USE DEF LocatedLabels, SetUpLabels, EncodeLabels, OutputLabels
<1>1. CASE DequeueInput
  <2>1. /\ at = "dequeue_input" /\ at' = "copy" /\ buffer' \in Buffers
        /\ held' = held \cup {"input"} /\ UNCHANGED <<message, planes, jpeg, ctx, codec, live>>
    BY <1>1 DEF DequeueInput, Step
  <2>2. ContextOK' /\ StageOK'
    BY <2>1 DEF IInv, ContextOK, StageOK, Size
  <2>3. InsideOK'
    BY <2>1 DEF IInv, InsideOK, message
  <2>4. LayoutOK'
    BY <2>1 DEF IInv, LayoutOK, message, UnlocatedLabels
  <2> QED
    BY <2>2, <2>3, <2>4 DEF IInv
<1>2. CASE CopyIntoCodecInput /\ at' = "queue_input"
  <2>1. /\ at = "copy" /\ at' = "queue_input" /\ BufferTakes(planes, buffer)
        /\ UNCHANGED <<message, planes, buffer, jpeg, encoder>>
    BY <1>2 DEF CopyIntoCodecInput, Step
  <2>2. ContextOK' /\ StageOK'
    BY <2>1 DEF IInv, ContextOK, StageOK, Size, encoder
  <2>3. InsideOK'
    BY <2>1 DEF IInv, InsideOK, message, encoder
  <2>4. LayoutOK'
    BY <2>1 DEF IInv, LayoutOK, message, UnlocatedLabels
  <2> QED
    BY <2>2, <2>3, <2>4 DEF IInv
<1>3. CASE CopyIntoCodecInput /\ at' # "queue_input"
  <2>1. /\ at = "copy" /\ at' = "thrown" /\ Reset /\ UNCHANGED <<message, planes, buffer, jpeg>>
    BY <1>3 DEF CopyIntoCodecInput, Step, Catch
  <2>2. LayoutOK'
    BY <2>1, LayoutStays DEF IInv
  <2> QED
    BY <2>1, <2>2, ResetStep DEF Labels
<1>4. CASE QueueInput
  <2>1. /\ at = "queue_input" /\ at' = "dequeue_output" /\ held' = held \ {"input"}
        /\ codec' = [codec EXCEPT !.frames = Append(codec.frames, n)]
        /\ UNCHANGED <<message, planes, jpeg, ctx, live>>
    BY <1>4 DEF QueueInput, Step
  <2>2. codec.frames = << >> /\ n \in Nat /\ Append(<< >>, n) = << n >> /\ << n >> \in Seq(Nat)
    BY <2>1 DEF IInv, InsideOK
  <2>3. ContextOK' /\ StageOK'
    BY <2>1, <2>2 DEF IInv, ContextOK, StageOK, Size
  <2>4. InsideOK'
    BY <2>1, <2>2 DEF IInv, InsideOK, ContextOK, message
  <2>5. LayoutOK'
    BY <2>1 DEF IInv, LayoutOK, message, UnlocatedLabels
  <2> QED
    BY <2>3, <2>4, <2>5 DEF IInv
<1> QED
  BY <1>1, <1>2, <1>3, <1>4

LEMMA OutputStep ==
  ASSUME IInv, DequeueOutput \/ FindJpegEnd \/ QueueOutput \/ CallFails
  PROVE  IInv'
<1> USE DEF LocatedLabels, SetUpLabels, EncodeLabels, OutputLabels
<1>1. CASE DequeueOutput
  <2>1. /\ at = "dequeue_output" /\ at' = "find_end" /\ jpeg' = Head(codec.frames)
        /\ codec' = [codec EXCEPT !.frames = Tail(codec.frames)]
        /\ held' = held \cup {"output"} /\ UNCHANGED <<message, planes, buffer, ctx, live>>
    BY <1>1 DEF DequeueOutput, Step
  <2>2. codec.frames = << n >> /\ n \in Nat
    BY <2>1 DEF IInv, InsideOK
  <2>3. Head(codec.frames) = n /\ Tail(codec.frames) = << >> /\ << >> \in Seq(Nat)
    BY <2>2
  <2>4. ContextOK' /\ StageOK'
    BY <2>1, <2>3 DEF IInv, ContextOK, StageOK
  <2>5. InsideOK'
    BY <2>1, <2>3 DEF IInv, InsideOK, ContextOK, message
  <2>6. LayoutOK'
    BY <2>1, LayoutStays DEF IInv
  <2> QED
    BY <2>4, <2>5, <2>6 DEF IInv
<1>2. CASE FindJpegEnd \/ QueueOutput
  <2>1. /\ \/ at = "find_end" /\ at' = "queue_output" /\ held' = held
           \/ at = "queue_output" /\ at' = "publish" /\ held' = held \ {"output"}
        /\ UNCHANGED <<message, planes, buffer, jpeg, ctx, codec, live>>
    BY <1>2 DEF FindJpegEnd, QueueOutput, Step, encoder
  <2>2. ContextOK' /\ StageOK'
    BY <2>1 DEF IInv, ContextOK, StageOK
  <2>3. InsideOK'
    BY <2>1 DEF IInv, InsideOK, message
  <2>4. LayoutOK'
    BY <2>1, LayoutStays DEF IInv
  <2> QED
    BY <2>2, <2>3, <2>4 DEF IInv
<1>3. CASE CallFails
  <2>1. /\ at \in LocatedLabels /\ at' = "thrown" /\ Reset
        /\ UNCHANGED <<message, planes, buffer, jpeg>>
    BY <1>3 DEF CallFails, Step, Catch
  <2>2. LayoutOK'
    BY <2>1, LayoutStays DEF IInv
  <2> QED
    BY <2>1, <2>2, ResetStep DEF Labels
<1> QED
  BY <1>1, <1>2, <1>3

LEMMA EndStep ==
  ASSUME IInv, Return \/ Destroy
  PROVE  IInv'
<1> USE DEF LocatedLabels, UnlocatedLabels, SetUpLabels, EncodeLabels, OutputLabels
<1>1. CASE Return
  <2>1. /\ at \in {"publish", "thrown"} /\ at' = "idle" /\ frame' = NoFrame
        /\ image' = NoMessage /\ planes' = NoPlanes /\ UNCHANGED <<n, encoder>>
    BY <1>1 DEF Return
  <2>2. ContextOK' /\ StageOK'
    BY <2>1 DEF IInv, ContextOK, StageOK, encoder
  <2>3. InsideOK'
    BY <2>1 DEF IInv, InsideOK, encoder
  <2>4. LayoutOK'
    BY <2>1 DEF LayoutOK, NoMessage, Images
  <2> QED
    BY <2>2, <2>3, <2>4 DEF IInv
<1>2. CASE Destroy
  <2>1. at = "idle" /\ at' = "gone" /\ Reset /\ UNCHANGED <<message, planes, buffer, jpeg>>
    BY <1>2 DEF Destroy, Step
  <2>2. LayoutOK'
    BY <2>1 DEF IInv, LayoutOK, message
  <2> QED
    BY <2>1, <2>2, ResetStep DEF Labels
<1> QED
  BY <1>1, <1>2

LEMMA Stutter ==
  ASSUME IInv, UNCHANGED vars
  PROVE  IInv'
BY DEF IInv, ContextOK, StageOK, InsideOK, LayoutOK, vars, message, encoder, Size

LEMMA NextIInv ==
  ASSUME IInv, [Next]_vars
  PROVE  IInv'
BY PublishStep, LocateStep, EnsureStep, InputStep, OutputStep, EndStep, Stutter
   DEF Next, Encode, Gone

THEOREM Invariance == Spec => []IInv
BY Initially, NextIInv, PTL DEF Spec

-----------------------------------------------------------------------------
(* The theorems.                                                           *)

\* Every JPEG is published under the header of the image it shows, however many
\* calls of the codec have failed or come too late before.
THEOREM PictureMatchesHeader == Spec => []PictureOfThisImage
<1>1. IInv => PictureOfThisImage
  BY DEF IInv, InsideOK, PictureOfThisImage, OutputLabels
<1> QED
  BY <1>1, Invariance, PTL

\* The cached context is used only when it runs and was set up for the image's size.
THEOREM CodecFits == Spec => []CodecFitsImage
<1>1. IInv => CodecFitsImage
  BY DEF IInv, StageOK, CodecFitsImage, EncodeLabels
<1> QED
  BY <1>1, Invariance, PTL

\* No failure loses an instance, a buffer or a frame inside the codec.
THEOREM NothingIsLost == Spec => []NothingLost
<1>1. IInv => NothingLost
  BY DEF IInv, ContextOK, StageOK, InsideOK, NothingLost
<1> QED
  BY <1>1, Invariance, PTL

\* For every message and every buffer that passes the encoder's tests, both copies
\* stay within both, and the size told to the codec is the picture's.
THEOREM LayoutRespected == Spec => []LayoutIsRespected
<1>1. ASSUME IInv PROVE LayoutIsRespected
  <2>1. image \in Images /\ (planes # NoPlanes => planes \in Locate(image))
    BY <1>1 DEF IInv, StageOK, LayoutOK
  <2>2. planes # NoPlanes => ReadsInside(image, planes)
    BY <2>1, LocatedReadsInside
  <2>3. ASSUME at = "queue_input"
        PROVE  /\ WritesInside(planes, buffer)
               /\ 2 * SizeField(planes) = 3 * planes.width * planes.height
               /\ SizeField(planes) <= BitstreamSize(planes)
    <3>1. /\ planes \in Locate(image) /\ CapacityFits(planes)
          /\ buffer \in Buffers /\ BufferTakes(planes, buffer)
      BY <1>1, <2>3 DEF IInv, LayoutOK, LocatedLabels, EncodeLabels
    <3> QED
      BY <2>1, <3>1, TakenWritesInside, SizeFieldExact
  <2> QED
    BY <2>2, <2>3 DEF LayoutIsRespected
<1> QED
  BY <1>1, Invariance, PTL

\* A camera's frame of any even visible size and any padding is accepted by the
\* encoder, which finds its chroma plane from the size of the data alone.
THEOREM ChromaFound == Spec => []ChromaFoundWhereItWasPut
<1>1. ASSUME IInv PROVE ChromaFoundWhereItWasPut
  <2> SUFFICES ASSUME frame # NoFrame, WellFormed(frame)
               PROVE  /\ planes # NoPlanes => planes.uv = YSize(frame)
                      /\ at = "thrown" => planes # NoPlanes
    BY DEF ChromaFoundWhereItWasPut
  <2>1. frame \in Frames /\ image = ImageOf(frame) /\ image \in Images
    BY <1>1 DEF IInv, LayoutOK
  <2>2. planes # NoPlanes => planes \in Locate(image)
    BY <1>1 DEF IInv, StageOK, LayoutOK
  <2>3. Locate(image) # {} /\ \A p \in Locate(image) : p.uv = YSize(frame)
    BY <2>1, CameraFrameLocated
  <2>4. at = "thrown" => planes \in Locate(image)
    BY <1>1, <2>3 DEF IInv, LayoutOK
  <2> QED
    BY <2>1, <2>2, <2>3, <2>4, Located
<1> QED
  BY <1>1, Invariance, PTL
=============================================================================
