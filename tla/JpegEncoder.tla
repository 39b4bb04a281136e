----------------------------- MODULE JpegEncoder -----------------------------
(***************************************************************************)
(* Publishing an image through the transport plugin of                     *)
(* src/nv12_compressed_publisher.cpp: the layout is validated, the codec   *)
(* context is cached by image size, and each codec call may fail.          *)
(*                                                                         *)
(* The media codec is external: an instance exists from initialize to      *)
(* release, encodes what is queued in order, and may be late.  The n-th    *)
(* image published is the number n.                                        *)
(***************************************************************************)
EXTENDS Nv12Layout, Sequences

CONSTANTS
    Faults,        \* the calls that may fail in this instance
    MaxImages,     \* bound: images published
    ImageFields,   \* bound: widths, heights and steps of messages
    DataSizes,     \* bound: sizes of a message's data
    FrameFields,   \* bound: widths, heights and strides of camera frames
    BufferFields,  \* bound: strides of the codec's input buffer
    PlaneSizes     \* bound: sizes of its planes

ASSUME InputAssumption ==
    /\ MaxImages \in Nat
    /\ ImageFields \subseteq 0..MaxU32 /\ FrameFields \subseteq 1..MaxU32
    /\ DataSizes \subseteq 0..MaxU64 /\ PlaneSizes \subseteq 0..MaxU64
    /\ BufferFields \subseteq 0..MaxI32

Frames == [width : FrameFields, height : FrameFields, stride : FrameFields, vstride : FrameFields]
Messages == [width : ImageFields, height : ImageFields, step : ImageFields, size : DataSizes]
Buffers == [stride : BufferFields, vstride : BufferFields, y_size : PlaneSizes, uv_size : PlaneSizes]

NoFrame == [width |-> 0, height |-> 0, stride |-> 0, vstride |-> 0]
NoMessage == [width |-> 0, height |-> 0, step |-> 0, size |-> 0]
NoPlanes == [uv |-> 0, width |-> 0, height |-> 0, source_stride |-> 0, chroma_height |-> 0]
NoBuffer == [stride |-> 0, vstride |-> 0, y_size |-> 0, uv_size |-> 0]
NoSize == <<0, 0>>

VARIABLES
    at,      \* where publish is, in Encode or EnsureContext
    n,       \* the number of the image
    frame,   \* the camera frame it was made from, if any
    image,   \* the message: width, height, step and the size of data
    planes,  \* Nv12Planes
    buffer,  \* the layout of the codec's input buffer
    jpeg,    \* the image that the JPEG copied out shows
    ctx,     \* width_ and height_, initialized_, started_
    codec,   \* the instance in context_: its state, its size, the images inside
    live,    \* instances the codec has handed out and not got back
    held     \* the buffers in the encoder's hands

message == <<n, frame, image>>
encoder == <<ctx, codec, live, held>>
vars == <<at, message, planes, buffer, jpeg, encoder>>

NoContext == [size |-> NoSize, initialized |-> FALSE, started |-> FALSE]
NoCodec == [state |-> "none", size |-> NoSize, frames |-> <<>>]

Init ==
    /\ at = "idle" /\ n = 0
    /\ frame = NoFrame /\ image = NoMessage /\ planes = NoPlanes /\ buffer = NoBuffer
    /\ jpeg = 0 /\ ctx = NoContext /\ codec = NoCodec /\ live = 0 /\ held = {}

-----------------------------------------------------------------------------
\* Mutant: only a context that was started is released.
ResetStartedOnly ==
    /\ live' = IF ctx.started THEN live - 1 ELSE live
    /\ ctx' = NoContext /\ codec' = NoCodec /\ held' = {}

\* Pause what was started, release what was initialized, forget both.  The
\* instance takes its frames and buffers with it.
Reset ==
    /\ live' = IF ctx.initialized THEN live - 1 ELSE live
    /\ ctx' = NoContext /\ codec' = NoCodec /\ held' = {}

Step(from, to) == at = from /\ at' = to

\* Mutant: an exception leaves the context for the next image.
CatchKeepsContext == UNCHANGED encoder

\* Encode's handler: reset and rethrow.
Catch == Reset

\* A codec call, or a test on what it returned, fails inside Encode's try block;
\* also a dequeue for which the codec is too late, with the frame inside.
CallFails ==
    \E call \in Faults \cap {"dequeue_input", "queue_input", "dequeue_output",
                             "find_end", "queue_output"} :
        Step(call, "thrown") /\ Catch /\ UNCHANGED <<message, planes, buffer, jpeg>>

-----------------------------------------------------------------------------
(* publish: one image at a time, under encoder_mutex_.                     *)

\* A frame of the camera; PublishFrame throws when the plane sizes overflow their sum.
PublishFrame ==
    /\ Step("idle", "locate")
    /\ n < MaxImages /\ n' = n + 1
    /\ \E f \in Frames : ImageOf(f).size <= MaxU64 /\ frame' = f /\ image' = ImageOf(f)
    /\ UNCHANGED <<planes, buffer, jpeg, encoder>>

\* The plugin serves other nodes too, with whatever they publish.
PublishMessage ==
    /\ Step("idle", "locate")
    /\ n < MaxImages /\ n' = n + 1
    /\ image' \in Messages
    /\ UNCHANGED <<frame, planes, buffer, jpeg, encoder>>

\* A refused message leaves the context alone.
ValidateAndLocatePlanes ==
    /\ \/ Step("locate", "thrown") /\ Locate(image) = {} /\ UNCHANGED planes
       \/ Step("locate", "ensure") /\ planes' \in Locate(image)
    /\ UNCHANGED <<message, buffer, jpeg, encoder>>

\* Either outcome of publish; its locals are gone.  Whether publish_fn throws, outside
\* the mutex, does not concern the encoder.
Return ==
    /\ at \in {"publish", "thrown"} /\ at' = "idle"
    /\ frame' = NoFrame /\ image' = NoMessage /\ planes' = NoPlanes /\ buffer' = NoBuffer
    /\ jpeg' = 0
    /\ UNCHANGED <<n, encoder>>

Destroy == Step("idle", "gone") /\ Reset /\ UNCHANGED <<message, planes, buffer, jpeg>>

-----------------------------------------------------------------------------
(* EnsureContext.                                                          *)

Size == <<planes.width, planes.height>>

\* Mutant: any started context is taken.
HitAnySize == ctx.started

Hit == ctx.started /\ ctx.size = Size

ContextHit ==
    Hit /\ Step("ensure", "dequeue_input") /\ UNCHANGED <<message, planes, buffer, jpeg, encoder>>

\* The capacity is computed after the old context is gone.
ContextMiss ==
    /\ ~Hit
    /\ Step("ensure", IF CapacityFits(planes) THEN "initialize" ELSE "thrown")
    /\ Reset
    /\ UNCHANGED <<message, planes, buffer, jpeg>>

Initialize ==
    /\ Step("initialize", "configure")
    /\ live' = live + 1
    /\ ctx' = [ctx EXCEPT !.initialized = TRUE]
    /\ codec' = [codec EXCEPT !.state = "initialized", !.size = Size]
    /\ UNCHANGED <<message, planes, buffer, jpeg, held>>

Configure ==
    /\ Step("configure", "start")
    /\ codec' = [codec EXCEPT !.state = "configured"]
    /\ UNCHANGED <<message, planes, buffer, jpeg, ctx, live, held>>

Start ==
    /\ Step("start", "dequeue_input")
    /\ codec' = [codec EXCEPT !.state = "started"]
    /\ ctx' = [ctx EXCEPT !.started = TRUE, !.size = Size]
    /\ UNCHANGED <<message, planes, buffer, jpeg, live, held>>

\* Nothing is undone: Encode's try block is not entered yet, the next EnsureContext
\* or the destructor resets.
EnsureContextThrows ==
    /\ \E call \in Faults \cap {"initialize", "configure", "start"} : Step(call, "thrown")
    /\ UNCHANGED <<message, planes, buffer, jpeg, encoder>>

-----------------------------------------------------------------------------
(* Encode's try block.                                                     *)

DequeueInput ==
    /\ Step("dequeue_input", "copy")
    /\ buffer' \in Buffers
    /\ held' = held \cup {"input"}
    /\ UNCHANGED <<message, planes, jpeg, ctx, codec, live>>

CopyIntoCodecInput ==
    /\ \/ Step("copy", "queue_input") /\ BufferTakes(planes, buffer) /\ UNCHANGED encoder
       \/ Step("copy", "thrown") /\ ~BufferTakes(planes, buffer) /\ Catch
    /\ UNCHANGED <<message, planes, buffer, jpeg>>

QueueInput ==
    /\ Step("queue_input", "dequeue_output")
    /\ codec' = [codec EXCEPT !.frames = Append(@, n)]
    /\ buffer' = NoBuffer /\ held' = held \ {"input"}
    /\ UNCHANGED <<message, planes, jpeg, ctx, live>>

\* The oldest frame in the codec is done first.
DequeueOutput ==
    /\ Step("dequeue_output", "find_end")
    /\ jpeg' = Head(codec.frames)
    /\ codec' = [codec EXCEPT !.frames = Tail(@)]
    /\ held' = held \cup {"output"}
    /\ UNCHANGED <<message, planes, buffer, ctx, live>>

\* FindJpegEnd, then the copy.
FindJpegEnd ==
    Step("find_end", "queue_output") /\ UNCHANGED <<message, planes, buffer, jpeg, encoder>>

QueueOutput ==
    /\ Step("queue_output", "publish")
    /\ held' = held \ {"output"}
    /\ UNCHANGED <<message, planes, buffer, jpeg, ctx, codec, live>>

EnsureContext ==
    ContextHit \/ ContextMiss \/ Initialize \/ Configure \/ Start \/ EnsureContextThrows

Encode ==
    \/ ValidateAndLocatePlanes \/ EnsureContext
    \/ DequeueInput \/ CopyIntoCodecInput \/ QueueInput
    \/ DequeueOutput \/ FindJpegEnd \/ QueueOutput \/ CallFails

Gone == at = "gone" /\ UNCHANGED vars

Next == PublishFrame \/ PublishMessage \/ Encode \/ Return \/ Destroy \/ Gone

Spec == Init /\ [][Next]_vars

-----------------------------------------------------------------------------
(* Properties.                                                             *)

\* What is published under a message's header is that message's picture, also
\* after an earlier frame came too late.
PictureOfThisImage == at = "publish" => jpeg = n

\* Frames go only into a running codec that was set up for their size.
CodecFitsImage ==
    at \in {"dequeue_input", "copy", "queue_input", "dequeue_output"} =>
        codec.state = "started" /\ codec.size = Size

\* Wherever the set-up or the encoding failed, no instance is lost and none outlives
\* the encoder; between two images every buffer is back in the codec, which has three
\* of each, and no earlier frame is inside.
NothingLost ==
    /\ live = IF codec.state = "none" THEN 0 ELSE 1
    /\ at = "gone" => live = 0
    /\ at \in {"idle", "publish", "thrown"} => held = {} /\ codec.frames = <<>>

\* Whatever size a padded message has and whatever strides the codec's buffer, the
\* copies stay within both, and the size told to the codec is the picture's, although
\* it is cast to uint32_t.
LayoutIsRespected ==
    /\ planes # NoPlanes => ReadsInside(image, planes)
    /\ at = "queue_input" =>
          /\ WritesInside(planes, buffer)
          /\ 2 * SizeField(planes) = 3 * planes.width * planes.height
          /\ SizeField(planes) <= BitstreamSize(planes)

\* The encoder finds the chroma plane where the camera's publisher put it, though the
\* message has no field for it, and never refuses the layout of a camera's frame,
\* which would end the camera.
ChromaFoundWhereItWasPut ==
    frame # NoFrame /\ WellFormed(frame) =>
        /\ planes # NoPlanes => planes.uv = YSize(frame)
        /\ at = "thrown" => planes # NoPlanes
=============================================================================
