# Verification of the RoboBaton 4P ROS 2 sensor node

TLA+ models of `robobaton_sensors_node`: the process that takes frame sets from the SC132
camera library and samples from the ICM42688 IMU library and publishes both as ROS messages.
`src/` is the repository; a path such as `camera_publisher.cpp:414` is below `src/src/`.

## 1. The system

| component | code | state it keeps | operations |
|---|---|---|---|
| Camera core and publisher | `camera_publisher.cpp` | one bounded queue and one worker thread per camera; `accepting`, `failed_`, `stop_requested_`, `start_claimed_`, `terminal_`, `cleanup_complete_`; retained frames of the library | `Start`, frame-set callback, `Push`/`Pop`, publish, `RecordFailure`, `CloseAdmissionAndRequestStop`, `Cleanup`, `Stop` |
| IMU core and publisher | `imu_publisher.cpp` | a lock-free ring of 1024 samples between two threads; `admission_`, `failed_`, `failure_notified_`, `publisher_stop_`, `stop_failed_`; the driver handle | `Start`, sample callback, publish loop, `RecordFailure`, `Stop` |
| Timestamp mapper | `timestamp_mapper.cpp` | one snapshot of two clocks, taken when the node is built | capture, map, split into a ROS stamp |
| Publication rate metrics | `publication_rate_metrics.cpp`, used by both publishers | 14 atomics; the last sequence and timestamp under a mutex; the snapshot last reported | record source, drop, publish, failure; snapshot; difference of two snapshots |
| Sensor node and `main` | `robobaton_sensors_node.cpp` | `g_stop_requested`, `g_process_failed`; the two publishers | load parameters, start the IMU then the camera, spin until a signal or a failure, stop the camera then the IMU, exit status |
| NV12 JPEG plugin | `nv12_compressed_publisher.cpp` | the encoder's context, cached by image size | validate the layout, encode, publish |
| Camera configuration, helpers | `cam_demo_config.cpp`, `cam_demo_common.cpp` | two variables of the process environment | validate options, choose trigger mode and sensor profile, compute the output's axes |
| IMU rate monitor | `imu_rate_monitor.cpp` | a message counter | a separate diagnostic subscriber |
| Sensor libraries | `libsc132`, `libicm42688` (binaries) | their own threads | known from `sc132camera.h`, `icm42688_driver.h` |

How they interact. `main` owns the node and is the thread that starts and stops both publishers.
`libsc132` calls `FrameSetTrampoline` from its dispatcher thread; the callback retains each frame
and pushes it into its camera's queue, blocking there under the `block` policy; each camera's
worker pops, publishes and releases. `libicm42688` calls `SampleTrampoline` from its acquisition
thread, which fills the ring; one publisher thread drains it. Whichever thread fails first
records the failure of the core and, through a notifier, of the process; `main` sees that flag,
or the signal, and stops everything. Both publishers stamp messages with the node's one mapper.

What is hard, and what correctness means:

* *Camera.* Up to six threads (the owner, the library's dispatcher, four workers), a callback that may block inside the library
  that is being stopped, a `void` stop that may fail inside, failures at every step of start, run
  and cleanup. Every retained frame must go back exactly once; nothing may be left behind the
  owner's back; stop must end; a failure must stop the process and be reported; no frame may be
  dropped under `block` before the stop; frames stay in order.
* *IMU.* A ring without lock, whose indices wrap; a failure found by the acquisition thread, which
  may not notify and leaves that to a publisher thread that may just be leaving; a stop that must
  drain; a driver whose stop may fail with a callback in flight. No slot may be written while it
  is copied; samples are published without gap or repetition; what the stop finds is published.
* *Timestamps.* Unsigned subtraction, negation of the smallest integer, overflow, the width of
  a stamp's seconds. The messages of both sensors must lie on one time base.
* *Metrics.* Counters read one by one while two threads increment them without order. Every event
  must be reported in exactly one window, and the windows must tile the time.
* *Process.* Start half done, signals, failures and the ROS context's validity while queues drain.
  No thread may be left behind, every failure must end the process, and status 0 must mean success.
* *JPEG transport.* A codec whose calls fail or come late, behind a context cached by image size; a
  message that does not say how it is padded. Every JPEG must be the picture of its header, no
  codec instance may be lost, nothing may be read or written outside its buffer.
* *Configuration.* Parameters of one integer type loaded into another, a profile that goes through the
  process environment, a rotation and axes that are computed apart.

## 2. Modules

| module | what it is | models |
|---|---|---|
| `CameraLifecycle` | the camera pipeline, one action per handler step | `camera_publisher.cpp` (core, queues, `Impl::Start`, `Stop`) and the owner's part of `main` |
| `FrameLedger` | abstract: a frame is retained, then given back once, published in order or not | implemented by `CameraLifecycle` (`ImplementsFrameLedger`) |
| `MCCameraLifecycle` | the instance with two cameras and their symmetry | |
| `CameraLifecycleProofs` | theorems about `CameraLifecycle`: custody, shutdown, order, the steps of `FrameLedger` | |
| `ImuLifecycle` | the IMU path, one action per atomic access | `imu_publisher.cpp` and the owner's part of `main` |
| `ImuLifecycleProofs` | theorems about `ImuLifecycle`: the ring, the stop, the steps of `SampleStream` | |
| `SampleStream` | abstract: samples admitted, published in order, drained by a stop unless something failed | implemented by `ImuLifecycle` (`ImplementsSampleStream`) |
| `TimestampMapper` | the mapper's functions on integers of constant width, and the publishers that use them | `timestamp_mapper.cpp`, `HeaderStampFromFrame`, `PublishSample` |
| `TimestampMapperProofs` | theorems about `TimestampMapper` | |
| `PublicationRate` | the metrics of one camera under their three users | `publication_rate_metrics.cpp`, `LogRateMetrics`, the recording calls |
| `PublicationRateProofs` | theorems about `PublicationRate` | |
| `ImuRate` | the IMU's metrics, which count acquisition and publication apart | `SampleTrampoline`, `Snapshot`, `LogRateMetrics` of `imu_publisher.cpp` |
| `ImuRateProofs` | theorems about `ImuRate` | |
| `SensorProcess` | `main` and the node with both publishers, each abstracted to a library thread, a backlog and a worker | `robobaton_sensors_node.cpp`, and `Start`, `Stop` and the failure paths of both publishers |
| `SensorProcessProofs` | theorems about `SensorProcess` | |
| `Nv12Layout` | operators: the byte arithmetic from a camera frame to the codec's buffer | `ValidateAndLocatePlanes`, the sizes in `EnsureContext` and `CopyIntoCodecInput`, `PublishFrame` |
| `JpegEncoder` | an image through the plugin: its layout, the cached context, a codec that fails; extends `Nv12Layout` | `X5Nv12JpegEncoder`, `publish` of `nv12_compressed_publisher.cpp` |
| `JpegEncoderProofs` | theorems about `JpegEncoder`, and lemmas about the operators of `Nv12Layout` | |
| `CameraConfig` | the way of the parameters to `sc132_start_frame_set` | `LoadCameraConfig`, `cam_demo_config.cpp`, `cam_demo_common.cpp` |
| `CameraConfigProofs` | theorems about `CameraConfig` | |

### CameraLifecycle

A thread is the owner, the library's dispatcher or a worker, which has its camera's name; `pc`
says where it is, `todo` which cameras its loop has still to visit. A critical section with the
`notify` that follows is one step, an atomic access or library call is one step. `asleep` holds
the threads that wait on a condition variable; they are woken by a notify or spuriously
(`SpuriousWakeup`), so a thread that sleeps for ever is found by the liveness properties rather
than as a deadlock. `job` is the `RetainedFrameJob` in a thread's hands, `detached` what
`StopAndDetach` took out of the queues, `ledger` the fate of each frame. `core` and `impl` are the
flags of the two C++ objects; the core is static in the process, so `NewPublisher` creates a
second `Impl` on the same core. `Faults` selects which operations may fail; each failing branch
is an action of its own.

Externally given: the library delivers one frame set at a time while it runs; `sc132_request_stop`
latches STOPPING; `sc132_stop` waits for the callback, except that its internal thread join may
fail (`SdkJoinFailures` times), whereupon it returns with the library STOPPING and possibly a
callback still in flight, as `sc132camera.h` says. Ledger and loops name the cameras in any
order; the code's ascending order is one of them.

### ImuLifecycle

The three threads are `owner`, `producer` (the acquisition thread in `SampleTrampoline`) and
`publisher` (`PublishLoop`). Each load and store of `write_`, `read_`, `admission_`, `failed_`,
`publisher_stop_` and each access to a slot is a step. Sample `n` is the number `n`, so order,
loss and repetition are visible. Indices wrap at `IndexModulus`, a multiple of the capacity as
2^64 is of 1024.

### TimestampMapper

`MaxU64`, `MaxI64`, `MaxI32` and `NanosecondsPerSecond` are constants; sums and differences of
`uint64_t` and the casts wrap as the machine's do. A function that throws yields the empty set.
Both clocks advance together, and the realtime clock may be set at any time, also between the two
readings of `Capture`. `clock_gettime` itself is taken to succeed. The trigger modes are the two
that the option parser lets through; only in `software_gpio` are the camera's timestamps raw.

### PublicationRate

The dispatcher, the worker and the timer use the metrics of one camera. The increments are
relaxed: those of a thread wait in `pending` and become visible in any order, but all before the
thread next releases the queue's mutex. The loads are acquiring and are made one by one, in the
order of `AllLoads`; a snapshot follows the atomics in `Observed`, and an increment of any other
is visible at once, since nothing tells. Camera metrics use the 64-bit width, in which a step backwards from the very
largest sequence counts as a gap; no producer gets there, and no property tells the two apart there:
`ArrivalsClassified` adds gaps and steps backwards up.

### ImuRate

The acquisition thread counts a sample in `source_count_` before it looks at the admission, the
publisher counts it again in the metrics, and `Snapshot` puts the first count over the second.
`Init` is the moment `core_.Start` returns. `first`, `baseline` (the samples in the snapshot
that `Start` keeps) and `logged` (the sum of the lines) are history. The
increments wait in `pending` as in `PublicationRate`. In both modules an increment that is visible is
visible to every thread, as on the ARMv8 of the board; the C++ memory model alone would let
`SnapshotAgrees` and `LatencyCoversPublishes` fail.

### SensorProcess

`main` says where the main thread is, `todo` which publishers the present loop has still to visit.
Construction visits the IMU, then the camera; `StopPublishers` the camera, then the IMU; a
constructor that throws destroys the members in the reverse of their declaration, the IMU first.
A publisher is a record: its life, whether admission is open, the stop and failure flags, its
backlog, and where its library thread and its worker are. The failure notifier is two
steps (`Notify`, `ShutRos`) of whichever thread wins the exchange: the main thread, the worker or
the camera's callback. The differences between the two publishers that matter here are kept: the
camera closes before it waits for its library and leaves its queue to the cleanup, the IMU waits
first and drains; the IMU's callback only sets a flag. The four workers of the camera are one.
`Faults` selects what may fail; a rclcpp call may also throw whenever the context is invalid.

### JpegEncoder and Nv12Layout

`at` is the next call of `publish`. An image comes from a camera frame by `PublishFrame`, or is any
message, since the plugin serves whoever loads it. Sizes are numbers, planes are offsets into the
message's data; the largest values of `int`, `uint32_t` and `size_t` are constants, and a function
that throws yields the empty set. Assumed of `libsc132`: both planes of a frame are padded to the same
number of rows, which is what makes the encoder's guess of the chroma plane right.

The codec is external: an instance exists from `hb_mm_mc_initialize` to `hb_mm_mc_release`, encodes
in order, takes its frames and buffers with it, and hands out an input buffer of any layout. Assumed:
an `initialize` that fails leaves nothing to release, and a release succeeds (the code ignores its
result). `live` counts the instances handed out, `jpeg` is the image that the bytes copied out
belong to.

### CameraConfig

The parameters are the `int64_t` of ROS; `Modulus` is the number of values of `int` and `uint32_t`.
A function that throws yields the empty set. The environment outlives a publisher. The demo builds
one publisher per process; `MaxStarts` = 2 also lets a caller of the library build a second, on the
environment that the first left, which `LibraryFitsOptions` then covers for the model only: it is not
listed as a hazard of this program.

## 3. Runs

| run | instance | question |
|---|---|---|
| `camera_block` | 2 cameras, capacity 2, 4 frame sets, 2 publishers, one internal join failure | shutdown at any moment under `block`: custody, order, no drop, no lost wake-up, nothing behind the owner's back |
| `camera_faults` | 2 cameras, capacity 1, 2 sets, every fault, publishes that may never return | a quiescent cleanup, no failure unreported; under `drop_newest` the callback returns all the same |
| `camera_liveness` | capacity 1, allocation and publish may fail | stop ends; a failure shuts everything down; `FrameLedger` is implemented, its liveness included |
| `camera_sdk_retry` | the library's join fails twice | **violated**: see section 5 |
| `imu` | capacity 3, indices modulo 6, 9 samples, every fault, 2 starts | ring, cleanup, exit status; stop ends; a failure shuts down; `SampleStream` is implemented |
| `timestamp_mapper` | 3-bit integers, clocks up to 8 | one time base; nothing is refused that fits |
| `publication_rate` | any 2 frames with sequences 0, 1, 3 modulo 4, 2 windows, clock up to 2 | each event in one window; windows tile; latencies cover publishes; each arrival classified |
| `process` | backlog 2, every fault | ROS valid while draining; no thread left behind; what status 0 means; a signal or a failure ends the process |
| `jpeg_encoder` | 3 images, integers of 4 and 8 bits, every call may fail | the right picture; no instance or buffer lost; bounds of all reads and writes; the chroma plane is found |
| `camera_config` | `int` of 10 bits, 2 starts | what the library is started with fits the parameters |
| `camera_rate_narrowed` | a rate that is 30 modulo the width | **violated**: see section 5 |
| `imu_rate` | ring of 1, 3 samples, clock up to 2, a publisher that may stall | the log follows the acquisition; its fields agree |

The bounds. Two cameras are enough for every interaction of queues: the callback is held up by one
and owes frames to the other. `Capacity + 2` sets are what it takes to fill a queue and the worker's hand
and to block the callback behind them; `camera_block` has exactly these four, and with capacity 1
and two sets the second Push blocks when the worker has not popped yet; two publishers reach the second
`Impl` on a used core. The ring is filled, drained and wrapped at least once (`MaxSamples` exceeds
both capacity and `IndexModulus`). With 3-bit integers and a clock that runs one beyond them every
boundary of the mapper is crossed. Two frames and two windows let counts change between any two
loads, in the first window (which has no predecessor) and in a later one; the sequences make every
class of a step, and the wrap.

A backlog of two lets a publisher hold an item in its worker's hand, one in the queue and refuse
the next. Three images reach a failure, the recovery and a change of size; the capacity of the
context, in the small integers, admits three sizes. The integers are small enough for products and
sums to overflow, and the sizes listed in the cfg are compact, padded, padded by an odd row count,
and beyond half the range. The parameters are values at, between
and beyond those accepted, and some that are accepted only modulo the width. Three samples are one
in the publisher's hand, one in the ring and one that overflows it.

The runs of `PublicationRate` and `CameraConfig` turn deadlock checking off: their bounds use up the
frames, the ticks and the clock, or the starts. In the other runs the end of the process is a stutter step
of the model, so that a deadlock would be a real one.

Fairness. `FairSpec` of the camera assumes that each thread of the process that can go on does go
on: the owner, the dispatcher inside a callback, each worker. The code waits nowhere but on
its condition variables, its joins and `sc132_stop`, and a publish returns, so the scheduler gives
this. The library need not deliver anything, nor a signal ever come, and nothing is assumed of
spurious wakeups. `FairCallbackSpec` assumes fairness of the callback alone: that is the point of
`drop_newest`. The IMU's `FairSpec` is the same for its three threads. `SensorProcess` assumes that
the main thread, each worker and each library thread that is in the notifier go on, and nothing
of items, signals, or the executor's exceptions. `ImuRate` assumes that the timer fires again and
again, and nothing of the publisher, whose publish may never return: that is its point.

## 4. Properties

Each is stated in a comment above its definition; the hazards they answer, with their lines, are
in `PROJECT.json`. The less obvious ones:

* `NoFrameBehindTheOwner`: from the join on, the only frames not yet returned are those of a
  worker's sink and of the one callback in flight. It needs Push's test after its wait, the
  close of the queues before the join, and `StopAndDetach`.
* `FailureIsNotified`: the losers of the exchange in `RecordFailure` go on as if the process had
  been told; somebody must be about to tell it. The notifier is there until the cleanup clears it
  (`HasNotifier`).
* `NoLostWakeup`: nobody sleeps on a condition of a queue that already holds, with `notify_one` and
  `notify_all` from the other side, from the stop and from the cleanup.
* `FailureReachesProcess` and `FailureShutsDown` (IMU): the acquisition thread only sets a flag,
  and the publisher must see it on every way out of its loop.
* `ImplementsSampleStream`: among the rest, a stop without failure leaves no admitted sample
  unpublished, which rests on the second load of `write_` at `imu_publisher.cpp:210`.
* `CommonTimeBase`: the stamps of two messages lie as far apart as their acquisitions,
  whatever is done to the realtime clock meanwhile.
* `ReportedOnce`: what the windows logged adds up to a value each counter really had.
* `RosValidWhileDraining`: the comment at `robobaton_sensors_node.cpp:241`, which rests on
  `SignalHandlerOptions::None`, on the order of shutdown and stop, and on the order inside the notifier.
* `SuccessIsComplete`: the exit status relates the failure flags of both cores, the drained
  backlogs and the destruction of both publishers.
* `NoThreadOutlivesItsPublisher`: also when the camera's constructor throws after the IMU runs, or
  the rate timer cannot be created after the core has started.
* `PictureOfThisImage`: a frame that the codec delivers too late must not become the next image's
  JPEG; the reset in `Encode`'s handler is what prevents it.
* `NothingLost`: of the codec's instances and buffers, whichever call of the set-up or of the encoding
  failed.
* `LayoutIsRespected`: the copies stay within the message and the codec's planes for every accepted
  layout, overflow included.
* `ChromaFoundWhereItWasPut`: two files agree on a padding that the message does not carry.
* `AcquisitionReported`: the comment at `imu_publisher.cpp:253`, against a publisher that stalls, of the
  sum of the lines logged: each sample is in one of them in the end. Those acquired before `Start` took
  its snapshot are the baseline, which each later line subtracts and none shows.

## 5. Findings

`camera_sdk_retry` (`LibraryQuiesced`). The library's header says that when the internal
`pthread_join` of `sc132_stop` fails the library stays STOPPING and the caller must retry until it
succeeds. `CleanupLocked` calls the `void` function exactly twice, cannot see its result, and
declares the cleanup quiesced and complete. With one internal failure the second call repairs
it; with two, the sink and the notifier are cleared while
the library may still be inside a callback. Should that callback throw, `RecordFailure` finds no notifier,
and only a further `Stop` hears of the failure.

`camera_rate_narrowed` (`RateAsConfigured`). `DeclareInt` returns the `int64_t` of
`declare_parameter<int>` as an `int`, before `ValidateCameraOptions` compares it with the frame rates that
the README lists. A parameter that is 30 modulo 2^32 starts the camera at 30 fps instead of being
rejected. The `uint32` parameters are range-checked, and `LibraryFitsOptions` shows it for the mask.

## 6. Proofs

Every safety invariant and every action property that a passing run checks is also a theorem, for
every value of the constants that satisfies the modules' named assumptions. These say no more than the
code does: the threads are distinct, there is a camera, capacities are positive (the constructors reject 0),
the parameters are integers, integers have the widths of two's complement, and the ring's indices
wrap at a multiple of its capacity. One assumption stands in theorems themselves,
`SdkJoinFailures < 2`; see the camera below. Each proof module names an inductive invariant `IInv` in parts,
shows `Initially`/`InitIInv`, one lemma for each group of actions, and `Invariance`; the properties
follow.

*Camera* (`CameraLifecycleProofs`). `IInv` says where each thread can be (`PcOK`), which flags of
the core go with which step of start and cleanup (`StartOK`, `FlagsOK`), and who holds which frame
(`FramesOK`: `HandOK`, `QueuesOK`, `FreshOK` and `FrameCustody`). `FrameCustody` alone is not
inductive: that a frame pushed is not already in a queue needs that a frame retained is fresh, and that
a detached batch does not grow needs where the owner is. Two more invariants stand on `IInv`:
`ShutdownOK`, what each stage of the cleanup has behind it (`TerminalOK`, `DrainedOK`, `JoinedOK`,
`LibraryOK`), and `OrderOK`, each camera's frames in the order of delivery from the published ones
over the worker's hand to the queue.

* `TypeCorrect`, `Custody`: `TypeOK`, `FrameCustody`.
* `NeverDrops`: `BlockNeverDrops`; only a Push that returns false drops a frame (`DropMoves`), and a
  stopped queue is never opened again (`StoppedMonotone`).
* `SleepersWait`: `NoLostWakeup`, from `SleepOK`, which adds where the sleepers are: a step that changes a
  queue removes exactly those from `asleep` that it could concern.
* `NothingBehindTheOwner`: `NoFrameBehindTheOwner`. `DrainedStays`: what `StopAndDetach` has emptied
  stays empty, although a callback may be about to push.
* `NothingLeftBehind`: once the cleanup is complete *and* the library has stopped, no worker is left and
  every frame is back, however often the library's join failed.
* `LibraryStops`, `CleanupIsQuiescent`: under `SdkJoinFailures < 2`, also that the library has stopped
  (`LibraryQuiesced`, `QuiescentCleanup`). `CleanupLocked` calls `sc132_stop` exactly twice, and
  `LibraryOK` counts: the second call repairs one failure. With two the statement is false, which is
  the finding of `camera_sdk_retry`.
* `FailureKnown`, `FailureNotified`: `FailureIsNotified`, for any number of join failures as long as the
  library has stopped wherever the cleanup is complete, and without that condition under
  `SdkJoinFailures < 2`. Their invariant `NotifiedOK` names the one exception, a callback that outlives
  its notifier; `OnlyLateCallback` says that it is the only one.
* `InOrder`: `PublishedInOrder`.
* `StepsOfTheLedger`: the pipeline starts as `FrameLedger` does and takes its steps or stutters, also
  under `SdkJoinFailures < 2`, since the ledger closes with nothing held.

*IMU* (`ImuLifecycleProofs`). `IInv` is `TypeOK`, the control (`ControlOK`: `ProducerOK`,
`PublisherOK`, `OwnerOK`, `FailureOK`), and the stream. `RingOK` relates indices and slots to the step the
producer and the publisher are at, `PublishedOK` the sink to the publisher's copy, and `StreamOK` says that
what is taken, what is in the ring and what the producer holds are consecutive until a sample is
refused. The lemmas before it are about `Span`, the distance of two indices modulo `IndexModulus`, and
about slots: two positions in use never share one. From it
`TypeCorrect`, `SlotsNeverRace`, `RingIsTheStream`, `DestroyIsQuiescent` and
`FailureIsReported` are the run's five invariants, and `StepsOfTheStream` the step simulation of
`SampleStream`; its close needs that a publisher that leaves without failure leaves an empty ring.

*Process* (`SensorProcessProofs`). `WalkOK` relates `main` and `todo` to the life of each publisher on
both walks, `EndOK` says what the end of `main` has behind it, `PublisherOK` what the threads of a publisher may
do at each stage of its life, `StopOK` what each step of the stop has reached for the camera and for
the IMU. From these `ThreadsEndFirst`, `RosIsValid` and `StatusIsTrue`.

*JPEG* (`JpegEncoderProofs`). Lemmas on the operators of `Nv12Layout`, for all widths: what `Locate`
accepts is read inside the message (`LocatedReadsInside`), what the copy accepts is written inside the
codec's planes (`TakenWritesInside`), the checked sums and products are exact (`RawSizeExact`,
`SizeFieldExact`), and a camera frame's chroma plane is found (`CameraFrameLocated`). The
invariant is `ContextOK` (the cached flags tell the codec's state), `StageOK`, `InsideOK` (frames and
buffers are out only inside the try block) and `LayoutOK`. From them `PictureMatchesHeader`,
`CodecFits`, `NothingIsLost`, `LayoutRespected`, `ChromaFound`.

*Metrics* (`PublicationRateProofs`). `CountersOK` bounds each loaded counter by the last report
and by what it is now; `PublishesOK` and `LoadedOK` follow the publish and its latency through `pending`
and through the order of the loads; `FirstOK` and `WindowsOK` are the start of the first window and the
seam of two; `ClassesOK` is about the tally of each class, visible or not, and the arrivals. `LoggedOnce`,
`TheWindowsTile`, `LatencyIsCovered`, `ClassesAreRight` are the four invariants of the run.
`ImuRateProofs` proves `SnapshotIsConsistent` from `FlowOK` (what is published or on its way has been
counted before), `FirstOK` and `LoadedOK` (the snapshot so far, in the order of its loads), and from these
`LoggedOnce`, the safety half of `AcquisitionReported`: baseline and lines add up to the last snapshot
and never to more than was acquired.

*Timestamps* (`TimestampMapperProofs`). Four theorems say of each function of the mapper that it
computes the integer result and refuses exactly what does not fit, for all widths: `ReadExact`,
`CheckedOffsetExact` (with the smallest integer), `MapExact`, `StampExact` (with the last second
that an `int32_t` holds). From them
`TimeBase`, `ThrowsInRange` and `OffsetAccepted` are the module's three properties as theorems.

*Configuration* (`CameraConfigProofs`). `LibraryFits`: what the library is started with fits the
parameters; `ProfileOK` says which publisher leaves which profile in the environment for a second, should a caller build one.

*What the proofs found in the models.* The camera's start, when the library refuses it, re-opened an
admission that a worker had closed meanwhile (`StartReturnsFailure` of `SensorProcess`); the source sets
`accepting` only before it calls the library. Two cases of `SequenceClass` overlapped at the largest sequence. Neither was
visible in a run; both are corrected after the source.

*Only model-checked*: what needs fairness and ENABLED, which TLAPS does not handle: `StopEnds`,
`FailureShutsDown`, `CallbackReturns`, `SignalEnds`, `FailureEnds`, `AcquisitionReported`, and the
liveness part of `ImplementsFrameLedger` and `ImplementsSampleStream` (the theorems above are their
safety part). The two violations are counterexamples and belong to TLC.


## 7. Not modelled, and the plan

Not modelled: message assembly but for the image's layout (one step that may throw), the
contract-test harnesses in the two publishers, the parameters of the IMU and of the diagnostics,
the declaration of the JPEG quality, topic names, logging, the build, install and launch files. The
32-bit sequence width is left out of `PublicationRate`, as no publisher uses it.
`imu_rate_monitor` is a program of its own with one counter on one executor thread: nothing in
it interleaves, what its best-effort subscription loses is the middleware's, and a property of its
count would restate an assignment.

What follows:

1. Theorems beyond the runs' properties where they say something of the code that a bounded run
   cannot: the accounting of frames by `delivered` and `ledger` for any number of publishers, monotone
   counters of `PublicationRate`.
2. `StepsOfTheLedger` without `SdkJoinFailures < 2`, for a ledger whose close may leave the
   callback's frame, so that what two join failures can still cost is bounded.
3. Shorter proofs of the control invariants (`CameraLifecycleProofs`, `SensorProcessProofs`), where one
   lemma on the steps of the other threads serves several parts.
