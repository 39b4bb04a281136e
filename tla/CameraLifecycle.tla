-------------------------- MODULE CameraLifecycle --------------------------
(***************************************************************************)
(* The camera pipeline of src/camera_publisher.cpp: CameraPublisher::Impl  *)
(* (Start, Stop), the process-lifetime CameraLifecycleCore behind it, one  *)
(* FrameQueue and one ROS worker thread per camera, and the callback that  *)
(* the SC132 library makes from its dispatcher thread.                     *)
(*                                                                         *)
(* Three kinds of threads interleave: the owner (the main thread, which    *)
(* runs Start and Stop), the library's dispatcher, and the workers, which  *)
(* are named by their camera.  A step ends where the code touches shared   *)
(* state: a mutex region with the notify that follows it is one step, an   *)
(* atomic operation or a library call is one step.                         *)
(***************************************************************************)
EXTENDS Naturals, Sequences, Functions

CONSTANTS
    Cameras,         \* the cameras of config_.camera_mask
    Owner,           \* the thread that calls Impl::Start and Impl::Stop
    Dispatcher,      \* the library thread that makes the frame-set callback
    NoFrame,         \* an empty RetainedFrameJob (frame_ == nullptr)
    Capacity,        \* config_.queue_capacity
    DropNewest,      \* config_.drop_newest; FALSE is the "block" policy
    Faults,          \* the operations that may fail in this instance
    MaxSets,         \* bound: frame sets the library delivers
    MaxStarts,       \* bound: publishers created in this process
    SdkJoinFailures  \* bound: internal join failures of the library's stop

ASSUME ThreadsAssumption ==
    /\ Owner \notin Cameras
    /\ Dispatcher \notin Cameras
    /\ Owner # Dispatcher
\* ValidateConfig rejects camera_mask == 0.
ASSUME CamerasAssumption == Cameras # {}
ASSUME NoFrameAssumption == NoFrame \notin Cameras \X (1..MaxSets)
\* Impl's constructor rejects queue_capacity == 0.
ASSUME BoundsAssumption ==
    /\ Capacity \in Nat \ {0}
    /\ DropNewest \in BOOLEAN
    /\ MaxSets \in Nat
    /\ MaxStarts \in Nat \ {0}
    /\ SdkJoinFailures \in Nat

Threads == Cameras \cup {Owner, Dispatcher}
\* Frame <<c, n>> is camera c's image in the n-th frame set.
Frames == Cameras \X (1..MaxSets)
Camera(f) == f[1]

VARIABLES
    pc,         \* where each thread is
    todo,       \* cameras a thread's loop over cameras has still to visit
    asleep,     \* threads waiting on a condition variable
    queue,      \* FrameQueue::queue_ of each camera
    stopped,    \* FrameQueue::stopped_ of each camera
    job,        \* the RetainedFrameJob each thread has in hand
    detached,   \* CleanupLocked's batches, out of every queue
    ledger,     \* what became of each frame's reference
    accepting,  \* CallbackBridge::accepting
    core,       \* the flags of CameraLifecycleCore
    impl,       \* Impl::started_, g_process_failed, the operation that runs
                \* CleanupLocked, and the publishers created so far
    sdk         \* the SC132 library, the frame sets it delivered, and the internal
                \* join failures it may still have

frames == <<queue, job, detached, ledger>>
gates  == <<accepting, stopped, asleep>>
state  == <<frames, gates, core, impl, sdk>>
vars   == <<pc, todo, state>>

OwnerLabels == {"start", "configure", "spawn", "call_start", "starting", "run", "stop",
                "cleanup", "detach", "release", "join", "sdk_stop_1", "sdk_stop_2",
                "complete", "finish", "fatal", "stopped", "exit"}
\* CloseAdmissionAndRequestStop and RecordFailure, which every thread may run.
SharedLabels == {"accept", "request", "call", "queues", "record", "notify"}
CallbackLabels == {"idle", "check", "item", "push"}
WorkerLabels == {"none", "pop", "sink", "exited"}

LabelsOf(t) ==
    SharedLabels \cup
        (IF t = Owner THEN OwnerLabels
         ELSE IF t = Dispatcher THEN CallbackLabels ELSE WorkerLabels)
Labels == SharedLabels \cup OwnerLabels \cup CallbackLabels \cup WorkerLabels

Outcomes == {"library", "held", "published", "failed", "dropped", "discarded"}

CoreFlags == [failed : BOOLEAN, stop_requested : BOOLEAN, start_claimed : BOOLEAN,
              terminal : BOOLEAN, cleanup_complete : BOOLEAN]
ImplStates == [started : BOOLEAN, process_failed : BOOLEAN, caller : {"Start", "Stop"},
               starts : 1..MaxStarts]
SdkStates == [library : {"idle", "running", "stopping", "stopped"},
              delivered : 0..MaxSets, join_failures : 0..SdkJoinFailures]

TypeOK ==
    /\ pc \in [Threads -> Labels] /\ \A t \in Threads : pc[t] \in LabelsOf(t)
    /\ todo \in [Threads -> SUBSET Cameras]
    /\ asleep \subseteq Threads
    /\ queue \in [Cameras -> Seq(Frames)] /\ \A c \in Cameras : Len(queue[c]) <= Capacity
    /\ stopped \in [Cameras -> BOOLEAN]
    /\ job \in [Threads -> Frames \cup {NoFrame}]
    /\ detached \subseteq Frames
    /\ ledger \in [Frames -> Outcomes]
    /\ accepting \in BOOLEAN
    /\ core \in CoreFlags
    /\ impl \in ImplStates
    /\ sdk \in SdkStates

Init ==
    /\ pc = [t \in Threads |-> IF t = Owner THEN "start"
                               ELSE IF t = Dispatcher THEN "idle" ELSE "none"]
    /\ todo = [t \in Threads |-> Cameras]
    /\ asleep = {}
    /\ queue = [c \in Cameras |-> << >>]
    /\ stopped = [c \in Cameras |-> FALSE]
    /\ job = [t \in Threads |-> NoFrame]
    /\ detached = {}
    /\ ledger = [f \in Frames |-> "library"]
    /\ accepting = FALSE
    /\ core = [failed |-> FALSE, stop_requested |-> FALSE, start_claimed |-> FALSE,
               terminal |-> FALSE, cleanup_complete |-> FALSE]
    /\ impl = [started |-> FALSE, process_failed |-> FALSE, caller |-> "Start", starts |-> 1]
    /\ sdk = [library |-> "idle", delivered |-> 0, join_failures |-> SdkJoinFailures]

-----------------------------------------------------------------------------
(* Helpers.                                                                *)

\* std::_Exit ends every thread of the process.
At(t, label) == pc[t] = label /\ pc[Owner] # "exit"
Awake(t) == t \notin asleep

Goto(t, label) == pc' = [pc EXCEPT ![t] = label]

\* A step that changes nothing but where t is; a failure of t's next operation.
Move(t, from, to) == At(t, from) /\ Goto(t, to) /\ UNCHANGED <<todo, state>>
Fails(t, fault, from, to) == fault \in Faults /\ Move(t, from, to)

\* One round of thread t's loop over the cameras; a finished loop is rewound.
Visit(t, c, again, next) ==
    /\ c \in todo[t]
    /\ todo' = [todo EXCEPT ![t] = IF @ = {c} THEN Cameras ELSE @ \ {c}]
    /\ Goto(t, IF todo[t] = {c} THEN next ELSE again)

\* Mutant: CloseAdmission and StopAndDetach forget not_full_.
WaitersNotEmptyOnly(c) == {t \in asleep : t = c}

\* Who sleeps on c's queue: its worker on not_empty_, the dispatcher on not_full_.
Waiters(c) ==
    {t \in asleep : t = c \/ (t = Dispatcher /\ Camera(job[Dispatcher]) = c)}

\* Mutant: room for one frame more than queue_capacity.
FullOneLate(c) == Len(queue[c]) > Capacity

Full(c) == Len(queue[c]) >= Capacity

\* Mutants: Push does not look at stopped_; it drops under every policy; it
\* waits under every policy.
PushIgnoresStop(c) == DropNewest /\ Full(c)
PushAlwaysDrops(c) == stopped[c] \/ Full(c)
PushNeverDrops(c) == stopped[c]

\* The early returns of Push, before its wait and after it.
PushReturnsFalse(c) == stopped[c] \/ (DropNewest /\ Full(c))

\* Mutants: the job keeps its pointer after the release; the job is dropped
\* without a release.
ReleaseKeepsJob(t, outcome) ==
    ledger' = [ledger EXCEPT ![job[t]] = outcome] /\ UNCHANGED job
ReleaseLeaks(t, outcome) == UNCHANGED ledger /\ job' = [job EXCEPT ![t] = NoFrame]

\* Thread t's RetainedFrameJob is destroyed: the library gets the frame back.
Release(t, outcome) ==
    /\ ledger' = [ledger EXCEPT ![job[t]] = outcome]
    /\ job' = [job EXCEPT ![t] = NoFrame]

-----------------------------------------------------------------------------
(* CloseAdmissionAndRequestStop, run by thread t: its callers are the      *)
(* cleanup, the trampoline's catch and the worker's catch.                 *)

\* What thread t does when it returns.
AfterQueues(t) ==
    IF t = Owner THEN "detach" ELSE IF t = Dispatcher THEN "record" ELSE "exited"

CloseAccepting(t) ==
    /\ At(t, "accept") /\ Goto(t, "request")
    /\ accepting' = FALSE
    /\ UNCHANGED <<todo, frames, core, impl, sdk, stopped, asleep>>

RequestStop(t) ==
    /\ At(t, "request") /\ Goto(t, IF core.stop_requested THEN "queues" ELSE "call")
    /\ core' = [core EXCEPT !.stop_requested = TRUE]
    /\ todo' = [todo EXCEPT ![t] = Cameras]
    /\ UNCHANGED <<frames, impl, sdk, gates>>

\* sc132_request_stop only latches STOPPING: a callback under way goes on.
CallRequestStop(t) ==
    /\ At(t, "call") /\ Goto(t, "queues")
    /\ sdk' = [sdk EXCEPT !.library = IF @ = "stopped" THEN @ ELSE "stopping"]
    /\ UNCHANGED <<todo, frames, core, impl, gates>>

\* FrameQueue::CloseAdmission of one queue.
CloseQueue(t, c) ==
    /\ At(t, "queues") /\ Visit(t, c, "queues", AfterQueues(t))
    /\ stopped' = [stopped EXCEPT ![c] = TRUE]
    /\ asleep' = asleep \ Waiters(c)
    /\ UNCHANGED <<frames, core, impl, sdk, accepting>>

-----------------------------------------------------------------------------
(* RecordFailure, run by thread t: an exchange, and for the first to win it *)
(* the notifier, if there is one (RecordProcessFailure, rclcpp::shutdown).  *)

\* What thread t does when it returns.  The owner calls it twice: in Start's
\* catch, before the cleanup, and when the cleanup cannot join.
AfterFailure(t) ==
    IF t = Dispatcher THEN "idle"
    ELSE IF t # Owner THEN "accept"
    ELSE IF ~core.terminal THEN "cleanup"
    ELSE IF impl.caller = "Start" THEN "stop" ELSE "fatal"

\* Mutant: the exchange's old value is read the wrong way round.
RecordFailureNotifiesLater(t) ==
    /\ At(t, "record") /\ Goto(t, IF core.failed THEN "notify" ELSE AfterFailure(t))
    /\ core' = [core EXCEPT !.failed = TRUE]
    /\ UNCHANGED <<todo, frames, impl, sdk, gates>>

RecordFailure(t) ==
    /\ At(t, "record") /\ Goto(t, IF core.failed THEN AfterFailure(t) ELSE "notify")
    /\ core' = [core EXCEPT !.failed = TRUE]
    /\ UNCHANGED <<todo, frames, impl, sdk, gates>>

\* failure_notifier_: set by the one Start that claims the core, cleared by the cleanup.
HasNotifier == ~core.cleanup_complete

NotifyFailure(t) ==
    /\ At(t, "notify") /\ Goto(t, AfterFailure(t))
    /\ impl' = [impl EXCEPT !.process_failed = @ \/ HasNotifier]
    /\ UNCHANGED <<todo, frames, core, sdk, gates>>

-----------------------------------------------------------------------------
(* The library's dispatcher: FrameSetTrampoline and HandleFrameSet.        *)

\* The library admits a callback only while it runs, and one at a time.
DeliverFrameSet ==
    /\ At(Dispatcher, "idle") /\ Goto(Dispatcher, "check")
    /\ sdk.library = "running" /\ sdk.delivered < MaxSets
    /\ sdk' = [sdk EXCEPT !.delivered = @ + 1]
    /\ UNCHANGED <<todo, frames, core, impl, gates>>

CheckAccepting == Move(Dispatcher, "check", IF accepting THEN "item" ELSE "idle")

\* One valid item: its frame is retained and becomes the dispatcher's job.
RetainItem(c) ==
    /\ At(Dispatcher, "item") /\ Goto(Dispatcher, "push")
    /\ c \in todo[Dispatcher]
    /\ job' = [job EXCEPT ![Dispatcher] = <<c, sdk.delivered>>]
    /\ ledger' = [ledger EXCEPT ![<<c, sdk.delivered>>] = "held"]
    /\ UNCHANGED <<todo, queue, detached, core, impl, sdk, gates>>

\* An invalid header, item or metadata, or a retain that fails, reaches the
\* trampoline's catch with nothing retained.
ItemThrows == Fails(Dispatcher, "callback", "item", "accept")

\* The dispatcher runs Push on c's queue.
Pushing(c) ==
    At(Dispatcher, "push") /\ Awake(Dispatcher) /\ c = Camera(job[Dispatcher])

\* Push returns false and the caller goes on with the next item.
PushRefused(c) ==
    /\ Pushing(c) /\ Visit(Dispatcher, c, "item", "idle")
    /\ PushReturnsFalse(c)
    /\ Release(Dispatcher, "dropped")
    /\ UNCHANGED <<queue, detached, core, impl, sdk, gates>>

\* not_full_.wait: the callback blocks, and with it every camera behind it.
PushWaits(c) ==
    /\ Pushing(c) /\ ~PushReturnsFalse(c) /\ Full(c)
    /\ asleep' = asleep \cup {Dispatcher}
    /\ UNCHANGED <<pc, todo, frames, core, impl, sdk, accepting, stopped>>

PushEnqueues(c) ==
    /\ Pushing(c) /\ Visit(Dispatcher, c, "item", "idle")
    /\ ~PushReturnsFalse(c) /\ ~Full(c)
    /\ queue' = [queue EXCEPT ![c] = Append(@, job[Dispatcher])]
    /\ job' = [job EXCEPT ![Dispatcher] = NoFrame]
    /\ asleep' = asleep \ {c}
    /\ UNCHANGED <<detached, ledger, core, impl, sdk, accepting, stopped>>

\* push_back throws bad_alloc: the job dies on the way to the trampoline's catch.
PushThrows(c) ==
    /\ "alloc" \in Faults
    /\ Pushing(c) /\ Goto(Dispatcher, "accept")
    /\ ~PushReturnsFalse(c) /\ ~Full(c)
    /\ Release(Dispatcher, "failed")
    /\ UNCHANGED <<todo, queue, detached, core, impl, sdk, gates>>

-----------------------------------------------------------------------------
(* The worker of camera c: WorkerLoop, FrameQueue::Pop and the sink.       *)

PopWaits(c) ==
    /\ At(c, "pop") /\ Awake(c)
    /\ ~stopped[c] /\ queue[c] = << >>
    /\ asleep' = asleep \cup {c}
    /\ UNCHANGED <<pc, todo, frames, core, impl, sdk, accepting, stopped>>

\* Mutant: nobody is told that there is room again.
PopTakesSilently(c) ==
    /\ At(c, "pop") /\ Awake(c) /\ Goto(c, "sink")
    /\ ~stopped[c] /\ queue[c] # << >>
    /\ job' = [job EXCEPT ![c] = Head(queue[c])]
    /\ queue' = [queue EXCEPT ![c] = Tail(@)]
    /\ UNCHANGED <<todo, detached, ledger, core, impl, sdk, gates>>

\* Mutant: the newest frame is taken first.
PopTakesNewest(c) ==
    /\ At(c, "pop") /\ Awake(c) /\ Goto(c, "sink")
    /\ ~stopped[c] /\ queue[c] # << >>
    /\ job' = [job EXCEPT ![c] = queue[c][Len(queue[c])]]
    /\ queue' = [queue EXCEPT ![c] = SubSeq(@, 1, Len(@) - 1)]
    /\ asleep' = asleep \ (Waiters(c) \ {c})
    /\ UNCHANGED <<todo, detached, ledger, core, impl, sdk, accepting, stopped>>

PopTakes(c) ==
    /\ At(c, "pop") /\ Awake(c) /\ Goto(c, "sink")
    /\ ~stopped[c] /\ queue[c] # << >>
    /\ job' = [job EXCEPT ![c] = Head(queue[c])]
    /\ queue' = [queue EXCEPT ![c] = Tail(@)]
    /\ asleep' = asleep \ (Waiters(c) \ {c})
    /\ UNCHANGED <<todo, detached, ledger, core, impl, sdk, accepting, stopped>>

\* A stopped queue gives out nothing, not even the frames still in it.
PopRefused(c) == Awake(c) /\ stopped[c] /\ Move(c, "pop", "exited")

\* sink_ is Impl::PublishFrame; job.Reset() follows it.
PublishFrame(c) ==
    /\ At(c, "sink") /\ Goto(c, "pop")
    /\ Release(c, "published")
    /\ UNCHANGED <<todo, queue, detached, core, impl, sdk, gates>>

\* The publish throws: the job is destroyed before WorkerLoop's catch runs.
PublishThrows(c) ==
    /\ "sink" \in Faults
    /\ At(c, "sink") /\ Goto(c, "record")
    /\ Release(c, "failed")
    /\ UNCHANGED <<todo, queue, detached, core, impl, sdk, gates>>

-----------------------------------------------------------------------------
(* The owner: CameraPublisher::Impl::Start and CameraLifecycleCore::Start. *)

\* The options, the trigger mode or the sensor profile are refused: Start throws
\* before it reaches the core, and the destructor runs Stop.
RejectOptions == Fails(Owner, "options", "start", "stop")

\* The core lives as long as the process and is started once.
RejectRestart ==
    (core.start_claimed \/ core.terminal) /\ Move(Owner, "start", "stop")

ClaimStart ==
    /\ At(Owner, "start") /\ Goto(Owner, "configure")
    /\ ~core.start_claimed /\ ~core.terminal
    /\ core' = [core EXCEPT !.start_claimed = TRUE]
    /\ UNCHANGED <<todo, frames, impl, sdk, gates>>

\* Once ValidateConfig and InitializeQueues are done admission is open.
OpenAdmission ==
    /\ At(Owner, "configure") /\ Goto(Owner, "spawn")
    /\ accepting' = TRUE
    /\ UNCHANGED <<todo, frames, core, impl, sdk, stopped, asleep>>

\* ValidateConfig or InitializeQueues fails before that, sc132_set_fps or
\* sc132_set_output_rotation after it.
ConfigureThrows ==
    \/ Fails(Owner, "configure", "configure", "record")
    \/ Fails(Owner, "configure", "spawn", "record")

\* StartWorkers, one std::thread at a time.
StartWorker(c) ==
    /\ At(Owner, "spawn")
    /\ c \in todo[Owner]
    /\ todo' = [todo EXCEPT ![Owner] = IF @ = {c} THEN Cameras ELSE @ \ {c}]
    /\ pc' = [pc EXCEPT ![c] = "pop",
                        ![Owner] = IF todo[Owner] = {c} THEN "call_start" ELSE "spawn"]
    /\ UNCHANGED state

StartWorkerThrows == Fails(Owner, "spawn", "spawn", "record")

\* Callbacks may begin before sc132_start_frame_set returns.
CallStartFrameSet ==
    /\ At(Owner, "call_start") /\ Goto(Owner, "starting")
    /\ sdk' = [sdk EXCEPT !.library = "running"]
    /\ UNCHANGED <<todo, frames, core, impl, gates>>

StartReturnsOk ==
    /\ At(Owner, "starting") /\ Goto(Owner, "run")
    /\ impl' = [impl EXCEPT !.started = TRUE]
    /\ UNCHANGED <<todo, frames, core, sdk, gates>>

\* STARTUP_FAILED leaves the library STOPPING, with callbacks possibly under way.
StartReturnsFailure ==
    /\ "start" \in Faults \/ sdk.library = "stopping"
    /\ At(Owner, "starting") /\ Goto(Owner, "record")
    /\ sdk' = [sdk EXCEPT !.library = "stopping"]
    /\ UNCHANGED <<todo, frames, core, impl, gates>>

-----------------------------------------------------------------------------
(* The owner: Impl::Stop and CleanupLocked.                                *)

\* main's loop leaves the executor when it sees the process failure, or on a
\* signal, which may come at any time or never.
SeeFailure == impl.process_failed /\ Move(Owner, "run", "stop")
SeeStopSignal == Move(Owner, "run", "stop")

StopReturnsEarly == ~impl.started /\ ~core.failed /\ Move(Owner, "stop", "stopped")

StopCleansUp ==
    /\ At(Owner, "stop") /\ Goto(Owner, "cleanup")
    /\ impl.started \/ core.failed
    /\ impl' = [impl EXCEPT !.caller = "Stop"]
    /\ UNCHANGED <<todo, frames, core, sdk, gates>>

AfterCleanup == IF impl.caller = "Start" THEN "stop" ELSE "finish"

CleanupReturnsEarly ==
    (~core.start_claimed \/ core.cleanup_complete) /\ Move(Owner, "cleanup", AfterCleanup)

BeginCleanup ==
    /\ At(Owner, "cleanup") /\ Goto(Owner, "accept")
    /\ core.start_claimed /\ ~core.cleanup_complete
    /\ core' = [core EXCEPT !.terminal = TRUE]
    /\ UNCHANGED <<todo, frames, impl, sdk, gates>>

\* FrameQueue::StopAndDetach of one queue.
StopAndDetach(c) ==
    /\ At(Owner, "detach") /\ Visit(Owner, c, "detach", "release")
    /\ stopped' = [stopped EXCEPT ![c] = TRUE]
    /\ detached' = detached \cup Range(queue[c])
    /\ queue' = [queue EXCEPT ![c] = << >>]
    /\ asleep' = asleep \ Waiters(c)
    /\ UNCHANGED <<job, ledger, core, impl, sdk, accepting>>

\* batch.clear(), outside every queue lock.
ReleaseDetached ==
    /\ At(Owner, "release") /\ Goto(Owner, "join")
    /\ ledger' = [f \in Frames |-> IF f \in detached THEN "discarded" ELSE ledger[f]]
    /\ detached' = {}
    /\ UNCHANGED <<todo, queue, job, core, impl, sdk, gates>>

\* Mutant: the owner does not wait for the worker.
JoinWorkerDetaches(c) ==
    At(Owner, "join") /\ Visit(Owner, c, "join", "sdk_stop_1") /\ UNCHANGED state

\* A worker that was never started is not joinable and is skipped.
JoinWorker(c) ==
    /\ At(Owner, "join") /\ Visit(Owner, c, "join", "sdk_stop_1")
    /\ pc[c] \in {"none", "exited"}
    /\ UNCHANGED state

JoinThrows == Fails(Owner, "join", "join", "record")

AfterSdkStop == IF pc[Owner] = "sdk_stop_1" THEN "sdk_stop_2" ELSE "complete"

\* sc132_stop requests the stop itself, waits for the callback under way and joins
\* the library's threads; if that join fails it returns with the library STOPPING.
SdkStop(call) ==
    /\ At(Owner, call)
    /\ \/ /\ sdk.library \in {"idle", "running"}
          /\ sdk' = [sdk EXCEPT !.library = "stopping"] /\ UNCHANGED pc
       \/ /\ sdk.library = "stopping" /\ pc[Dispatcher] = "idle"
          /\ sdk' = [sdk EXCEPT !.library = "stopped"] /\ Goto(Owner, AfterSdkStop)
       \/ /\ sdk.library = "stopping" /\ sdk.join_failures > 0
          /\ sdk' = [sdk EXCEPT !.join_failures = @ - 1] /\ Goto(Owner, AfterSdkStop)
       \/ sdk.library = "stopped" /\ UNCHANGED sdk /\ Goto(Owner, AfterSdkStop)
    /\ UNCHANGED <<todo, frames, core, impl, gates>>

\* The sink and the notifier are cleared here: nothing may run them any more.
CompleteCleanup ==
    /\ At(Owner, "complete") /\ Goto(Owner, AfterCleanup)
    /\ core' = [core EXCEPT !.cleanup_complete = TRUE]
    /\ UNCHANGED <<todo, frames, impl, sdk, gates>>

FinishStop ==
    /\ At(Owner, "finish") /\ Goto(Owner, "stopped")
    /\ impl' = [impl EXCEPT !.process_failed = @ \/ core.failed, !.started = FALSE]
    /\ UNCHANGED <<todo, frames, core, sdk, gates>>

\* Cleanup returned false to Stop: RecordProcessFailure, then std::_Exit(1).
ExitProcess ==
    /\ At(Owner, "fatal") /\ Goto(Owner, "exit")
    /\ impl' = [impl EXCEPT !.process_failed = TRUE]
    /\ UNCHANGED <<todo, frames, core, sdk, gates>>

\* SensorNode's StopPublishers and then the destructor: Stop is called twice.
StopAgain == Move(Owner, "stopped", "stop")

\* Another publisher in the same process meets the same static core.
NewPublisher ==
    /\ At(Owner, "stopped") /\ Goto(Owner, "start")
    /\ impl.starts < MaxStarts
    /\ impl' = [impl EXCEPT !.starts = @ + 1, !.caller = "Start"]
    /\ UNCHANGED <<todo, frames, core, sdk, gates>>

SpuriousWakeup(t) ==
    /\ t \in asleep /\ pc[Owner] # "exit"
    /\ asleep' = asleep \ {t}
    /\ UNCHANGED <<pc, todo, frames, core, impl, sdk, accepting, stopped>>

\* The process is gone.
Exited == pc[Owner] = "exit" /\ UNCHANGED vars

-----------------------------------------------------------------------------
Shared(t) ==
    \/ CloseAccepting(t) \/ RequestStop(t) \/ CallRequestStop(t)
    \/ \E c \in Cameras : CloseQueue(t, c)
    \/ RecordFailure(t) \/ NotifyFailure(t)

Callback ==
    \/ CheckAccepting \/ ItemThrows
    \/ \E c \in Cameras :
        RetainItem(c) \/ PushRefused(c) \/ PushWaits(c) \/ PushEnqueues(c) \/ PushThrows(c)

Worker(c) ==
    PopWaits(c) \/ PopTakes(c) \/ PopRefused(c) \/ PublishFrame(c) \/ PublishThrows(c)

Start ==
    \/ RejectOptions \/ RejectRestart \/ ClaimStart \/ OpenAdmission \/ ConfigureThrows
    \/ \E c \in Cameras : StartWorker(c)
    \/ StartWorkerThrows \/ CallStartFrameSet \/ StartReturnsOk \/ StartReturnsFailure

Stop ==
    \/ StopReturnsEarly \/ StopCleansUp \/ CleanupReturnsEarly \/ BeginCleanup
    \/ \E c \in Cameras : StopAndDetach(c) \/ JoinWorker(c)
    \/ ReleaseDetached \/ JoinThrows
    \/ \E call \in {"sdk_stop_1", "sdk_stop_2"} : SdkStop(call)
    \/ CompleteCleanup \/ FinishStop \/ ExitProcess

\* What happens only if the environment wants it to.
Environment ==
    \/ DeliverFrameSet \/ SeeStopSignal \/ StopAgain \/ NewPublisher
    \/ \E t \in Threads : SpuriousWakeup(t)

Next ==
    \/ Environment
    \/ \E t \in Threads : Shared(t)
    \/ Callback
    \/ \E c \in Cameras : Worker(c)
    \/ Start \/ SeeFailure \/ Stop
    \/ Exited

\* Every thread that can run is scheduled, a publish returns, and the library
\* keeps its dispatcher alive.  Nothing makes the environment act.
Fairness ==
    /\ WF_vars(Shared(Owner) \/ Start \/ SeeFailure \/ Stop)
    /\ WF_vars(Shared(Dispatcher) \/ Callback)
    /\ \A c \in Cameras : WF_vars(Shared(c) \/ Worker(c))

Spec == Init /\ [][Next]_vars
FairSpec == Spec /\ Fairness

-----------------------------------------------------------------------------
(* Properties.                                                             *)

Held == {f \in Frames : ledger[f] = "held"}
Queued == UNION {Range(queue[c]) : c \in Cameras}
InHand == {job[t] : t \in Threads} \ {NoFrame}

\* Every reference the callback retained is in exactly one place: in a queue, in
\* a thread's job or in a detached batch.  Nothing is released that somebody
\* still holds, and nothing is forgotten (RetainedFrameJob's moves, FrameQueue,
\* CleanupLocked).
FrameCustody ==
    /\ Held = Queued \cup InHand \cup detached
    /\ Queued \cap InHand = {} /\ Queued \cap detached = {} /\ InHand \cap detached = {}
    /\ \A c \in Cameras : IsInjective(queue[c])
    /\ \A c, d \in Cameras : c # d => Range(queue[c]) \cap Range(queue[d]) = {}
    /\ \A t, u \in Threads : t # u /\ job[t] = job[u] => job[t] = NoFrame

\* From the join on, StopAndDetach has emptied every queue for good: the only
\* frames not yet returned are those in a worker's sink or in the one callback
\* the library is still inside of.  A frame pushed behind the owner's back would
\* never be released.
NoFrameBehindTheOwner ==
    pc[Owner] \in {"join", "sdk_stop_1", "sdk_stop_2", "complete"} =>
        /\ Queued = {} /\ detached = {}
        /\ \A f \in Held : \E t \in Threads \ {Owner} : job[t] = f

\* When CleanupLocked clears sink_ and failure_notifier_ no thread is left that
\* could call them or read the queues, and every frame is back at the library.
QuiescentCleanup ==
    core.cleanup_complete =>
        /\ \A c \in Cameras : pc[c] \in {"none", "exited"}
        /\ pc[Dispatcher] = "idle"
        /\ Held = {}

\* A failure is never recorded without being passed on: the process knows of it,
\* or the one thread that won the exchange is about to tell it.  Whoever loses the
\* exchange may go on as if the process had been told (RecordFailure).  A callback
\* that the library is still inside of when the notifier is cleared would be
\* the exception: only the next Stop would hear of its failure.
FailureIsNotified ==
    core.failed => impl.process_failed \/ \E t \in Threads : pc[t] = "notify"

\* Under the "block" policy a frame is refused only because of shutdown: the
\* wait in Push never gives up a frame while the queue is open.
BlockNeverDrops ==
    ~DropNewest => \A f \in Frames : ledger[f] = "dropped" => stopped[Camera(f)]

\* The library is told to stop by the core alone, and once the cleanup has
\* declared itself quiesced the library really has stopped (sc132camera.h:
\* a sc132_stop that leaves it STOPPING must be retried until it succeeds).
LibraryQuiesced ==
    core.cleanup_complete => sdk.library = "stopped"

\* No wake-up is lost: a worker sleeps only on an open and empty queue, the callback
\* only on an open and full one, whoever fills, empties or closes it meanwhile.  Each of
\* these steps, its notify included, wakes the right condition variable, and no
\* notify_one has two sleepers to choose from (Push, Pop, CloseAdmission, StopAndDetach).
NoLostWakeup ==
    /\ \A c \in Cameras \cap asleep : ~stopped[c] /\ queue[c] = << >>
    /\ Dispatcher \in asleep =>
        LET c == Camera(job[Dispatcher]) IN ~stopped[c] /\ Full(c)

\* Each camera's images are published in the order the library delivered them.
PublishedInOrder ==
    [][\A f \in Frames :
        ledger'[f] = "published" /\ ledger[f] # "published" =>
            \A g \in Frames :
                Camera(g) = Camera(f) /\ ledger[g] = "published" => g[2] < f[2]]_vars

\* Stop always ends: the workers and the callback cannot keep the owner waiting.
StopEnds == pc[Owner] = "stop" ~> pc[Owner] \in {"stopped", "exit"}

\* A failure in any thread shuts the pipeline down without any signal.
FailureShutsDown == core.failed ~> pc[Owner] \in {"stopped", "exit"}

\* Under "drop_newest" the callback comes back to the library however long a
\* publish takes, unless a failed join has ended the process: no worker is assumed
\* to run.
CallbackReturns == pc[Dispatcher] = "check" ~> pc[Dispatcher] = "idle" \/ pc[Owner] = "exit"

FairCallbackSpec == Spec /\ WF_vars(Shared(Dispatcher) \/ Callback)

\* The pipeline, seen from the library, is FrameLedger: every retained frame is
\* returned exactly once, in the end, and none is retained after the close.
Ledger == INSTANCE FrameLedger WITH
    frame <- [f \in Frames |->
                IF ledger[f] \in {"failed", "dropped", "discarded"}
                THEN "returned" ELSE ledger[f]],
    closed <- core.cleanup_complete

ImplementsFrameLedger == Ledger!Spec
=============================================================================
