----------------------- MODULE CameraLifecycleProofs -----------------------
(***************************************************************************)
(* Theorems about CameraLifecycle, for any cameras, capacity, policy and   *)
(* faults, and any value of the bounds: where the frames are, what the     *)
(* process is told and what the queues do; then the shutdown, the order in *)
(* which it publishes, and the abstract ledger that it implements.         *)
(***************************************************************************)
EXTENDS CameraLifecycle, SequenceTheorems, TLAPS

USE ThreadsAssumption, CamerasAssumption, NoFrameAssumption, BoundsAssumption

-----------------------------------------------------------------------------
(* Control.                                                                *)

PcOK == pc \in [Threads -> Labels] /\ \A t \in Threads : pc[t] \in LabelsOf(t)

LEMMA LabelsOfInLabels == \A t : LabelsOf(t) \subseteq Labels
  BY DEF LabelsOf, Labels

LEMMA GotoPc ==
  ASSUME PcOK, NEW t \in Threads, NEW l \in LabelsOf(t), Goto(t, l)
  PROVE  PcOK'
  BY LabelsOfInLabels DEF PcOK, Goto

LEMMA SharedPc ==
  ASSUME PcOK, NEW t \in Threads, Shared(t)
  PROVE  PcOK'
<1>1. SharedLabels \subseteq LabelsOf(t)
  BY DEF LabelsOf
<1>2. AfterQueues(t) \in LabelsOf(t)
  BY DEF AfterQueues, LabelsOf, Threads, OwnerLabels, SharedLabels, WorkerLabels
<1>3. AfterFailure(t) \in LabelsOf(t)
  BY DEF AfterFailure, LabelsOf, Threads, OwnerLabels, SharedLabels, CallbackLabels
<1>4. CASE CloseAccepting(t)
  BY <1>1, <1>4, GotoPc DEF CloseAccepting, SharedLabels
<1>5. CASE RequestStop(t)
  BY <1>1, <1>5, GotoPc DEF RequestStop, SharedLabels
<1>6. CASE CallRequestStop(t)
  BY <1>1, <1>6, GotoPc DEF CallRequestStop, SharedLabels
<1>7. ASSUME NEW c \in Cameras, CloseQueue(t, c) PROVE PcOK'
  BY <1>1, <1>2, <1>7, GotoPc DEF CloseQueue, Visit, SharedLabels
<1>8. CASE RecordFailure(t)
  BY <1>1, <1>3, <1>8, GotoPc DEF RecordFailure, SharedLabels
<1>9. CASE NotifyFailure(t)
  BY <1>3, <1>9, GotoPc DEF NotifyFailure
<1> QED
  BY <1>4, <1>5, <1>6, <1>7, <1>8, <1>9 DEF Shared

LEMMA CallbackPc ==
  ASSUME PcOK, Callback
  PROVE  PcOK'
<1>1. Dispatcher \in Threads /\ CallbackLabels \cup SharedLabels \subseteq LabelsOf(Dispatcher)
  BY DEF Threads, LabelsOf
<1>2. CASE CheckAccepting
  BY <1>1, <1>2, GotoPc DEF CheckAccepting, Move, CallbackLabels
<1>3. CASE ItemThrows
  BY <1>1, <1>3, GotoPc DEF ItemThrows, Fails, Move, SharedLabels
<1>4. ASSUME NEW c \in Cameras, RetainItem(c) PROVE PcOK'
  BY <1>1, <1>4, GotoPc DEF RetainItem, CallbackLabels
<1>5. ASSUME NEW c \in Cameras, PushRefused(c) PROVE PcOK'
  BY <1>1, <1>5, GotoPc DEF PushRefused, Visit, CallbackLabels
<1>6. ASSUME NEW c \in Cameras, PushWaits(c) PROVE PcOK'
  BY <1>6 DEF PushWaits, PcOK
<1>7. ASSUME NEW c \in Cameras, PushEnqueues(c) PROVE PcOK'
  BY <1>1, <1>7, GotoPc DEF PushEnqueues, Visit, CallbackLabels
<1>8. ASSUME NEW c \in Cameras, PushThrows(c) PROVE PcOK'
  BY <1>1, <1>8, GotoPc DEF PushThrows, SharedLabels
<1> QED
  BY <1>2, <1>3, <1>4, <1>5, <1>6, <1>7, <1>8 DEF Callback

LEMMA WorkerPc ==
  ASSUME PcOK, NEW c \in Cameras, Worker(c)
  PROVE  PcOK'
<1>1. c \in Threads /\ WorkerLabels \cup SharedLabels \subseteq LabelsOf(c)
  BY DEF Threads, LabelsOf
<1>2. CASE PopWaits(c)
  BY <1>2 DEF PopWaits, PcOK
<1>3. CASE PopTakes(c)
  BY <1>1, <1>3, GotoPc DEF PopTakes, WorkerLabels
<1>4. CASE PopRefused(c)
  BY <1>1, <1>4, GotoPc DEF PopRefused, Move, WorkerLabels
<1>5. CASE PublishFrame(c)
  BY <1>1, <1>5, GotoPc DEF PublishFrame, WorkerLabels
<1>6. CASE PublishThrows(c)
  BY <1>1, <1>6, GotoPc DEF PublishThrows, SharedLabels
<1> QED
  BY <1>2, <1>3, <1>4, <1>5, <1>6 DEF Worker

LEMMA OwnerPc ==
  ASSUME PcOK, Start \/ SeeFailure \/ Stop
  PROVE  PcOK'
<1>1. Owner \in Threads /\ OwnerLabels \cup SharedLabels \subseteq LabelsOf(Owner)
  BY DEF Threads, LabelsOf
<1>2. AfterCleanup \in OwnerLabels /\ AfterSdkStop \in OwnerLabels
  BY DEF AfterCleanup, AfterSdkStop, OwnerLabels
<1>3. CASE RejectOptions \/ RejectRestart \/ ClaimStart \/ OpenAdmission
  BY <1>1, <1>3, GotoPc DEF RejectOptions, RejectRestart, ClaimStart, OpenAdmission,
     Fails, Move, OwnerLabels
<1>4. CASE ConfigureThrows \/ StartWorkerThrows \/ JoinThrows
  BY <1>1, <1>4, GotoPc DEF ConfigureThrows, StartWorkerThrows, JoinThrows, Fails, Move,
     SharedLabels
<1>5. ASSUME NEW c \in Cameras, StartWorker(c) PROVE PcOK'
  <2>1. c \in Threads /\ c # Owner /\ "pop" \in LabelsOf(c)
    BY DEF Threads, LabelsOf, WorkerLabels
  <2> QED
    BY <1>1, <1>5, <2>1, LabelsOfInLabels DEF StartWorker, PcOK, OwnerLabels
<1>6. CASE CallStartFrameSet \/ StartReturnsOk
  BY <1>1, <1>6, GotoPc DEF CallStartFrameSet, StartReturnsOk, OwnerLabels
<1>7. CASE StartReturnsFailure
  BY <1>1, <1>7, GotoPc DEF StartReturnsFailure, SharedLabels
<1>8. CASE SeeFailure \/ StopReturnsEarly \/ StopCleansUp \/ CleanupReturnsEarly
  BY <1>1, <1>2, <1>8, GotoPc DEF SeeFailure, StopReturnsEarly, StopCleansUp,
     CleanupReturnsEarly, Move, OwnerLabels
<1>9. CASE BeginCleanup
  BY <1>1, <1>9, GotoPc DEF BeginCleanup, SharedLabels
<1>10. ASSUME NEW c \in Cameras, StopAndDetach(c) \/ JoinWorker(c) PROVE PcOK'
  BY <1>1, <1>10, GotoPc DEF StopAndDetach, JoinWorker, Visit, OwnerLabels
<1>11. ASSUME NEW call \in {"sdk_stop_1", "sdk_stop_2"}, SdkStop(call) PROVE PcOK'
  BY <1>1, <1>2, <1>11, GotoPc DEF SdkStop, PcOK
<1>12. CASE ReleaseDetached \/ CompleteCleanup \/ FinishStop \/ ExitProcess
  BY <1>1, <1>2, <1>12, GotoPc DEF ReleaseDetached, CompleteCleanup, FinishStop,
     ExitProcess, OwnerLabels
<1> QED
  BY <1>3, <1>4, <1>5, <1>6, <1>7, <1>8, <1>9, <1>10, <1>11, <1>12 DEF Start, Stop

LEMMA EnvironmentPc ==
  ASSUME PcOK, Environment
  PROVE  PcOK'
<1>1. Owner \in Threads /\ OwnerLabels \subseteq LabelsOf(Owner)
  BY DEF Threads, LabelsOf
<1>2. Dispatcher \in Threads /\ CallbackLabels \subseteq LabelsOf(Dispatcher)
  BY DEF Threads, LabelsOf
<1>3. CASE DeliverFrameSet
  BY <1>2, <1>3, GotoPc DEF DeliverFrameSet, CallbackLabels
<1>4. CASE SeeStopSignal \/ StopAgain \/ NewPublisher
  BY <1>1, <1>4, GotoPc DEF SeeStopSignal, StopAgain, NewPublisher, Move, OwnerLabels
<1>5. ASSUME NEW t \in Threads, SpuriousWakeup(t) PROVE PcOK'
  BY <1>5 DEF SpuriousWakeup, PcOK
<1> QED
  BY <1>3, <1>4, <1>5 DEF Environment

-----------------------------------------------------------------------------
(* The inductive invariant.                                                *)

Own(c) == {f \in Frames : Camera(f) = c}
InCallback == pc[Dispatcher] \in {"check", "item", "push"}

\* A worker that was never started is still to be started, if at all.
StartOK ==
    /\ ~core.start_claimed \/ pc[Owner] = "configure" => \A c \in Cameras : pc[c] = "none"
    /\ pc[Owner] = "spawn" => core.start_claimed /\ \A c \in todo[Owner] : pc[c] = "none"
    /\ pc[Owner] = "configure" => core.start_claimed

\* The ranges of the variables that carry no frame.
FlagsOK ==
    /\ todo \in [Threads -> SUBSET Cameras]
    /\ asleep \subseteq Threads
    /\ stopped \in [Cameras -> BOOLEAN]
    /\ accepting \in BOOLEAN
    /\ core \in CoreFlags
    /\ impl \in ImplStates
    /\ sdk \in SdkStates

\* A thread has a frame in hand exactly between taking it and passing it on.
HandOK ==
    /\ job \in [Threads -> Frames \cup {NoFrame}]
    /\ job[Owner] = NoFrame
    /\ \A c \in Cameras :
        IF pc[c] = "sink" THEN job[c] \in Own(c) ELSE job[c] = NoFrame
    /\ IF pc[Dispatcher] = "push"
       THEN \E c \in todo[Dispatcher] : job[Dispatcher] = <<c, sdk.delivered>>
       ELSE job[Dispatcher] = NoFrame
    /\ InCallback => sdk.delivered >= 1

\* A queue holds frames of its own camera only, and no more than its capacity.
QueuesOK ==
    /\ queue \in [Cameras -> Seq(Frames)]
    /\ \A c \in Cameras :
        Len(queue[c]) <= Capacity /\ \A i \in DOMAIN queue[c] : queue[c][i] \in Own(c)
    /\ detached \subseteq Frames

\* What the callback has not retained yet is still the library's.
FreshOK ==
    /\ ledger \in [Frames -> Outcomes]
    /\ \A f \in Frames : f[2] > sdk.delivered => ledger[f] = "library"
    /\ InCallback =>
        \A c \in todo[Dispatcher] :
            job[Dispatcher] = <<c, sdk.delivered>> \/ ledger[<<c, sdk.delivered>>] = "library"

FramesOK == HandOK /\ QueuesOK /\ FreshOK /\ FrameCustody

IInv == PcOK /\ StartOK /\ FlagsOK /\ FramesOK

LEMMA InitIInv == Init => IInv
<1> SUFFICES ASSUME Init PROVE IInv
  OBVIOUS
<1>1. PcOK
  BY DEF Init, PcOK, LabelsOf, Labels, Threads, SharedLabels, OwnerLabels, CallbackLabels,
     WorkerLabels
<1>2. StartOK
  BY DEF Init, StartOK, Threads
<1>3. FlagsOK
  <2>1. core \in CoreFlags
    BY DEF Init, CoreFlags
  <2>2. impl \in ImplStates
    BY DEF Init, ImplStates
  <2>3. sdk \in SdkStates
    BY DEF Init, SdkStates
  <2> QED
    BY <2>1, <2>2, <2>3 DEF Init, FlagsOK
<1>4. HandOK
  BY DEF Init, HandOK, InCallback, Threads
<1>5. QueuesOK
  BY DEF Init, QueuesOK
<1>6. FreshOK
  BY DEF Init, FreshOK, InCallback, Threads, Outcomes
<1>7. FrameCustody
  <2>1. Held = {} /\ InHand = {} /\ detached = {}
    BY DEF Init, Held, InHand, Threads
  <2>2. \A c \in Cameras : Range(queue[c]) = {} /\ IsInjective(queue[c])
    BY DEF Init, Range, IsInjective
  <2>3. Queued = {}
    BY <2>2 DEF Queued
  <2> QED
    BY <2>1, <2>2, <2>3 DEF Init, FrameCustody
<1> QED
  BY <1>1, <1>2, <1>3, <1>4, <1>5, <1>6, <1>7 DEF IInv, FramesOK

\* A step that moves no frame, and no thread to or from a frame.
Quiet ==
    /\ UNCHANGED <<queue, job, detached, ledger>>
    /\ sdk'.delivered = sdk.delivered
    /\ \A c \in Cameras : pc'[c] = "sink" <=> pc[c] = "sink"
    /\ pc'[Dispatcher] = "push" <=> pc[Dispatcher] = "push"
    /\ InCallback' => InCallback /\ todo'[Dispatcher] = todo[Dispatcher]
    /\ pc[Dispatcher] = "push" => todo'[Dispatcher] = todo[Dispatcher]

LEMMA QuietFrames ==
  ASSUME FramesOK, Quiet
  PROVE  FramesOK'
<1>1. HandOK'
  BY DEF FramesOK, Quiet, HandOK, InCallback, Own, Frames
<1>2. QueuesOK'
  BY DEF FramesOK, Quiet, QueuesOK, Own, Frames
<1>3. FreshOK'
  BY DEF FramesOK, Quiet, FreshOK
<1>4. FrameCustody'
  BY DEF FramesOK, Quiet, FrameCustody, Held, Queued, InHand
<1> QED
  BY <1>1, <1>2, <1>3, <1>4 DEF FramesOK

-----------------------------------------------------------------------------
(* Steps that move no frame.                                               *)

LEMMA SharedFlags ==
  ASSUME FlagsOK, NEW t \in Threads, Shared(t)
  PROVE  FlagsOK'
<1>1. CASE CloseAccepting(t)
  BY <1>1 DEF CloseAccepting, FlagsOK
<1>2. CASE RequestStop(t)
  <2>1. core' \in CoreFlags
    BY <1>2 DEF RequestStop, FlagsOK, CoreFlags
  <2> QED
    BY <1>2, <2>1 DEF RequestStop, FlagsOK, gates
<1>3. CASE CallRequestStop(t)
  <2>1. sdk' \in SdkStates
    BY <1>3 DEF CallRequestStop, FlagsOK, SdkStates
  <2> QED
    BY <1>3, <2>1 DEF CallRequestStop, FlagsOK, gates
<1>4. ASSUME NEW c \in Cameras, CloseQueue(t, c) PROVE FlagsOK'
  BY <1>4 DEF CloseQueue, Visit, FlagsOK
<1>5. CASE RecordFailure(t)
  <2>1. core' \in CoreFlags
    BY <1>5 DEF RecordFailure, FlagsOK, CoreFlags
  <2> QED
    BY <1>5, <2>1 DEF RecordFailure, FlagsOK, gates
<1>6. CASE NotifyFailure(t)
  <2>1. impl' \in ImplStates
    BY <1>6 DEF NotifyFailure, FlagsOK, ImplStates
  <2> QED
    BY <1>6, <2>1 DEF NotifyFailure, FlagsOK, gates
<1> QED
  BY <1>1, <1>2, <1>3, <1>4, <1>5, <1>6 DEF Shared

LEMMA SharedMoves ==
  ASSUME PcOK, FlagsOK, NEW t \in Threads, Shared(t)
  PROVE  /\ pc[t] \in SharedLabels
         /\ pc' = [pc EXCEPT ![t] = pc'[t]]
         /\ pc'[t] \in SharedLabels \cup {"detach", "exited", "idle", "cleanup", "stop", "fatal"}
         /\ \A u \in Threads \ {t} : todo'[u] = todo[u]
         /\ UNCHANGED frames
         /\ sdk'.delivered = sdk.delivered /\ core'.start_claimed = core.start_claimed
<1>1. pc[t] \in SharedLabels /\ UNCHANGED frames
  BY DEF Shared, CloseAccepting, RequestStop, CallRequestStop, CloseQueue, RecordFailure,
     NotifyFailure, At, SharedLabels
<1>2. sdk'.delivered = sdk.delivered /\ core'.start_claimed = core.start_claimed
  BY DEF Shared, CloseAccepting, RequestStop, CallRequestStop, CloseQueue, RecordFailure,
     NotifyFailure, FlagsOK, SdkStates, CoreFlags
<1>3. \E l \in SharedLabels \cup {"detach", "exited", "idle", "cleanup", "stop", "fatal"} :
        pc' = [pc EXCEPT ![t] = l]
  BY DEF Shared, CloseAccepting, RequestStop, CallRequestStop, CloseQueue, RecordFailure,
     NotifyFailure, Visit, Goto, AfterQueues, AfterFailure, SharedLabels
<1>4. \A u \in Threads \ {t} : todo'[u] = todo[u]
  BY DEF Shared, CloseAccepting, RequestStop, CallRequestStop, CloseQueue, RecordFailure,
     NotifyFailure, Visit, FlagsOK
<1> QED
  BY <1>1, <1>2, <1>3, <1>4 DEF PcOK

LEMMA SharedQuiet ==
  ASSUME PcOK, FlagsOK, StartOK, NEW t \in Threads, Shared(t)
  PROVE  Quiet /\ StartOK'
<1>1. Quiet
  BY SharedMoves DEF Quiet, frames, InCallback, PcOK, Threads, SharedLabels
<1>2. StartOK'
  <2>1. core'.start_claimed = core.start_claimed /\ pc[t] \in SharedLabels
    BY SharedMoves
  <2>2. \A u \in Threads \ {t} : pc'[u] = pc[u] /\ todo'[u] = todo[u]
    BY SharedMoves DEF PcOK
  <2>3. pc'[t] \notin {"configure", "spawn"}
    BY SharedMoves DEF SharedLabels
  <2>4. todo[Owner] \subseteq Cameras
    BY DEF FlagsOK, Threads
  <2> QED
    BY <2>1, <2>2, <2>3, <2>4 DEF StartOK, Threads, SharedLabels
<1> QED
  BY <1>1, <1>2

LEMMA CallbackFlags ==
  ASSUME FlagsOK, Callback
  PROVE  FlagsOK'
<1>1. Dispatcher \in Threads
  BY DEF Threads
<1>2. CASE CheckAccepting \/ ItemThrows
  BY <1>2 DEF CheckAccepting, ItemThrows, Fails, Move, FlagsOK, state, gates
<1>3. ASSUME NEW c \in Cameras, RetainItem(c) PROVE FlagsOK'
  BY <1>3 DEF RetainItem, FlagsOK, gates
<1>4. ASSUME NEW c \in Cameras, PushRefused(c) PROVE FlagsOK'
  BY <1>1, <1>4 DEF PushRefused, Visit, FlagsOK, gates
<1>5. ASSUME NEW c \in Cameras, PushWaits(c) PROVE FlagsOK'
  BY <1>1, <1>5 DEF PushWaits, FlagsOK
<1>6. ASSUME NEW c \in Cameras, PushEnqueues(c) PROVE FlagsOK'
  BY <1>1, <1>6 DEF PushEnqueues, Visit, FlagsOK
<1>7. ASSUME NEW c \in Cameras, PushThrows(c) PROVE FlagsOK'
  BY <1>7 DEF PushThrows, FlagsOK, gates
<1> QED
  BY <1>2, <1>3, <1>4, <1>5, <1>6, <1>7 DEF Callback

LEMMA CallbackMoves ==
  ASSUME PcOK, FlagsOK, StartOK, Callback
  PROVE  StartOK' /\ (\A c \in Cameras : pc'[c] = pc[c]) /\ UNCHANGED sdk
<1>1. UNCHANGED <<core, sdk>>
  BY DEF Callback, CheckAccepting, ItemThrows, Fails, Move, RetainItem, PushRefused, PushWaits,
     PushEnqueues, PushThrows, state
<1>2. \A t \in Threads \ {Dispatcher} : pc'[t] = pc[t] /\ todo'[t] = todo[t]
  BY DEF Callback, CheckAccepting, ItemThrows, Fails, Move, RetainItem, PushRefused, PushWaits,
     PushEnqueues, PushThrows, Goto, Visit, PcOK, FlagsOK
<1>3. StartOK'
  <2>1. todo[Owner] \subseteq Cameras
    BY DEF FlagsOK, Threads
  <2> QED
    BY <1>1, <1>2, <2>1 DEF StartOK, Threads
<1> QED
  BY <1>1, <1>2, <1>3 DEF Threads

LEMMA CallbackQuiet ==
  ASSUME PcOK, FlagsOK, StartOK,
         CheckAccepting \/ ItemThrows \/ \E c \in Cameras : PushWaits(c)
  PROVE  Quiet
<1>1. /\ UNCHANGED <<frames, sdk, todo>>
      /\ InCallback /\ (pc'[Dispatcher] = "push" <=> pc[Dispatcher] = "push")
  BY DEF CheckAccepting, ItemThrows, Fails, Move, PushWaits, Pushing, At, Goto, InCallback, PcOK,
     Threads, state
<1>2. \A c \in Cameras : pc'[c] = pc[c]
  BY CallbackMoves DEF Callback
<1> QED
  BY <1>1, <1>2 DEF Quiet, frames


LEMMA WorkerFlags ==
  ASSUME FlagsOK, NEW c \in Cameras, Worker(c)
  PROVE  FlagsOK'
<1>1. c \in Threads
  BY DEF Threads
<1>2. CASE PopWaits(c)
  BY <1>1, <1>2 DEF PopWaits, FlagsOK
<1>3. CASE PopTakes(c)
  BY <1>3 DEF PopTakes, FlagsOK
<1>4. CASE PopRefused(c)
  BY <1>4 DEF PopRefused, Move, FlagsOK, state, gates
<1>5. CASE PublishFrame(c) \/ PublishThrows(c)
  BY <1>5 DEF PublishFrame, PublishThrows, FlagsOK, gates
<1> QED
  BY <1>2, <1>3, <1>4, <1>5 DEF Worker

LEMMA WorkerMoves ==
  ASSUME PcOK, FlagsOK, StartOK, NEW c \in Cameras, Worker(c)
  PROVE  /\ StartOK'
         /\ \A t \in Threads \ {c} : pc'[t] = pc[t]
         /\ UNCHANGED <<todo, sdk>>
<1>1. UNCHANGED <<core, sdk, todo>> /\ pc[c] \in {"pop", "sink"}
  BY DEF Worker, PopWaits, PopTakes, PopRefused, Move, PublishFrame, PublishThrows, At, state
<1>2. \A t \in Threads \ {c} : pc'[t] = pc[t]
  BY DEF Worker, PopWaits, PopTakes, PopRefused, Move, PublishFrame, PublishThrows, Goto, PcOK
<1>3. StartOK'
  <2>1. todo[Owner] \subseteq Cameras
    BY DEF FlagsOK, Threads
  <2> QED
    BY <1>1, <1>2, <2>1 DEF StartOK, Threads
<1> QED
  BY <1>1, <1>2, <1>3

LEMMA WorkerQuiet ==
  ASSUME PcOK, FlagsOK, StartOK, NEW c \in Cameras, PopWaits(c) \/ PopRefused(c)
  PROVE  Quiet
<1>1. UNCHANGED frames /\ pc[c] # "sink" /\ pc'[c] # "sink"
  BY DEF PopWaits, PopRefused, Move, At, Goto, PcOK, Threads, state
<1>2. /\ \A t \in Threads \ {c} : pc'[t] = pc[t]
      /\ UNCHANGED <<todo, sdk>>
  BY WorkerMoves DEF Worker
<1> QED
  BY <1>1, <1>2 DEF Quiet, frames, InCallback, Threads

LEMMA StartFlags ==
  ASSUME FlagsOK, Start \/ SeeFailure
  PROVE  FlagsOK'
<1>1. CASE RejectOptions \/ RejectRestart \/ ConfigureThrows \/ StartWorkerThrows \/ SeeFailure
  BY <1>1 DEF RejectOptions, RejectRestart, ConfigureThrows, StartWorkerThrows, SeeFailure,
     Fails, Move, FlagsOK, state, gates
<1>2. CASE ClaimStart
  <2>1. core' \in CoreFlags
    BY <1>2 DEF ClaimStart, FlagsOK, CoreFlags
  <2> QED
    BY <1>2, <2>1 DEF ClaimStart, FlagsOK, gates
<1>3. CASE OpenAdmission
  BY <1>3 DEF OpenAdmission, FlagsOK
<1>4. ASSUME NEW c \in Cameras, StartWorker(c) PROVE FlagsOK'
  BY <1>4 DEF StartWorker, FlagsOK, state, gates
<1>5. CASE CallStartFrameSet \/ StartReturnsFailure
  <2>1. sdk' \in SdkStates
    BY <1>5 DEF CallStartFrameSet, StartReturnsFailure, FlagsOK, SdkStates
  <2> QED
    BY <1>5, <2>1 DEF CallStartFrameSet, StartReturnsFailure, FlagsOK, gates
<1>6. CASE StartReturnsOk
  <2>1. impl' \in ImplStates
    BY <1>6 DEF StartReturnsOk, FlagsOK, ImplStates
  <2> QED
    BY <1>6, <2>1 DEF StartReturnsOk, FlagsOK, gates
<1> QED
  BY <1>1, <1>2, <1>3, <1>4, <1>5, <1>6 DEF Start

LEMMA StopFlags ==
  ASSUME FlagsOK, Stop
  PROVE  FlagsOK'
<1>1. CASE StopReturnsEarly \/ CleanupReturnsEarly \/ JoinThrows
  BY <1>1 DEF StopReturnsEarly, CleanupReturnsEarly, JoinThrows, Fails, Move, FlagsOK, state,
     gates
<1>2. CASE StopCleansUp \/ FinishStop \/ ExitProcess
  <2>1. impl' \in ImplStates
    BY <1>2 DEF StopCleansUp, FinishStop, ExitProcess, FlagsOK, ImplStates, CoreFlags
  <2> QED
    BY <1>2, <2>1 DEF StopCleansUp, FinishStop, ExitProcess, FlagsOK, gates
<1>3. CASE BeginCleanup \/ CompleteCleanup
  <2>1. core' \in CoreFlags
    BY <1>3 DEF BeginCleanup, CompleteCleanup, FlagsOK, CoreFlags
  <2> QED
    BY <1>3, <2>1 DEF BeginCleanup, CompleteCleanup, FlagsOK, gates
<1>4. ASSUME NEW c \in Cameras, StopAndDetach(c) PROVE FlagsOK'
  BY <1>4 DEF StopAndDetach, Visit, FlagsOK
<1>5. ASSUME NEW c \in Cameras, JoinWorker(c) PROVE FlagsOK'
  BY <1>5 DEF JoinWorker, Visit, FlagsOK, state, gates
<1>6. ASSUME NEW call \in {"sdk_stop_1", "sdk_stop_2"}, SdkStop(call) PROVE FlagsOK'
  <2>1. sdk' \in SdkStates
    BY <1>6 DEF SdkStop, FlagsOK, SdkStates
  <2> QED
    BY <1>6, <2>1 DEF SdkStop, FlagsOK, gates
<1>7. CASE ReleaseDetached
  BY <1>7 DEF ReleaseDetached, FlagsOK, gates
<1> QED
  BY <1>1, <1>2, <1>3, <1>4, <1>5, <1>6, <1>7 DEF Stop

LEMMA EnvironmentFlags ==
  ASSUME FlagsOK, Environment
  PROVE  FlagsOK'
<1>1. CASE DeliverFrameSet
  <2>1. sdk' \in SdkStates
    BY <1>1 DEF DeliverFrameSet, FlagsOK, SdkStates
  <2> QED
    BY <1>1, <2>1 DEF DeliverFrameSet, FlagsOK, gates
<1>2. CASE SeeStopSignal \/ StopAgain
  BY <1>2 DEF SeeStopSignal, StopAgain, Move, FlagsOK, state, gates
<1>3. CASE NewPublisher
  <2>1. impl' \in ImplStates
    <3>1. impl \in ImplStates /\ impl.starts + 1 \in 1..MaxStarts
      BY <1>3 DEF NewPublisher, FlagsOK, ImplStates
    <3> QED
      BY <1>3, <3>1 DEF NewPublisher, ImplStates
  <2> QED
    BY <1>3, <2>1 DEF NewPublisher, FlagsOK, gates
<1>4. ASSUME NEW t \in Threads, SpuriousWakeup(t) PROVE FlagsOK'
  BY <1>4 DEF SpuriousWakeup, FlagsOK
<1> QED
  BY <1>1, <1>2, <1>3, <1>4 DEF Environment

\* The owner's steps, but for the two that move frames, and the environment's, but
\* for a delivery.
OwnerQuietStep ==
    \/ Start \/ SeeFailure
    \/ StopReturnsEarly \/ StopCleansUp \/ CleanupReturnsEarly \/ BeginCleanup
    \/ \E c \in Cameras : JoinWorker(c)
    \/ JoinThrows \/ CompleteCleanup \/ FinishStop \/ ExitProcess
    \/ \E call \in {"sdk_stop_1", "sdk_stop_2"} : SdkStop(call)
    \/ SeeStopSignal \/ StopAgain \/ NewPublisher

LEMMA OwnerQuiet ==
  ASSUME PcOK, FlagsOK, StartOK, OwnerQuietStep
  PROVE  Quiet
<1>1. UNCHANGED <<queue, job, detached, ledger>>
  BY DEF OwnerQuietStep, Start, RejectOptions, RejectRestart, ClaimStart, OpenAdmission,
     ConfigureThrows, StartWorker, StartWorkerThrows, CallStartFrameSet, StartReturnsOk,
     StartReturnsFailure, SeeFailure, StopReturnsEarly, StopCleansUp, CleanupReturnsEarly,
     BeginCleanup, JoinWorker, JoinThrows, CompleteCleanup, FinishStop, ExitProcess, SdkStop,
     SeeStopSignal, StopAgain, NewPublisher, Fails, Move, state, frames
<1>2. sdk'.delivered = sdk.delivered
  <2>1. UNCHANGED sdk \/ \E l \in {"running", "stopping", "stopped"} :
            sdk' = [sdk EXCEPT !.library = l]
        \/ sdk' = [sdk EXCEPT !.join_failures = @ - 1]
    BY DEF OwnerQuietStep, Start, RejectOptions, RejectRestart, ClaimStart, OpenAdmission,
       ConfigureThrows, StartWorker, StartWorkerThrows, CallStartFrameSet, StartReturnsOk,
       StartReturnsFailure, SeeFailure, StopReturnsEarly, StopCleansUp, CleanupReturnsEarly,
       BeginCleanup, JoinWorker, JoinThrows, CompleteCleanup, FinishStop, ExitProcess, SdkStop,
       SeeStopSignal, StopAgain, NewPublisher, Fails, Move, state
  <2> QED
    BY <2>1 DEF FlagsOK, SdkStates
<1>3. todo'[Dispatcher] = todo[Dispatcher]
  <2>1. UNCHANGED todo \/ \E S : todo' = [todo EXCEPT ![Owner] = S]
    BY DEF OwnerQuietStep, Start, RejectOptions, RejectRestart, ClaimStart, OpenAdmission,
       ConfigureThrows, StartWorker, StartWorkerThrows, CallStartFrameSet, StartReturnsOk,
       StartReturnsFailure, SeeFailure, StopReturnsEarly, StopCleansUp, CleanupReturnsEarly,
       BeginCleanup, JoinWorker, JoinThrows, CompleteCleanup, FinishStop, ExitProcess, SdkStop,
       SeeStopSignal, StopAgain, NewPublisher, Fails, Move, Visit
  <2> QED
    BY <2>1 DEF FlagsOK, Threads
<1>4. CASE \E c \in Cameras : StartWorker(c)
  <2>1. PICK c \in Cameras : StartWorker(c)
    BY <1>4
  <2>2. pc[c] = "none" /\ pc'[c] = "pop" /\ \A u \in Cameras \ {c} : pc'[u] = pc[u]
    BY <2>1 DEF StartWorker, At, StartOK, PcOK, Threads
  <2>3. pc'[Dispatcher] = pc[Dispatcher]
    BY <2>1 DEF StartWorker, PcOK, Threads
  <2> QED
    BY <1>1, <1>2, <1>3, <2>2, <2>3 DEF Quiet, InCallback
<1>5. CASE ~\E c \in Cameras : StartWorker(c)
  <2>1. \A u \in Threads \ {Owner} : pc'[u] = pc[u]
    BY <1>5 DEF OwnerQuietStep, Start, RejectOptions, RejectRestart, ClaimStart, OpenAdmission,
       ConfigureThrows, StartWorkerThrows, CallStartFrameSet, StartReturnsOk,
       StartReturnsFailure, SeeFailure, StopReturnsEarly, StopCleansUp, CleanupReturnsEarly,
       BeginCleanup, JoinWorker, JoinThrows, CompleteCleanup, FinishStop, ExitProcess, SdkStop,
       SeeStopSignal, StopAgain, NewPublisher, Fails, Move, Visit, Goto, PcOK
  <2> QED
    BY <1>1, <1>2, <1>3, <2>1 DEF Quiet, InCallback, Threads
<1> QED
  BY <1>4, <1>5

LEMMA OwnerStart ==
  ASSUME PcOK, FlagsOK, StartOK, Start \/ SeeFailure \/ Stop
  PROVE  StartOK'
<1>1. Owner \in Threads /\ todo[Owner] \subseteq Cameras
  BY DEF FlagsOK, Threads
<1>2. CASE ClaimStart
  <2>1. core'.start_claimed = TRUE
    BY <1>2 DEF ClaimStart, FlagsOK, CoreFlags
  <2> QED
    BY <1>1, <1>2, <2>1 DEF ClaimStart, Goto, StartOK, PcOK, Threads
<1>3. CASE OpenAdmission
  BY <1>1, <1>3 DEF OpenAdmission, At, Goto, StartOK, PcOK, Threads
<1>4. ASSUME NEW c \in Cameras, StartWorker(c) PROVE StartOK'
  <2>1. core.start_claimed /\ UNCHANGED core
    BY <1>4 DEF StartWorker, At, StartOK, state
  <2>2. \A d \in Cameras \ {c} : pc'[d] = pc[d]
    BY <1>4 DEF StartWorker, PcOK, Threads
  <2>3. pc'[Owner] \in {"call_start", "spawn"}
    BY <1>1, <1>4 DEF StartWorker, PcOK
  <2>4. pc'[Owner] = "spawn" => todo'[Owner] = todo[Owner] \ {c}
    BY <1>1, <1>4 DEF StartWorker, PcOK, FlagsOK
  <2>5. \A d \in todo[Owner] : pc[d] = "none"
    BY <1>4 DEF StartWorker, At, StartOK
  <2> QED
    BY <1>1, <2>1, <2>2, <2>3, <2>4, <2>5 DEF StartOK
<1>5. CASE ConfigureThrows \/ StartWorkerThrows
  BY <1>1, <1>5 DEF ConfigureThrows, StartWorkerThrows, Fails, Move, Goto, StartOK, PcOK, Threads,
     state
<1>6. CASE RejectOptions \/ RejectRestart \/ SeeFailure \/ StopReturnsEarly \/ JoinThrows
  BY <1>1, <1>6 DEF RejectOptions, RejectRestart, SeeFailure, StopReturnsEarly, JoinThrows,
     Fails, Move, Goto, StartOK, PcOK, Threads, state
<1>7. CASE CallStartFrameSet \/ StartReturnsOk \/ StartReturnsFailure \/ StopCleansUp
           \/ ReleaseDetached
  BY <1>1, <1>7 DEF CallStartFrameSet, StartReturnsOk, StartReturnsFailure, StopCleansUp,
     ReleaseDetached, Goto, StartOK, PcOK, Threads
<1>8. CASE CleanupReturnsEarly \/ FinishStop \/ ExitProcess
  BY <1>1, <1>8 DEF CleanupReturnsEarly, FinishStop, ExitProcess, AfterCleanup, Move, Goto,
     StartOK, PcOK, Threads, state
<1>9. CASE BeginCleanup \/ CompleteCleanup
  <2>1. core'.start_claimed = core.start_claimed
    BY <1>9 DEF BeginCleanup, CompleteCleanup, FlagsOK, CoreFlags
  <2> QED
    BY <1>1, <1>9, <2>1 DEF BeginCleanup, CompleteCleanup, AfterCleanup, Goto, StartOK, PcOK,
       Threads
<1>10. ASSUME NEW c \in Cameras, StopAndDetach(c) \/ JoinWorker(c) PROVE StartOK'
  BY <1>1, <1>10 DEF StopAndDetach, JoinWorker, Visit, Goto, StartOK, PcOK, Threads, state
<1>11. ASSUME NEW call \in {"sdk_stop_1", "sdk_stop_2"}, SdkStop(call) PROVE StartOK'
  BY <1>1, <1>11 DEF SdkStop, At, AfterSdkStop, Goto, StartOK, PcOK, Threads
<1> QED
  BY <1>2, <1>3, <1>4, <1>5, <1>6, <1>7, <1>8, <1>9, <1>10, <1>11 DEF Start, Stop

LEMMA EnvironmentStart ==
  ASSUME PcOK, FlagsOK, StartOK, Environment
  PROVE  StartOK'
<1>1. Owner \in Threads /\ todo[Owner] \subseteq Cameras
  BY DEF FlagsOK, Threads
<1>2. CASE DeliverFrameSet
  BY <1>1, <1>2 DEF DeliverFrameSet, Goto, StartOK, PcOK, Threads
<1>3. CASE SeeStopSignal \/ StopAgain \/ NewPublisher
  BY <1>1, <1>3 DEF SeeStopSignal, StopAgain, NewPublisher, Move, Goto, StartOK, PcOK, Threads,
     state
<1>4. ASSUME NEW t \in Threads, SpuriousWakeup(t) PROVE StartOK'
  BY <1>4 DEF SpuriousWakeup, StartOK
<1> QED
  BY <1>2, <1>3, <1>4 DEF Environment

-----------------------------------------------------------------------------
(* What the four moves of a frame do to the places it can be in.           *)

LEMMA AppendInjectiveTo ==
  ASSUME NEW S, NEW s \in Seq(S), NEW x \in S, IsInjective(s), x \notin Range(s)
  PROVE  Range(Append(s, x)) = Range(s) \cup {x} /\ IsInjective(Append(s, x))
<1>1. /\ Append(s, x) \in Seq(S) /\ DOMAIN Append(s, x) = 1..Len(s) + 1
      /\ \A i \in 1..Len(s) : Append(s, x)[i] = s[i]
      /\ Append(s, x)[Len(s) + 1] = x
      /\ DOMAIN s = 1..Len(s) /\ Len(s) \in Nat
  BY AppendProperties
<1>2. Range(Append(s, x)) = Range(s) \cup {x}
  BY <1>1 DEF Range
<1>3. IsInjective(Append(s, x))
  BY <1>1 DEF IsInjective, Range
<1> QED
  BY <1>2, <1>3

LEMMA TailInjective ==
  ASSUME NEW S, NEW s \in Seq(S), s # << >>, IsInjective(s)
  PROVE  /\ Head(s) \in Range(s)
         /\ Range(Tail(s)) = Range(s) \ {Head(s)} /\ IsInjective(Tail(s))
<1>1. /\ Len(s) \in Nat \ {0} /\ DOMAIN s = 1..Len(s)
      /\ Head(s) = s[1]
      /\ DOMAIN Tail(s) = 1..Len(s) - 1
      /\ \A i \in 1..Len(s) - 1 : Tail(s)[i] = s[i + 1]
  BY HeadTailProperties
<1>2. Head(s) \in Range(s)
  BY <1>1 DEF Range
<1>3. \A i \in 2..Len(s) : s[i] # s[1]
  BY <1>1 DEF IsInjective
<1>4. Range(Tail(s)) = Range(s) \ {Head(s)}
  <2>1. \A y \in Range(Tail(s)) : y \in Range(s) \ {Head(s)}
    BY <1>1, <1>3 DEF Range
  <2>2. ASSUME NEW y \in Range(s), y # Head(s) PROVE y \in Range(Tail(s))
    <3>1. PICK i \in 1..Len(s) : y = s[i]
      BY <1>1 DEF Range
    <3>2. i - 1 \in 1..Len(s) - 1 /\ Tail(s)[i - 1] = s[i]
      BY <1>1, <2>2, <3>1
    <3> QED
      BY <1>1, <3>1, <3>2 DEF Range
  <2> QED
    BY <2>1, <2>2
<1>5. IsInjective(Tail(s))
  BY <1>1 DEF IsInjective
<1> QED
  BY <1>2, <1>4, <1>5

\* A thread with empty hands takes a frame that nobody has in hand.
LEMMA HandTakes ==
  ASSUME FramesOK, NEW t \in Threads, NEW f \in Frames, job[t] = NoFrame, f \notin InHand,
         job' = [job EXCEPT ![t] = f]
  PROVE  /\ InHand' = InHand \cup {f}
         /\ \A u, v \in Threads : u # v /\ job'[u] = job'[v] => job'[u] = NoFrame
<1>1. f # NoFrame /\ job'[t] = f /\ \A u \in Threads \ {t} : job'[u] = job[u]
  BY DEF FramesOK, HandOK, Frames
<1> QED
  BY <1>1 DEF FramesOK, FrameCustody, InHand

\* A thread gives its frame out of hand.
LEMMA HandGives ==
  ASSUME FramesOK, NEW t \in Threads, job[t] # NoFrame,
         job' = [job EXCEPT ![t] = NoFrame]
  PROVE  /\ InHand' = InHand \ {job[t]}
         /\ \A u, v \in Threads : u # v /\ job'[u] = job'[v] => job'[u] = NoFrame
<1>1. job'[t] = NoFrame /\ \A u \in Threads \ {t} : job'[u] = job[u]
  BY DEF FramesOK, HandOK
<1> QED
  BY <1>1 DEF FramesOK, FrameCustody, InHand

\* One camera's queue changes: the others keep their frames.
LEMMA QueueChanges ==
  ASSUME FramesOK, NEW c \in Cameras, NEW q, IsInjective(q),
         \A f \in Range(q) : f \in Own(c),
         queue' = [queue EXCEPT ![c] = q]
  PROVE  /\ Queued' = (Queued \ Range(queue[c])) \cup Range(q)
         /\ \A d \in Cameras : IsInjective(queue'[d])
         /\ \A d, e \in Cameras : d # e => Range(queue'[d]) \cap Range(queue'[e]) = {}
<1>1. queue'[c] = q /\ \A d \in Cameras \ {c} : queue'[d] = queue[d]
  BY DEF FramesOK, QueuesOK
<1>2. \A d \in Cameras : \A f \in Range(queue[d]) : f \in Own(d)
  BY DEF FramesOK, QueuesOK, Range
<1>3. \A d \in Cameras : \A f \in Range(queue'[d]) : f \in Own(d)
  BY <1>1, <1>2
<1>4. \A d, e \in Cameras : d # e => Range(queue'[d]) \cap Range(queue'[e]) = {}
  BY <1>3 DEF Own
<1>5. \A d \in Cameras : IsInjective(queue'[d])
  BY <1>1 DEF FramesOK, FrameCustody
<1>6. \A d \in Cameras \ {c} : Range(queue[d]) \cap Range(queue[c]) = {}
  BY DEF FramesOK, FrameCustody
<1>7. Queued' = (Queued \ Range(queue[c])) \cup Range(q)
  BY <1>1, <1>6 DEF Queued
<1> QED
  BY <1>4, <1>5, <1>7

-----------------------------------------------------------------------------
(* Steps that move frames.                                                 *)

LEMMA DeliverFrames ==
  ASSUME IInv, DeliverFrameSet
  PROVE  FramesOK'
<1>1. /\ Dispatcher \in Threads /\ pc[Dispatcher] = "idle"
      /\ pc' = [pc EXCEPT ![Dispatcher] = "check"] /\ pc'[Dispatcher] = "check"
      /\ \A c \in Cameras : pc'[c] = pc[c]
      /\ UNCHANGED <<todo, queue, job, detached, ledger>>
  BY DEF IInv, DeliverFrameSet, At, Goto, PcOK, Threads, frames
<1>2. sdk'.delivered = sdk.delivered + 1 /\ sdk.delivered \in Nat /\ sdk'.delivered \in 1..MaxSets
  BY DEF IInv, DeliverFrameSet, FlagsOK, SdkStates
<1>3. HandOK'
  BY <1>1, <1>2 DEF IInv, FramesOK, HandOK, InCallback, Own, Frames
<1>4. QueuesOK'
  BY <1>1 DEF IInv, FramesOK, QueuesOK, Own, Frames
<1>5. FreshOK'
  <2>1. \A f \in Frames : f[2] > sdk'.delivered => f[2] > sdk.delivered
    BY <1>2 DEF Frames
  <2>2. \A c \in Cameras : <<c, sdk'.delivered>> \in Frames /\ sdk'.delivered > sdk.delivered
    BY <1>2 DEF Frames
  <2>3. todo[Dispatcher] \subseteq Cameras
    BY <1>1 DEF IInv, FlagsOK
  <2> QED
    BY <1>1, <2>1, <2>2, <2>3 DEF IInv, FramesOK, FreshOK
<1>6. FrameCustody'
  BY <1>1 DEF IInv, FramesOK, FrameCustody, Held, Queued, InHand
<1> QED
  BY <1>3, <1>4, <1>5, <1>6 DEF FramesOK

LEMMA RetainFrames ==
  ASSUME IInv, NEW c \in Cameras, RetainItem(c)
  PROVE  FramesOK'
<1> DEFINE f == <<c, sdk.delivered>>
<1>1. /\ Dispatcher \in Threads /\ pc[Dispatcher] = "item" /\ pc'[Dispatcher] = "push"
      /\ \A d \in Cameras : pc'[d] = pc[d]
      /\ c \in todo[Dispatcher] /\ todo[Dispatcher] \subseteq Cameras
      /\ UNCHANGED <<todo, queue, detached, sdk>>
      /\ ledger' = [ledger EXCEPT ![f] = "held"]
      /\ job' = [job EXCEPT ![Dispatcher] = f]
  BY DEF IInv, RetainItem, At, Goto, PcOK, FlagsOK, Threads
<1>2. sdk.delivered \in 1..MaxSets /\ f \in Frames
  BY <1>1 DEF IInv, FlagsOK, SdkStates, FramesOK, HandOK, InCallback, Frames
<1>3. /\ job[Dispatcher] = NoFrame
      /\ \A d \in todo[Dispatcher] : ledger[<<d, sdk.delivered>>] = "library"
  <2>1. job[Dispatcher] = NoFrame
    BY <1>1 DEF IInv, FramesOK, HandOK
  <2> QED
    BY <1>1, <1>2, <2>1 DEF IInv, FramesOK, FreshOK, InCallback, Frames
<1>4. f \notin Held /\ Held' = Held \cup {f}
  BY <1>1, <1>2, <1>3 DEF IInv, FramesOK, FreshOK, Held
<1>5. f \notin Queued /\ f \notin InHand /\ f \notin detached
  BY <1>4 DEF IInv, FramesOK, FrameCustody
<1>6. /\ InHand' = InHand \cup {f}
      /\ \A u, v \in Threads : u # v /\ job'[u] = job'[v] => job'[u] = NoFrame
  BY <1>1, <1>2, <1>3, <1>5, HandTakes DEF IInv
<1>7. FrameCustody'
  <2>1. Queued' = Queued
    BY <1>1 DEF Queued
  <2> QED
    BY <1>1, <1>4, <1>5, <1>6, <2>1 DEF IInv, FramesOK, FrameCustody
<1>8. HandOK'
  BY <1>1, <1>2 DEF IInv, FramesOK, HandOK, InCallback, Own, Frames, Threads
<1>9. QueuesOK'
  BY <1>1 DEF IInv, FramesOK, QueuesOK, Own, Frames
<1>10. FreshOK'
  <2>1. ledger' \in [Frames -> Outcomes]
    BY <1>1 DEF IInv, FramesOK, FreshOK, Outcomes
  <2>2. \A g \in Frames : g # f => ledger'[g] = ledger[g]
    BY <1>1, <1>2 DEF IInv, FramesOK, FreshOK
  <2>3. job'[Dispatcher] = f /\ f[2] = sdk.delivered
    BY <1>1 DEF IInv, FramesOK, HandOK
  <2>4. \A d \in Cameras : d # c => <<d, sdk.delivered>> # f /\ <<d, sdk.delivered>> \in Frames
    BY <1>2 DEF Frames
  <2>5. \A g \in Frames : g[2] > sdk.delivered => g # f
    BY <1>2, <2>3
  <2> QED
    BY <1>1, <1>3, <2>1, <2>2, <2>3, <2>4, <2>5 DEF IInv, FramesOK, FreshOK
<1> QED
  BY <1>7, <1>8, <1>9, <1>10 DEF FramesOK

\* The end of Push, whether the frame was queued or released.
LEMMA PushEnds ==
  ASSUME IInv, NEW c \in Cameras, Pushing(c), job' = [job EXCEPT ![Dispatcher] = NoFrame],
         \/ Visit(Dispatcher, c, "item", "idle")
         \/ Goto(Dispatcher, "accept") /\ UNCHANGED todo,
         sdk' = sdk
  PROVE  /\ HandOK'
         /\ job[Dispatcher] = <<c, sdk.delivered>> /\ job[Dispatcher] \in Own(c)
         /\ pc[Dispatcher] = "push"
         /\ InCallback' => todo'[Dispatcher] = todo[Dispatcher] \ {c}
         /\ Dispatcher \in Threads /\ todo[Dispatcher] \subseteq Cameras
         /\ sdk.delivered \in 1..MaxSets
<1>1. /\ Dispatcher \in Threads /\ pc[Dispatcher] = "push" /\ pc'[Dispatcher] # "push"
      /\ \A d \in Cameras : pc'[d] = pc[d]
      /\ todo[Dispatcher] \subseteq Cameras
  BY DEF IInv, Pushing, At, Visit, Goto, PcOK, FlagsOK, Threads
<1>2. InCallback' => todo'[Dispatcher] = todo[Dispatcher] \ {c}
  BY <1>1 DEF IInv, Visit, Goto, PcOK, FlagsOK, InCallback
<1>3. sdk.delivered \in 1..MaxSets
  BY <1>1 DEF IInv, FlagsOK, SdkStates, FramesOK, HandOK, InCallback
<1>4. PICK d \in todo[Dispatcher] : job[Dispatcher] = <<d, sdk.delivered>>
  BY <1>1 DEF IInv, FramesOK, HandOK
<1>5. d = c
  BY <1>4 DEF Pushing, Camera
<1>6. job[Dispatcher] = <<c, sdk.delivered>> /\ job[Dispatcher] \in Own(c)
  BY <1>3, <1>4, <1>5 DEF Own, Frames, Camera
<1>7. HandOK'
  BY <1>1, <1>3 DEF IInv, FramesOK, HandOK, InCallback, Own, Frames, Threads
<1> QED
  BY <1>1, <1>2, <1>3, <1>6, <1>7

\* The refused frame and the one that push_back loses go back to the library.
LEMMA PushReleases ==
  ASSUME IInv, NEW c \in Cameras, PushRefused(c) \/ PushThrows(c)
  PROVE  FramesOK'
<1> DEFINE f == job[Dispatcher]
<1>1. /\ Pushing(c) /\ UNCHANGED <<queue, detached, sdk>>
      /\ \/ Visit(Dispatcher, c, "item", "idle")
         \/ Goto(Dispatcher, "accept") /\ UNCHANGED todo
      /\ job' = [job EXCEPT ![Dispatcher] = NoFrame]
      /\ \E o \in {"dropped", "failed"} : ledger' = [ledger EXCEPT ![f] = o]
  <2>1. CASE PushRefused(c)
    BY <2>1 DEF PushRefused, Release
  <2>2. CASE PushThrows(c)
    BY <2>2 DEF PushThrows, Release
  <2> QED
    BY <2>1, <2>2
<1>2. /\ HandOK' /\ f = <<c, sdk.delivered>> /\ f \in Frames
      /\ InCallback' => todo'[Dispatcher] = todo[Dispatcher] \ {c}
      /\ Dispatcher \in Threads /\ todo[Dispatcher] \subseteq Cameras
      /\ sdk.delivered \in 1..MaxSets /\ pc[Dispatcher] = "push"
  BY <1>1, PushEnds DEF Own
<1>3. f # NoFrame /\ f \in InHand
  BY <1>2 DEF Frames, InHand
<1>4. /\ InHand' = InHand \ {f}
      /\ \A u, v \in Threads : u # v /\ job'[u] = job'[v] => job'[u] = NoFrame
  BY <1>1, <1>2, <1>3, HandGives DEF IInv
<1>5. Held' = Held \ {f}
  BY <1>1, <1>2 DEF IInv, FramesOK, FreshOK, Held
<1>6. FrameCustody'
  <2>1. Queued' = Queued
    BY <1>1 DEF Queued
  <2> QED
    BY <1>1, <1>3, <1>4, <1>5, <2>1 DEF IInv, FramesOK, FrameCustody
<1>7. QueuesOK'
  BY <1>1 DEF IInv, FramesOK, QueuesOK, Own, Frames
<1>8. FreshOK'
  <2>1. ledger' \in [Frames -> Outcomes] /\ \A g \in Frames : g # f => ledger'[g] = ledger[g]
    BY <1>1, <1>2 DEF IInv, FramesOK, FreshOK, Outcomes
  <2>2. \A d \in todo[Dispatcher] : d # c =>
            <<d, sdk.delivered>> \in Frames /\ <<d, sdk.delivered>> # f
    BY <1>2 DEF Frames
  <2>3. \A g \in Frames : g[2] > sdk.delivered => g # f
    BY <1>2
  <2> QED
    BY <1>1, <1>2, <2>1, <2>2, <2>3 DEF IInv, FramesOK, FreshOK, InCallback
<1> QED
  BY <1>2, <1>6, <1>7, <1>8 DEF FramesOK

LEMMA EnqueueFrames ==
  ASSUME IInv, NEW c \in Cameras, PushEnqueues(c)
  PROVE  FramesOK'
<1> DEFINE f == job[Dispatcher]
           q == Append(queue[c], f)
<1>1. /\ Pushing(c) /\ UNCHANGED <<detached, sdk, ledger>> /\ ~Full(c)
      /\ Visit(Dispatcher, c, "item", "idle")
      /\ job' = [job EXCEPT ![Dispatcher] = NoFrame]
      /\ queue' = [queue EXCEPT ![c] = q]
  BY DEF PushEnqueues
<1>2. /\ HandOK' /\ f = <<c, sdk.delivered>> /\ f \in Frames /\ f \in Own(c)
      /\ InCallback' => todo'[Dispatcher] = todo[Dispatcher] \ {c}
      /\ Dispatcher \in Threads /\ todo[Dispatcher] \subseteq Cameras
      /\ sdk.delivered \in 1..MaxSets /\ pc[Dispatcher] = "push"
  BY <1>1, PushEnds DEF Own
<1>3. f # NoFrame /\ f \in InHand
  BY <1>2 DEF Frames, InHand
<1>4. /\ InHand' = InHand \ {f}
      /\ \A u, v \in Threads : u # v /\ job'[u] = job'[v] => job'[u] = NoFrame
  BY <1>1, <1>2, <1>3, HandGives DEF IInv
<1>5. f \notin Queued /\ f \notin Range(queue[c])
  BY <1>3 DEF IInv, FramesOK, FrameCustody, Queued
<1>6. queue[c] \in Seq(Frames) /\ IsInjective(queue[c]) /\ \A g \in Range(queue[c]) : g \in Own(c)
  BY DEF IInv, FramesOK, QueuesOK, FrameCustody, Range
<1>7. q \in Seq(Frames) /\ Range(q) = Range(queue[c]) \cup {f} /\ IsInjective(q)
  BY <1>2, <1>5, <1>6, AppendInjectiveTo, AppendProperties
<1>8. /\ Queued' = (Queued \ Range(queue[c])) \cup Range(q)
      /\ \A d \in Cameras : IsInjective(queue'[d])
      /\ \A d, e \in Cameras : d # e => Range(queue'[d]) \cap Range(queue'[e]) = {}
  BY <1>1, <1>2, <1>6, <1>7, QueueChanges DEF IInv
<1>9. FrameCustody'
  <2>1. Queued' = Queued \cup {f}
    BY <1>7, <1>8 DEF Queued
  <2>2. Held' = Held
    BY <1>1 DEF Held
  <2> QED
    BY <1>1, <1>3, <1>4, <1>5, <1>8, <2>1, <2>2 DEF IInv, FramesOK, FrameCustody
<1>10. QueuesOK'
  <2>1. Len(q) <= Capacity
    BY <1>1, <1>2, <1>6, AppendProperties DEF Full
  <2>2. \A i \in DOMAIN q : q[i] \in Own(c)
    BY <1>2, <1>6, <1>7 DEF Range
  <2>3. queue'[c] = q /\ \A d \in Cameras \ {c} : queue'[d] = queue[d]
    BY <1>1 DEF IInv, FramesOK, QueuesOK
  <2>4. queue' \in [Cameras -> Seq(Frames)]
    BY <1>1, <1>7 DEF IInv, FramesOK, QueuesOK
  <2>5. ASSUME NEW d \in Cameras
        PROVE  Len(queue'[d]) <= Capacity /\ \A i \in DOMAIN queue'[d] : queue'[d][i] \in Own(d)
    BY <2>1, <2>2, <2>3 DEF IInv, FramesOK, QueuesOK
  <2> QED
    BY <1>1, <2>4, <2>5 DEF IInv, FramesOK, QueuesOK, Own, Frames
<1>11. FreshOK'
  <2>1. \A d \in todo[Dispatcher] : d # c => <<d, sdk.delivered>> # f
    BY <1>2
  <2> QED
    BY <1>1, <1>2, <2>1 DEF IInv, FramesOK, FreshOK, InCallback
<1> QED
  BY <1>2, <1>9, <1>10, <1>11 DEF FramesOK

\* A worker's step leaves the callback where it was.
LEMMA WorkerFresh ==
  ASSUME IInv, NEW c \in Cameras, Worker(c),
         ledger' \in [Frames -> Outcomes], job'[Dispatcher] = job[Dispatcher],
         \A f \in Frames : ledger[f] = "library" => ledger'[f] = "library"
  PROVE  FreshOK'
<1>1. UNCHANGED <<todo, sdk>> /\ pc'[Dispatcher] = pc[Dispatcher]
  BY WorkerMoves DEF IInv, Threads
<1>2. InCallback => sdk.delivered \in 1..MaxSets
  BY DEF IInv, FlagsOK, SdkStates, FramesOK, HandOK
<1>3. todo[Dispatcher] \subseteq Cameras
  BY DEF IInv, FlagsOK, Threads
<1>4. InCallback => \A d \in todo[Dispatcher] : <<d, sdk.delivered>> \in Frames
  BY <1>2, <1>3 DEF Frames
<1> QED
  BY <1>1, <1>4 DEF IInv, FramesOK, FreshOK, InCallback

LEMMA TakeFrames ==
  ASSUME IInv, NEW c \in Cameras, PopTakes(c)
  PROVE  FramesOK'
<1> DEFINE f == Head(queue[c])
           q == Tail(queue[c])
<1>1. /\ c \in Threads /\ c # Dispatcher /\ c # Owner
      /\ pc[c] = "pop" /\ pc'[c] = "sink" /\ \A t \in Threads \ {c} : pc'[t] = pc[t]
      /\ queue[c] # << >>
      /\ UNCHANGED <<todo, detached, ledger, sdk>>
      /\ job' = [job EXCEPT ![c] = f] /\ queue' = [queue EXCEPT ![c] = q]
  BY DEF PopTakes, At, Goto, IInv, PcOK, Threads
<1>2. queue[c] \in Seq(Frames) /\ IsInjective(queue[c]) /\ \A g \in Range(queue[c]) : g \in Own(c)
  BY DEF IInv, FramesOK, QueuesOK, FrameCustody, Range
<1>3. f \in Range(queue[c]) /\ Range(q) = Range(queue[c]) \ {f} /\ IsInjective(q)
  BY <1>1, <1>2, TailInjective
<1>4. f \in Own(c) /\ f \in Frames /\ f \in Queued
  BY <1>2, <1>3 DEF Own, Queued
<1>5. f \notin InHand /\ job[c] = NoFrame
  BY <1>1, <1>4 DEF IInv, FramesOK, FrameCustody, HandOK
<1>6. /\ InHand' = InHand \cup {f}
      /\ \A u, v \in Threads : u # v /\ job'[u] = job'[v] => job'[u] = NoFrame
  BY <1>1, <1>4, <1>5, HandTakes DEF IInv
<1>7. /\ Queued' = (Queued \ Range(queue[c])) \cup Range(q)
      /\ \A d \in Cameras : IsInjective(queue'[d])
      /\ \A d, e \in Cameras : d # e => Range(queue'[d]) \cap Range(queue'[e]) = {}
  BY <1>1, <1>2, <1>3, QueueChanges DEF IInv
<1>8. FrameCustody'
  <2>1. Queued' = Queued \ {f}
    BY <1>3, <1>7 DEF Queued
  <2>2. Held' = Held
    BY <1>1 DEF Held
  <2> QED
    BY <1>1, <1>4, <1>6, <1>7, <2>1, <2>2 DEF IInv, FramesOK, FrameCustody
<1>9. HandOK'
  BY <1>1, <1>4 DEF IInv, FramesOK, HandOK, InCallback, Own, Frames, Threads
<1>10. QueuesOK'
  <2>1. q \in Seq(Frames) /\ Len(q) <= Capacity
    BY <1>1, <1>2, HeadTailProperties DEF IInv, FramesOK, QueuesOK
  <2>2. \A i \in DOMAIN q : q[i] \in Own(c)
    BY <1>2, <1>3 DEF Range
  <2>3. queue'[c] = q /\ \A d \in Cameras \ {c} : queue'[d] = queue[d]
    BY <1>1 DEF IInv, FramesOK, QueuesOK
  <2>4. queue' \in [Cameras -> Seq(Frames)]
    BY <1>1, <2>1 DEF IInv, FramesOK, QueuesOK
  <2>5. ASSUME NEW d \in Cameras
        PROVE  Len(queue'[d]) <= Capacity /\ \A i \in DOMAIN queue'[d] : queue'[d][i] \in Own(d)
    BY <2>1, <2>2, <2>3 DEF IInv, FramesOK, QueuesOK
  <2> QED
    BY <1>1, <2>4, <2>5 DEF IInv, FramesOK, QueuesOK, Own, Frames
<1>11. FreshOK'
  BY <1>1, WorkerFresh DEF Worker, IInv, FramesOK, FreshOK, HandOK
<1> QED
  BY <1>8, <1>9, <1>10, <1>11 DEF FramesOK

LEMMA PublishFrames ==
  ASSUME IInv, NEW c \in Cameras, PublishFrame(c) \/ PublishThrows(c)
  PROVE  FramesOK'
<1> DEFINE f == job[c]
<1>1. /\ c \in Threads /\ c # Dispatcher /\ c # Owner
      /\ pc[c] = "sink" /\ pc'[c] # "sink" /\ \A t \in Threads \ {c} : pc'[t] = pc[t]
      /\ UNCHANGED <<todo, queue, detached, sdk>>
      /\ job' = [job EXCEPT ![c] = NoFrame]
      /\ \E o \in {"published", "failed"} : ledger' = [ledger EXCEPT ![f] = o]
  <2>1. CASE PublishFrame(c)
    BY <2>1 DEF PublishFrame, Release, At, Goto, IInv, PcOK, Threads
  <2>2. CASE PublishThrows(c)
    BY <2>2 DEF PublishThrows, Release, At, Goto, IInv, PcOK, Threads
  <2> QED
    BY <2>1, <2>2
<1>2. f \in Frames /\ f # NoFrame
  BY <1>1 DEF IInv, FramesOK, HandOK, Own, Frames
<1>3. f \in InHand /\ f \in Held
  BY <1>1, <1>2 DEF IInv, FramesOK, FrameCustody, InHand
<1>4. /\ InHand' = InHand \ {f}
      /\ \A u, v \in Threads : u # v /\ job'[u] = job'[v] => job'[u] = NoFrame
  BY <1>1, <1>2, HandGives DEF IInv
<1>5. Held' = Held \ {f}
  BY <1>1, <1>2 DEF IInv, FramesOK, FreshOK, Held
<1>6. FrameCustody'
  <2>1. Queued' = Queued
    BY <1>1 DEF Queued
  <2> QED
    BY <1>1, <1>3, <1>4, <1>5, <2>1 DEF IInv, FramesOK, FrameCustody
<1>7. HandOK'
  BY <1>1 DEF IInv, FramesOK, HandOK, InCallback, Own, Frames, Threads
<1>8. QueuesOK'
  BY <1>1 DEF IInv, FramesOK, QueuesOK, Own, Frames
<1>9. FreshOK'
  <2>1. ledger' \in [Frames -> Outcomes] /\ \A g \in Frames : g # f => ledger'[g] = ledger[g]
    BY <1>1, <1>2 DEF IInv, FramesOK, FreshOK, Outcomes
  <2>2. job'[Dispatcher] = job[Dispatcher]
    BY <1>1 DEF IInv, FramesOK, HandOK, Threads
  <2>3. \A g \in Frames : ledger[g] = "library" => ledger'[g] = "library"
    BY <1>3, <2>1 DEF Held
  <2> QED
    BY <2>1, <2>2, <2>3, WorkerFresh DEF Worker
<1> QED
  BY <1>6, <1>7, <1>8, <1>9 DEF FramesOK

LEMMA DetachFrames ==
  ASSUME IInv, NEW c \in Cameras, StopAndDetach(c)
  PROVE  FramesOK'
<1>1. /\ Owner \in Threads /\ \A t \in Threads \ {Owner} : pc'[t] = pc[t] /\ todo'[t] = todo[t]
      /\ UNCHANGED <<job, ledger, sdk>>
      /\ detached' = detached \cup Range(queue[c])
      /\ queue' = [queue EXCEPT ![c] = << >>]
  BY DEF StopAndDetach, Visit, Goto, IInv, PcOK, FlagsOK, Threads
<1>2. Range(<< >>) = {} /\ IsInjective(<< >>)
  BY DEF Range, IsInjective
<1>3. /\ Queued' = Queued \ Range(queue[c])
      /\ \A d \in Cameras : IsInjective(queue'[d])
      /\ \A d, e \in Cameras : d # e => Range(queue'[d]) \cap Range(queue'[e]) = {}
  BY <1>1, <1>2, QueueChanges DEF IInv
<1>4. FrameCustody'
  <2>1. Range(queue[c]) \subseteq Queued
    BY DEF Queued
  <2>2. Held' = Held /\ InHand' = InHand
    BY <1>1 DEF Held, InHand
  <2> QED
    BY <1>1, <1>3, <2>1, <2>2 DEF IInv, FramesOK, FrameCustody
<1>5. HandOK'
  BY <1>1 DEF IInv, FramesOK, HandOK, InCallback, Own, Frames, Threads
<1>6. QueuesOK'
  <2>1. Range(queue[c]) \subseteq Frames
    BY DEF IInv, FramesOK, QueuesOK, Range, Own
  <2>2. queue'[c] = << >> /\ \A d \in Cameras \ {c} : queue'[d] = queue[d]
    BY <1>1 DEF IInv, FramesOK, QueuesOK
  <2>3. queue' \in [Cameras -> Seq(Frames)]
    BY <1>1 DEF IInv, FramesOK, QueuesOK
  <2>4. ASSUME NEW d \in Cameras
        PROVE  Len(queue'[d]) <= Capacity /\ \A i \in DOMAIN queue'[d] : queue'[d][i] \in Own(d)
    <3>1. CASE d = c
      BY <2>2, <3>1
    <3>2. CASE d # c
      BY <2>2, <3>2 DEF IInv, FramesOK, QueuesOK
    <3> QED
      BY <3>1, <3>2
  <2> QED
    BY <1>1, <2>1, <2>3, <2>4 DEF IInv, FramesOK, QueuesOK, Own, Frames
<1>7. FreshOK'
  BY <1>1 DEF IInv, FramesOK, FreshOK, InCallback, Threads
<1> QED
  BY <1>4, <1>5, <1>6, <1>7 DEF FramesOK

LEMMA DiscardFrames ==
  ASSUME IInv, ReleaseDetached
  PROVE  FramesOK'
<1>1. /\ Owner \in Threads /\ \A t \in Threads \ {Owner} : pc'[t] = pc[t]
      /\ UNCHANGED <<todo, queue, job, sdk>>
      /\ detached' = {} /\ detached \subseteq Held
      /\ ledger' = [f \in Frames |-> IF f \in detached THEN "discarded" ELSE ledger[f]]
  BY DEF ReleaseDetached, Goto, IInv, PcOK, FramesOK, FrameCustody, Threads
<1>2. FrameCustody'
  <2>1. Held' = Held \ detached
    BY <1>1 DEF Held
  <2>2. Queued' = Queued /\ InHand' = InHand
    BY <1>1 DEF Queued, InHand
  <2> QED
    BY <1>1, <2>1, <2>2 DEF IInv, FramesOK, FrameCustody
<1>3. HandOK'
  BY <1>1 DEF IInv, FramesOK, HandOK, InCallback, Own, Frames, Threads
<1>4. QueuesOK'
  BY <1>1 DEF IInv, FramesOK, QueuesOK, Own, Frames
<1>5. FreshOK'
  <2>1. ledger' \in [Frames -> Outcomes]
    BY <1>1 DEF IInv, FramesOK, FreshOK, Outcomes
  <2>2. \A f \in Frames : ledger[f] = "library" => ledger'[f] = "library"
    BY <1>1 DEF Held
  <2>3. InCallback => \A d \in todo[Dispatcher] : <<d, sdk.delivered>> \in Frames
    BY DEF IInv, FlagsOK, SdkStates, FramesOK, HandOK, Threads, Frames
  <2>4. InCallback' <=> InCallback
    BY <1>1 DEF InCallback, Threads
  <2> QED
    BY <1>1, <2>1, <2>2, <2>3, <2>4 DEF IInv, FramesOK, FreshOK
<1> QED
  BY <1>2, <1>3, <1>4, <1>5 DEF FramesOK

-----------------------------------------------------------------------------
(* The invariant is preserved by every step.                               *)

LEMMA StutterIInv ==
  ASSUME IInv, UNCHANGED vars
  PROVE  IInv'
<1>1. UNCHANGED <<pc, todo, asleep, queue, stopped, job, detached, ledger, accepting, core, impl,
                  sdk>>
  BY DEF vars, state, frames, gates
<1>2. Quiet
  BY <1>1 DEF Quiet, InCallback
<1>3. FramesOK'
  BY <1>2, QuietFrames DEF IInv
<1>4. PcOK' /\ StartOK' /\ FlagsOK'
  BY <1>1 DEF IInv, PcOK, StartOK, FlagsOK
<1> QED
  BY <1>3, <1>4 DEF IInv

LEMMA NextIInv ==
  ASSUME IInv, [Next]_vars
  PROVE  IInv'
<1>1. ASSUME NEW t \in Threads, Shared(t) PROVE IInv'
  BY <1>1, SharedPc, SharedFlags, SharedQuiet, QuietFrames DEF IInv
<1>2. CASE Callback
  <2>1. PcOK' /\ FlagsOK' /\ StartOK'
    BY <1>2, CallbackPc, CallbackFlags, CallbackMoves DEF IInv
  <2>2. CASE CheckAccepting \/ ItemThrows \/ \E c \in Cameras : PushWaits(c)
    BY <2>1, <2>2, CallbackQuiet, QuietFrames DEF IInv
  <2>3. ASSUME NEW c \in Cameras,
               RetainItem(c) \/ PushRefused(c) \/ PushEnqueues(c) \/ PushThrows(c)
        PROVE  IInv'
    BY <2>1, <2>3, RetainFrames, PushReleases, EnqueueFrames DEF IInv
  <2> QED
    BY <1>2, <2>2, <2>3 DEF Callback
<1>3. ASSUME NEW c \in Cameras, Worker(c) PROVE IInv'
  <2>1. PcOK' /\ FlagsOK' /\ StartOK'
    BY <1>3, WorkerPc, WorkerFlags, WorkerMoves DEF IInv
  <2>2. CASE PopWaits(c) \/ PopRefused(c)
    BY <2>1, <2>2, WorkerQuiet, QuietFrames DEF IInv
  <2>3. CASE PopTakes(c)
    BY <2>1, <2>3, TakeFrames DEF IInv
  <2>4. CASE PublishFrame(c) \/ PublishThrows(c)
    BY <2>1, <2>4, PublishFrames DEF IInv
  <2> QED
    BY <1>3, <2>2, <2>3, <2>4 DEF Worker
<1>4. CASE Start \/ SeeFailure \/ Stop
  <2>1. PcOK' /\ FlagsOK' /\ StartOK'
    BY <1>4, OwnerPc, StartFlags, StopFlags, OwnerStart DEF IInv
  <2>2. CASE OwnerQuietStep
    BY <2>1, <2>2, OwnerQuiet, QuietFrames DEF IInv
  <2>3. ASSUME NEW c \in Cameras, StopAndDetach(c) PROVE IInv'
    BY <2>1, <2>3, DetachFrames DEF IInv
  <2>4. CASE ReleaseDetached
    BY <2>1, <2>4, DiscardFrames DEF IInv
  <2> QED
    BY <1>4, <2>2, <2>3, <2>4 DEF Stop, OwnerQuietStep
<1>5. CASE Environment
  <2>1. PcOK' /\ FlagsOK' /\ StartOK'
    BY <1>5, EnvironmentPc, EnvironmentFlags, EnvironmentStart DEF IInv
  <2>2. CASE DeliverFrameSet
    BY <2>1, <2>2, DeliverFrames DEF IInv
  <2>3. CASE SeeStopSignal \/ StopAgain \/ NewPublisher
    BY <2>1, <2>3, OwnerQuiet, QuietFrames DEF IInv, OwnerQuietStep
  <2>4. ASSUME NEW t \in Threads, SpuriousWakeup(t) PROVE IInv'
    <3>1. Quiet
      BY <2>4 DEF SpuriousWakeup, Quiet, frames, InCallback
    <3> QED
      BY <2>1, <3>1, QuietFrames DEF IInv
  <2> QED
    BY <1>5, <2>2, <2>3, <2>4 DEF Environment
<1>6. CASE Exited \/ UNCHANGED vars
  BY <1>6, StutterIInv DEF Exited
<1> QED
  BY <1>1, <1>2, <1>3, <1>4, <1>5, <1>6 DEF Next

-----------------------------------------------------------------------------
(* The theorems.                                                           *)

\* IInv holds in every reachable state: threads, hands, queues and ledger always
\* agree with each other.
THEOREM Invariance == Spec => []IInv
<1>1. Init => IInv
  BY InitIInv
<1>2. IInv /\ [Next]_vars => IInv'
  BY NextIInv
<1> QED
  BY <1>1, <1>2, PTL DEF Spec

\* Every variable of the pipeline keeps its type; in particular no queue ever holds
\* more than queue_capacity frames, and the frames delivered stay in their bound.
THEOREM TypeCorrect == Spec => []TypeOK
<1>1. IInv => TypeOK
  BY DEF IInv, PcOK, FlagsOK, FramesOK, HandOK, QueuesOK, FreshOK, TypeOK
<1> QED
  BY <1>1, Invariance, PTL

\* Whatever the threads do and whatever fails, a frame that the callback retained
\* and nobody has released is in exactly one queue, one thread's hand or one
\* detached batch (RetainedFrameJob, FrameQueue, CleanupLocked).
THEOREM Custody == Spec => []FrameCustody
<1>1. IInv => FrameCustody
  BY DEF IInv, FramesOK
<1> QED
  BY <1>1, Invariance, PTL

-----------------------------------------------------------------------------
(* Failures.                                                               *)

\* A step that neither records nor notifies a failure.
KeepsFailure ==
    /\ core'.failed = core.failed
    /\ impl.process_failed => impl'.process_failed
    /\ \A t \in Threads : pc[t] = "notify" => pc'[t] = "notify"

LEMMA SharedKeepsFailure ==
  ASSUME IInv, NEW t \in Threads, Shared(t), ~RecordFailure(t), ~NotifyFailure(t)
  PROVE  KeepsFailure
<1>1. pc[t] # "notify" /\ \A u \in Threads \ {t} : pc'[u] = pc[u]
  BY DEF Shared, CloseAccepting, RequestStop, CallRequestStop, CloseQueue, At, Goto, Visit, IInv,
     PcOK
<1>2. core'.failed = core.failed /\ UNCHANGED impl
  BY DEF Shared, CloseAccepting, RequestStop, CallRequestStop, CloseQueue, IInv, FlagsOK, CoreFlags
<1> QED
  BY <1>1, <1>2 DEF KeepsFailure

LEMMA CallbackKeepsFailure ==
  ASSUME IInv, Callback
  PROVE  KeepsFailure
<1>1. pc[Dispatcher] # "notify" /\ UNCHANGED <<core, impl>>
  BY DEF Callback, CheckAccepting, ItemThrows, Fails, Move, RetainItem, PushRefused, PushWaits,
     PushEnqueues, PushThrows, Pushing, At, state
<1>2. \A u \in Threads \ {Dispatcher} : pc'[u] = pc[u]
  BY DEF Callback, CheckAccepting, ItemThrows, Fails, Move, RetainItem, PushRefused, PushWaits,
     PushEnqueues, PushThrows, Goto, Visit, IInv, PcOK
<1> QED
  BY <1>1, <1>2 DEF KeepsFailure

LEMMA WorkerKeepsFailure ==
  ASSUME IInv, NEW c \in Cameras, Worker(c)
  PROVE  KeepsFailure
<1>1. pc[c] # "notify" /\ UNCHANGED <<core, impl>>
  BY DEF Worker, PopWaits, PopTakes, PopRefused, Move, PublishFrame, PublishThrows, At, state
<1>2. \A t \in Threads \ {c} : pc'[t] = pc[t]
  BY WorkerMoves DEF IInv
<1> QED
  BY <1>1, <1>2 DEF KeepsFailure

LEMMA OwnerKeepsFailure ==
  ASSUME IInv, OwnerQuietStep \/ ReleaseDetached \/ \E c \in Cameras : StopAndDetach(c)
  PROVE  KeepsFailure
<1>1. core'.failed = core.failed
  <2>1. \/ UNCHANGED core
        \/ core' = [core EXCEPT !.start_claimed = TRUE]
        \/ core' = [core EXCEPT !.terminal = TRUE]
        \/ core' = [core EXCEPT !.cleanup_complete = TRUE]
    BY DEF OwnerQuietStep, Start, RejectOptions, RejectRestart, ClaimStart, OpenAdmission,
       ConfigureThrows, StartWorker, StartWorkerThrows, CallStartFrameSet, StartReturnsOk,
       StartReturnsFailure, SeeFailure, StopReturnsEarly, StopCleansUp, CleanupReturnsEarly,
       BeginCleanup, JoinWorker, JoinThrows, CompleteCleanup, FinishStop, ExitProcess, SdkStop,
       SeeStopSignal, StopAgain, NewPublisher, Fails, Move, ReleaseDetached, StopAndDetach, state
  <2> QED
    BY <2>1 DEF IInv, FlagsOK, CoreFlags
<1>2. impl.process_failed => impl'.process_failed
  <2>1. \/ UNCHANGED impl
        \/ impl' = [impl EXCEPT !.started = TRUE]
        \/ impl' = [impl EXCEPT !.caller = "Stop"]
        \/ impl' = [impl EXCEPT !.process_failed = @ \/ core.failed, !.started = FALSE]
        \/ impl' = [impl EXCEPT !.process_failed = TRUE]
        \/ impl' = [impl EXCEPT !.starts = @ + 1, !.caller = "Start"]
    BY DEF OwnerQuietStep, Start, RejectOptions, RejectRestart, ClaimStart, OpenAdmission,
       ConfigureThrows, StartWorker, StartWorkerThrows, CallStartFrameSet, StartReturnsOk,
       StartReturnsFailure, SeeFailure, StopReturnsEarly, StopCleansUp, CleanupReturnsEarly,
       BeginCleanup, JoinWorker, JoinThrows, CompleteCleanup, FinishStop, ExitProcess, SdkStop,
       SeeStopSignal, StopAgain, NewPublisher, Fails, Move, ReleaseDetached, StopAndDetach, state
  <2> QED
    BY <2>1 DEF IInv, FlagsOK, ImplStates
<1>3. pc[Owner] # "notify"
  BY DEF OwnerQuietStep, Start, RejectOptions, RejectRestart, ClaimStart, OpenAdmission,
     ConfigureThrows, StartWorker, StartWorkerThrows, CallStartFrameSet, StartReturnsOk,
     StartReturnsFailure, SeeFailure, StopReturnsEarly, StopCleansUp, CleanupReturnsEarly,
     BeginCleanup, JoinWorker, JoinThrows, CompleteCleanup, FinishStop, ExitProcess, SdkStop,
     SeeStopSignal, StopAgain, NewPublisher, Fails, Move, ReleaseDetached, StopAndDetach, At
<1>4. ASSUME NEW t \in Threads \ {Owner} PROVE pc[t] = "notify" => pc'[t] = "notify"
  <2>1. CASE \E c \in Cameras : StartWorker(c)
    <3>1. PICK c \in Cameras : StartWorker(c)
      BY <2>1
    <3>2. pc[c] = "none"
      BY <3>1 DEF StartWorker, At, IInv, StartOK
    <3>3. t # c => pc'[t] = pc[t]
      BY <3>1 DEF StartWorker, IInv, PcOK
    <3> QED
      BY <3>2, <3>3
  <2>2. CASE ~\E c \in Cameras : StartWorker(c)
    BY <2>2 DEF OwnerQuietStep, Start, RejectOptions, RejectRestart, ClaimStart, OpenAdmission,
       ConfigureThrows, StartWorkerThrows, CallStartFrameSet, StartReturnsOk,
       StartReturnsFailure, SeeFailure, StopReturnsEarly, StopCleansUp, CleanupReturnsEarly,
       BeginCleanup, JoinWorker, JoinThrows, CompleteCleanup, FinishStop, ExitProcess, SdkStop,
       SeeStopSignal, StopAgain, NewPublisher, Fails, Move, Visit, Goto, ReleaseDetached,
       StopAndDetach, IInv, PcOK
  <2> QED
    BY <2>1, <2>2
<1> QED
  BY <1>1, <1>2, <1>3, <1>4 DEF KeepsFailure

-----------------------------------------------------------------------------
(* A queue that was stopped.                                               *)

\* Only three actions change a queue.
LEMMA QueueMoves ==
  ASSUME IInv, [Next]_vars, ~UNCHANGED queue
  PROVE  \E c \in Cameras : PushEnqueues(c) \/ PopTakes(c) \/ StopAndDetach(c)
<1>1. \A t \in Threads : Shared(t) => UNCHANGED queue
  BY SharedMoves DEF IInv, frames
<1>2. CheckAccepting \/ ItemThrows \/ (\E c \in Cameras : PushWaits(c)) => UNCHANGED queue
  BY CallbackQuiet DEF IInv, Quiet
<1>3. \A c \in Cameras : RetainItem(c) \/ PushRefused(c) \/ PushThrows(c) => UNCHANGED queue
  BY DEF RetainItem, PushRefused, PushThrows
<1>4. \A c \in Cameras : PopWaits(c) \/ PopRefused(c) => UNCHANGED queue
  BY WorkerQuiet DEF IInv, Quiet
<1>5. \A c \in Cameras : PublishFrame(c) \/ PublishThrows(c) => UNCHANGED queue
  BY DEF PublishFrame, PublishThrows
<1>6. OwnerQuietStep \/ ReleaseDetached => UNCHANGED queue
  BY OwnerQuiet DEF IInv, Quiet, ReleaseDetached
<1>7. DeliverFrameSet \/ (\E t \in Threads : SpuriousWakeup(t)) \/ Exited \/ UNCHANGED vars
        => UNCHANGED queue
  BY DEF DeliverFrameSet, SpuriousWakeup, Exited, vars, state, frames
<1>8. Callback \/ (\E c \in Cameras : Worker(c)) =>
        \E c \in Cameras : PushEnqueues(c) \/ PopTakes(c)
  BY <1>2, <1>3, <1>4, <1>5 DEF Callback, Worker
<1>9. Start \/ SeeFailure \/ Stop => \E c \in Cameras : StopAndDetach(c)
  BY <1>6 DEF Stop, OwnerQuietStep
<1>10. ~Environment
  BY <1>6, <1>7 DEF Environment, OwnerQuietStep
<1> QED
  BY <1>1, <1>7, <1>8, <1>9, <1>10 DEF Next

LEMMA StoppedStep ==
  ASSUME IInv, [Next]_vars, NEW c \in Cameras, stopped[c]
  PROVE  Len(queue'[c]) <= Len(queue[c])
<1>1. queue[c] \in Seq(Frames) /\ Len(queue[c]) \in Nat /\ DOMAIN queue = Cameras
  BY LenProperties DEF IInv, FramesOK, QueuesOK
<1>2. ASSUME NEW d \in Cameras, PushEnqueues(d) PROVE Len(queue'[c]) <= Len(queue[c])
  <2>1. d # c /\ queue' = [queue EXCEPT ![d] = Append(@, job[Dispatcher])]
    BY <1>2 DEF PushEnqueues, PushReturnsFalse
  <2> QED
    BY <1>1, <2>1
<1>3. ASSUME NEW d \in Cameras, PopTakes(d) PROVE Len(queue'[c]) <= Len(queue[c])
  <2>1. d # c /\ queue' = [queue EXCEPT ![d] = Tail(@)]
    BY <1>3 DEF PopTakes
  <2> QED
    BY <1>1, <2>1
<1>4. ASSUME NEW d \in Cameras, StopAndDetach(d) PROVE Len(queue'[c]) <= Len(queue[c])
  <2>1. queue'[c] = queue[c] \/ queue'[c] = << >>
    BY <1>1, <1>4 DEF StopAndDetach
  <2> QED
    BY <1>1, <2>1
<1>5. CASE UNCHANGED queue
  BY <1>1, <1>5
<1> QED
  BY <1>2, <1>3, <1>4, <1>5, QueueMoves

-----------------------------------------------------------------------------
(* Dropped frames.                                                         *)

\* A queue that is stopped stays stopped.
LEMMA StoppedMonotone ==
  ASSUME IInv, [Next]_vars, NEW c \in Cameras, stopped[c]
  PROVE  stopped'[c]
<1>1. DOMAIN stopped = Cameras
  BY DEF IInv, FlagsOK
<1>2. ASSUME NEW t \in Threads, Shared(t) PROVE stopped'[c]
  BY <1>1, <1>2 DEF Shared, CloseAccepting, RequestStop, CallRequestStop, CloseQueue,
     RecordFailure, NotifyFailure, gates
<1>3. CASE Callback
  BY <1>3 DEF Callback, CheckAccepting, ItemThrows, Fails, Move, RetainItem, PushRefused,
     PushWaits, PushEnqueues, PushThrows, state, gates
<1>4. ASSUME NEW d \in Cameras, Worker(d) PROVE stopped'[c]
  BY <1>4 DEF Worker, PopWaits, PopTakes, PopRefused, Move, PublishFrame, PublishThrows,
     state, gates
<1>5. CASE OwnerQuietStep \/ ReleaseDetached
  BY <1>5 DEF OwnerQuietStep, Start, RejectOptions, RejectRestart, ClaimStart, OpenAdmission,
     ConfigureThrows, StartWorker, StartWorkerThrows, CallStartFrameSet, StartReturnsOk,
     StartReturnsFailure, SeeFailure, StopReturnsEarly, StopCleansUp, CleanupReturnsEarly,
     BeginCleanup, JoinWorker, JoinThrows, CompleteCleanup, FinishStop, ExitProcess, SdkStop,
     SeeStopSignal, StopAgain, NewPublisher, Fails, Move, ReleaseDetached, state, gates
<1>6. ASSUME NEW d \in Cameras, StopAndDetach(d) PROVE stopped'[c]
  BY <1>1, <1>6 DEF StopAndDetach
<1>7. CASE DeliverFrameSet \/ (\E t \in Threads : SpuriousWakeup(t)) \/ Exited \/ UNCHANGED vars
  BY <1>7 DEF DeliverFrameSet, SpuriousWakeup, Exited, vars, state, gates
<1> QED
  BY <1>2, <1>3, <1>4, <1>5, <1>6, <1>7 DEF Next, Environment, Stop, OwnerQuietStep

\* Only a Push that returns false drops a frame, the one the dispatcher has in hand.
LEMMA DropMoves ==
  ASSUME IInv, [Next]_vars, NEW f \in Frames, ledger'[f] = "dropped", ledger[f] # "dropped"
  PROVE  PushRefused(Camera(f))
<1>1. DOMAIN ledger = Frames
  BY DEF IInv, FramesOK, FreshOK
<1>2. \A t \in Threads : Shared(t) => UNCHANGED ledger
  BY SharedMoves DEF IInv, frames
<1>3. CheckAccepting \/ ItemThrows \/ (\E c \in Cameras : PushWaits(c)) => UNCHANGED ledger
  BY CallbackQuiet DEF IInv, Quiet
<1>4. \A c \in Cameras : ~RetainItem(c) /\ ~PushThrows(c) /\ ~PublishFrame(c) /\ ~PublishThrows(c)
  BY <1>1 DEF RetainItem, PushThrows, PublishFrame, PublishThrows, Release
<1>5. \A c \in Cameras : PushEnqueues(c) \/ PopTakes(c) \/ StopAndDetach(c) => UNCHANGED ledger
  BY DEF PushEnqueues, PopTakes, StopAndDetach
<1>6. \A c \in Cameras : PopWaits(c) \/ PopRefused(c) => UNCHANGED ledger
  BY WorkerQuiet DEF IInv, Quiet
<1>7. OwnerQuietStep => UNCHANGED ledger
  BY OwnerQuiet DEF IInv, Quiet
<1>8. ~ReleaseDetached
  BY DEF ReleaseDetached
<1>9. DeliverFrameSet \/ (\E t \in Threads : SpuriousWakeup(t)) \/ Exited \/ UNCHANGED vars
        => UNCHANGED ledger
  BY DEF DeliverFrameSet, SpuriousWakeup, Exited, vars, state, frames
<1>10. PICK c \in Cameras : PushRefused(c)
  <2>1. ~UNCHANGED ledger
    OBVIOUS
  <2>2. \A c \in Cameras : ~Worker(c)
    BY <1>4, <1>5, <1>6, <2>1 DEF Worker
  <2>3. ~Start /\ ~SeeFailure /\ ~Stop /\ ~Environment
    BY <1>5, <1>7, <1>8, <1>9, <2>1 DEF Stop, Environment, OwnerQuietStep
  <2>4. Callback
    BY <1>2, <1>9, <2>1, <2>2, <2>3 DEF Next
  <2> QED
    BY <1>3, <1>4, <1>5, <2>1, <2>4 DEF Callback
<1>11. f = job[Dispatcher]
  BY <1>1, <1>10 DEF PushRefused, Release
<1> QED
  BY <1>10, <1>11 DEF PushRefused, Pushing

\* Under the block policy, for any cameras and any capacity, no frame is dropped but
\* at the shutdown: Push gives up a frame only when its queue was stopped, and a
\* queue once stopped is never opened again.
THEOREM NeverDrops == Spec => []BlockNeverDrops
<1>1. Init => BlockNeverDrops
  BY DEF Init, BlockNeverDrops
<1>2. ASSUME IInv, BlockNeverDrops, [Next]_vars PROVE BlockNeverDrops'
  <2> SUFFICES ASSUME ~DropNewest, NEW f \in Frames, ledger'[f] = "dropped"
               PROVE  stopped'[Camera(f)]
    BY DEF BlockNeverDrops
  <2>1. Camera(f) \in Cameras
    BY DEF Frames, Camera
  <2>2. stopped[Camera(f)]
    <3>1. CASE ledger[f] = "dropped"
      BY <1>2, <3>1 DEF BlockNeverDrops
    <3>2. CASE ledger[f] # "dropped"
      BY <1>2, <3>2, DropMoves DEF PushRefused, PushReturnsFalse
    <3> QED
      BY <3>1, <3>2
  <2> QED
    BY <1>2, <2>1, <2>2, StoppedMonotone
<1> QED
  BY <1>1, <1>2, Invariance, PTL DEF Spec

-----------------------------------------------------------------------------
(* The inductive invariant of the shutdown.                                *)

CleanupLabels == {"accept", "request", "call", "queues", "detach", "release", "join",
                  "sdk_stop_1", "sdk_stop_2", "complete"}
JoinedLabels == {"sdk_stop_1", "sdk_stop_2", "complete"}

Drained(c) == stopped[c] /\ queue[c] = << >>
Gone(c) == pc[c] \in {"none", "exited"}

\* terminal is set before the cleanup does anything, and nothing is started after it.
TerminalOK ==
    /\ core.terminal => core.start_claimed
    /\ core.cleanup_complete => core.terminal
    /\ pc[Owner] \in CleanupLabels => core.terminal /\ ~core.cleanup_complete
    /\ pc[Owner] \in {"configure", "spawn", "call_start", "starting", "run"} => ~core.terminal
    /\ pc[Owner] \in {"record", "notify"} => ~core.cleanup_complete

\* StopAndDetach works through the queues, and none of them is filled behind it.
DrainedOK ==
    /\ pc[Owner] = "detach" => \A c \in Cameras \ todo[Owner] : Drained(c)
    /\ pc[Owner] \in {"release", "join"} \cup JoinedLabels \/ core.cleanup_complete =>
         \A c \in Cameras : Drained(c)
    /\ pc[Owner] = "release" => todo[Owner] = Cameras
    /\ pc[Owner] \notin {"detach", "release"} => detached = {}

\* The joins work through the workers.
JoinedOK ==
    /\ pc[Owner] = "join" => \A c \in Cameras \ todo[Owner] : Gone(c)
    /\ pc[Owner] \in JoinedLabels \/ core.cleanup_complete => \A c \in Cameras : Gone(c)

\* A library that has stopped makes no callback; each call of sc132_stop that does
\* not stop it uses up one join failure.
LibraryOK ==
    /\ sdk.library = "stopped" => pc[Dispatcher] = "idle" /\ core.terminal
    /\ pc[Owner] = "sdk_stop_2" =>
         sdk.library = "stopped" \/ sdk.join_failures + 1 <= SdkJoinFailures
    /\ pc[Owner] = "complete" \/ core.cleanup_complete =>
         sdk.library = "stopped" \/ sdk.join_failures + 2 <= SdkJoinFailures

ShutdownOK == TerminalOK /\ DrainedOK /\ JoinedOK /\ LibraryOK

\* Each camera's frames in the order of delivery: published, in the worker's hand,
\* queued.
OrderOK ==
    /\ \A c \in Cameras : \A i, j \in DOMAIN queue[c] :
         i < j => queue[c][i][2] < queue[c][j][2]
    /\ \A c \in Cameras : pc[c] = "sink" =>
         \A i \in DOMAIN queue[c] : job[c][2] < queue[c][i][2]
    /\ \A f \in Frames : ledger[f] = "published" =>
         /\ pc[Camera(f)] = "sink" => f[2] < job[Camera(f)][2]
         /\ \A i \in DOMAIN queue[Camera(f)] : f[2] < queue[Camera(f)][i][2]

-----------------------------------------------------------------------------
(* What every step keeps.                                                  *)

LEMMA DrainedStays ==
  ASSUME IInv, [Next]_vars, NEW c \in Cameras, Drained(c)
  PROVE  Drained(c)'
<1>1. stopped'[c]
  BY StoppedMonotone DEF Drained
<1>2. queue'[c] \in Seq(Frames)
  BY NextIInv DEF IInv, FramesOK, QueuesOK
<1>3. Len(queue'[c]) <= 0
  BY StoppedStep DEF Drained
<1>4. queue'[c] = << >>
  BY <1>2, <1>3, LenProperties, EmptySeq
<1> QED
  BY <1>1, <1>4 DEF Drained

\* The steps of the workers, of the dispatcher and of the library.
OthersStep ==
    \/ \E t \in Threads \ {Owner} : Shared(t)
    \/ Callback \/ (\E c \in Cameras : Worker(c))
    \/ DeliverFrameSet \/ (\E t \in Threads : SpuriousWakeup(t))
    \/ Exited \/ UNCHANGED vars

OwnerStepOf ==
    Shared(Owner) \/ Start \/ SeeFailure \/ Stop \/ SeeStopSignal \/ StopAgain \/ NewPublisher

LEMMA StepsSplit == [Next]_vars => OthersStep \/ OwnerStepOf
  BY DEF Next, Environment, OthersStep, OwnerStepOf

\* They leave alone what the owner alone decides.
LEMMA OthersKeep ==
  ASSUME IInv, OthersStep
  PROVE  /\ pc'[Owner] = pc[Owner] /\ todo'[Owner] = todo[Owner] /\ detached' = detached
         /\ core'.terminal = core.terminal /\ core'.start_claimed = core.start_claimed
         /\ core'.cleanup_complete = core.cleanup_complete
         /\ sdk'.join_failures = sdk.join_failures
         /\ \A c \in Cameras : Gone(c) => Gone(c)'
         /\ sdk'.library = "stopped" => sdk.library = "stopped"
         /\ sdk.library = "stopped" /\ pc[Dispatcher] = "idle" =>
              sdk'.library = "stopped" /\ pc'[Dispatcher] = "idle"
<1>1. PcOK /\ FlagsOK /\ Owner \in Threads /\ Dispatcher \in Threads
      /\ \A c \in Cameras : c \in Threads /\ c # Owner /\ c # Dispatcher
  BY DEF IInv, Threads
<1>2. ASSUME NEW t \in Threads \ {Owner}, Shared(t)
      PROVE  /\ pc[t] \in SharedLabels /\ pc' = [pc EXCEPT ![t] = pc'[t]]
             /\ todo'[Owner] = todo[Owner] /\ UNCHANGED detached
             /\ core'.terminal = core.terminal /\ core'.start_claimed = core.start_claimed
             /\ core'.cleanup_complete = core.cleanup_complete
             /\ sdk'.join_failures = sdk.join_failures
             /\ sdk'.library = sdk.library
                  \/ (sdk.library # "stopped" /\ sdk'.library = "stopping")
  <2>1. /\ pc[t] \in SharedLabels /\ pc' = [pc EXCEPT ![t] = pc'[t]]
        /\ todo'[Owner] = todo[Owner] /\ UNCHANGED detached
    BY <1>1, <1>2, SharedMoves DEF frames
  <2>2. /\ core'.terminal = core.terminal /\ core'.start_claimed = core.start_claimed
        /\ core'.cleanup_complete = core.cleanup_complete
    BY <1>1, <1>2 DEF Shared, CloseAccepting, RequestStop, CallRequestStop, CloseQueue,
       RecordFailure, NotifyFailure, FlagsOK, CoreFlags
  <2>3. /\ sdk'.join_failures = sdk.join_failures
        /\ sdk'.library = sdk.library
             \/ (sdk.library # "stopped" /\ sdk'.library = "stopping")
    BY <1>1, <1>2 DEF Shared, CloseAccepting, RequestStop, CallRequestStop, CloseQueue,
       RecordFailure, NotifyFailure, FlagsOK, SdkStates
  <2> QED
    BY <2>1, <2>2, <2>3
<1>3. CASE \E t \in Threads \ {Owner} : Shared(t)
  BY <1>1, <1>2, <1>3 DEF PcOK, Gone, SharedLabels
<1>4. CASE Callback
  <2>1. UNCHANGED <<core, sdk, detached>> /\ pc[Dispatcher] # "idle"
    BY <1>4 DEF Callback, CheckAccepting, ItemThrows, Fails, Move, RetainItem, PushRefused,
       PushWaits, PushEnqueues, PushThrows, Pushing, At, state, frames
  <2>2. \A t \in Threads \ {Dispatcher} : pc'[t] = pc[t]
    BY <1>1, <1>4 DEF Callback, CheckAccepting, ItemThrows, Fails, Move, RetainItem,
       PushRefused, PushWaits, PushEnqueues, PushThrows, Goto, Visit, PcOK
  <2>3. todo'[Owner] = todo[Owner]
    BY <1>1, <1>4 DEF Callback, CheckAccepting, ItemThrows, Fails, Move, RetainItem,
       PushRefused, PushWaits, PushEnqueues, PushThrows, Visit, FlagsOK
  <2> QED
    BY <1>1, <2>1, <2>2, <2>3 DEF Gone
<1>5. ASSUME NEW d \in Cameras, Worker(d)
      PROVE  /\ UNCHANGED <<core, sdk, detached, todo>> /\ ~Gone(d)
             /\ \A t \in Threads \ {d} : pc'[t] = pc[t]
  <2>1. UNCHANGED <<core, sdk, detached>>
    BY <1>5 DEF Worker, PopWaits, PopTakes, PopRefused, Move, PublishFrame, PublishThrows,
       state, frames
  <2>2. pc[d] \in {"pop", "sink"}
    BY <1>5 DEF Worker, PopWaits, PopTakes, PopRefused, Move, PublishFrame, PublishThrows, At
  <2>3. UNCHANGED todo /\ \A t \in Threads \ {d} : pc'[t] = pc[t]
    BY <1>1, <1>5, WorkerMoves DEF IInv
  <2> QED
    BY <2>1, <2>2, <2>3 DEF Gone
<1>6. CASE \E d \in Cameras : Worker(d)
  BY <1>1, <1>5, <1>6 DEF Gone
<1>7. CASE DeliverFrameSet
  <2>1. UNCHANGED <<core, detached, todo>> /\ sdk.library = "running"
        /\ sdk'.library = "running" /\ sdk'.join_failures = sdk.join_failures
        /\ \A t \in Threads \ {Dispatcher} : pc'[t] = pc[t]
    BY <1>1, <1>7 DEF DeliverFrameSet, Goto, PcOK, FlagsOK, SdkStates, frames
  <2> QED
    BY <1>1, <2>1 DEF Gone
<1>8. CASE (\E t \in Threads : SpuriousWakeup(t)) \/ Exited \/ UNCHANGED vars
  <2>1. UNCHANGED <<pc, todo, core, sdk, detached>>
    BY <1>8 DEF SpuriousWakeup, Exited, vars, state, frames
  <2> QED
    BY <2>1 DEF Gone
<1> QED
  BY <1>3, <1>4, <1>6, <1>7, <1>8 DEF OthersStep

LEMMA OthersShutdown ==
  ASSUME IInv, ShutdownOK, OthersStep, [Next]_vars
  PROVE  ShutdownOK'
<1>1. TerminalOK'
  BY OthersKeep DEF ShutdownOK, TerminalOK
<1>2. DrainedOK'
  BY OthersKeep, DrainedStays DEF ShutdownOK, DrainedOK
<1>3. JoinedOK'
  BY OthersKeep DEF ShutdownOK, JoinedOK
<1>4. LibraryOK'
  BY OthersKeep DEF ShutdownOK, LibraryOK
<1> QED
  BY <1>1, <1>2, <1>3, <1>4 DEF ShutdownOK

-----------------------------------------------------------------------------
(* The owner's steps.                                                      *)

\* The workers go on as they are while the owner moves, unless it starts one.
LEMMA OwnerMoves ==
  ASSUME IInv, OwnerStepOf, ~\E c \in Cameras : StartWorker(c)
  PROVE  \A t \in Threads \ {Owner} : pc'[t] = pc[t]
  BY DEF OwnerStepOf, Shared, CloseAccepting, RequestStop, CallRequestStop, CloseQueue,
     RecordFailure, NotifyFailure, Start, RejectOptions, RejectRestart, ClaimStart,
     OpenAdmission, ConfigureThrows, StartWorkerThrows, CallStartFrameSet, StartReturnsOk,
     StartReturnsFailure, SeeFailure, Stop, StopReturnsEarly, StopCleansUp,
     CleanupReturnsEarly, BeginCleanup, StopAndDetach, JoinWorker, ReleaseDetached,
     JoinThrows, CompleteCleanup, FinishStop, ExitProcess, SdkStop, SeeStopSignal,
     StopAgain, NewPublisher, Fails, Move, Visit, Goto, IInv, PcOK

LEMMA OwnerTerminal ==
  ASSUME IInv, TerminalOK, OwnerStepOf
  PROVE  TerminalOK'
<1> USE DEF At, Goto, Move, Fails, state
<1>1. PcOK /\ FlagsOK /\ Owner \in Threads
  BY DEF IInv, Threads
<1> USE DEF PcOK, FlagsOK, CoreFlags, TerminalOK, CleanupLabels
<1>2. CASE Shared(Owner)
  <2>1. CASE CloseAccepting(Owner) \/ RequestStop(Owner) \/ CallRequestStop(Owner)
    BY <1>1, <2>1 DEF CloseAccepting, RequestStop, CallRequestStop
  <2>2. ASSUME NEW c \in Cameras, CloseQueue(Owner, c) PROVE TerminalOK'
    BY <1>1, <2>2 DEF CloseQueue, Visit, AfterQueues
  <2>3. CASE RecordFailure(Owner) \/ NotifyFailure(Owner)
    BY <1>1, <2>3 DEF RecordFailure, NotifyFailure, AfterFailure
  <2> QED
    BY <1>2, <2>1, <2>2, <2>3 DEF Shared
<1>3. CASE Start
  <2>1. CASE RejectOptions \/ RejectRestart \/ ClaimStart \/ OpenAdmission
             \/ ConfigureThrows \/ StartWorkerThrows
    BY <1>1, <2>1 DEF RejectOptions, RejectRestart, ClaimStart, OpenAdmission,
       ConfigureThrows, StartWorkerThrows
  <2>2. ASSUME NEW c \in Cameras, StartWorker(c) PROVE TerminalOK'
    <3>1. pc'[Owner] \in {"spawn", "call_start"} /\ pc[Owner] = "spawn" /\ UNCHANGED core
      BY <1>1, <2>2 DEF StartWorker, Threads
    <3> QED
      BY <3>1
  <2>3. CASE CallStartFrameSet \/ StartReturnsOk \/ StartReturnsFailure
    BY <1>1, <2>3 DEF CallStartFrameSet, StartReturnsOk, StartReturnsFailure
  <2> QED
    BY <1>3, <2>1, <2>2, <2>3 DEF Start
<1>4. CASE SeeFailure \/ SeeStopSignal \/ StopAgain \/ NewPublisher
  BY <1>1, <1>4 DEF SeeFailure, SeeStopSignal, StopAgain, NewPublisher
<1>5. CASE Stop
  <2>1. CASE StopReturnsEarly \/ StopCleansUp \/ CleanupReturnsEarly \/ BeginCleanup
    BY <1>1, <2>1 DEF StopReturnsEarly, StopCleansUp, CleanupReturnsEarly, BeginCleanup,
       AfterCleanup
  <2>2. ASSUME NEW c \in Cameras, StopAndDetach(c) \/ JoinWorker(c) PROVE TerminalOK'
    BY <1>1, <2>2 DEF StopAndDetach, JoinWorker, Visit
  <2>3. CASE ReleaseDetached \/ JoinThrows \/ FinishStop \/ ExitProcess
    BY <1>1, <2>3 DEF ReleaseDetached, JoinThrows, FinishStop, ExitProcess
  <2>4. CASE CompleteCleanup
    BY <1>1, <2>4 DEF CompleteCleanup, AfterCleanup
  <2>5. ASSUME NEW call \in {"sdk_stop_1", "sdk_stop_2"}, SdkStop(call) PROVE TerminalOK'
    BY <1>1, <2>5 DEF SdkStop, AfterSdkStop
  <2> QED
    BY <1>5, <2>1, <2>2, <2>3, <2>4, <2>5 DEF Stop
<1> QED
  BY <1>2, <1>3, <1>4, <1>5 DEF OwnerStepOf

\* Where the owner may go, outside the loops of the cleanup.
LEMMA OwnerDrained ==
  ASSUME IInv, TerminalOK, DrainedOK, OwnerStepOf, [Next]_vars
  PROVE  DrainedOK'
<1>1. PcOK /\ FlagsOK /\ Owner \in Threads /\ todo[Owner] \subseteq Cameras
  BY DEF IInv, Threads, FlagsOK
<1>2. \A c \in Cameras : Drained(c) => Drained(c)'
  BY DrainedStays
<1>3. ASSUME detached' = detached,
             core'.cleanup_complete = core.cleanup_complete,
             pc'[Owner] \notin {"detach", "release", "join"} \cup JoinedLabels,
             pc[Owner] \notin {"detach", "release"}
      PROVE  DrainedOK'
  BY <1>2, <1>3 DEF DrainedOK
<1> USE DEF At, Goto, Move, Fails, state, frames
<1>4. CASE Shared(Owner)
  <2>1. UNCHANGED detached /\ pc[Owner] \in SharedLabels
    BY <1>1, <1>4, SharedMoves
  <2>2. core'.cleanup_complete = core.cleanup_complete
    BY <1>1, <1>4 DEF Shared, CloseAccepting, RequestStop, CallRequestStop, CloseQueue,
       RecordFailure, NotifyFailure, FlagsOK, CoreFlags
  <2>3. pc'[Owner] \in SharedLabels \cup {"detach", "exited", "idle", "cleanup", "stop", "fatal"}
    BY <1>1, <1>4, SharedMoves
  <2>4. CASE pc'[Owner] = "detach"
    <3>1. PICK c \in Cameras : CloseQueue(Owner, c)
      BY <1>1, <1>4, <2>4 DEF Shared, CloseAccepting, RequestStop, CallRequestStop,
         RecordFailure, NotifyFailure, AfterFailure, PcOK
    <3>2. todo'[Owner] = Cameras
      BY <1>1, <2>4, <3>1 DEF CloseQueue, Visit, PcOK, FlagsOK
    <3> QED
      BY <1>2, <2>1, <2>2, <2>4, <3>2 DEF DrainedOK, SharedLabels, JoinedLabels
  <2>5. CASE pc'[Owner] # "detach"
    BY <1>3, <2>1, <2>2, <2>3, <2>5 DEF SharedLabels, JoinedLabels
  <2> QED
    BY <2>4, <2>5
<1>5. CASE Start \/ SeeFailure \/ SeeStopSignal \/ StopAgain \/ NewPublisher
  <2>1. /\ pc[Owner] \in {"start", "configure", "spawn", "call_start", "starting", "run",
                          "stopped"}
        /\ UNCHANGED detached
    BY <1>5 DEF Start, RejectOptions, RejectRestart, ClaimStart, OpenAdmission,
       ConfigureThrows, StartWorker, StartWorkerThrows, CallStartFrameSet, StartReturnsOk,
       StartReturnsFailure, SeeFailure, SeeStopSignal, StopAgain, NewPublisher
  <2>2. core'.cleanup_complete = core.cleanup_complete
    BY <1>1, <1>5 DEF Start, RejectOptions, RejectRestart, ClaimStart, OpenAdmission,
       ConfigureThrows, StartWorker, StartWorkerThrows, CallStartFrameSet, StartReturnsOk,
       StartReturnsFailure, SeeFailure, SeeStopSignal, StopAgain, NewPublisher, FlagsOK,
       CoreFlags
  <2>3. pc'[Owner] \in {"start", "configure", "spawn", "call_start", "starting", "run",
                        "stop", "record"}
    <3>1. ASSUME NEW c \in Cameras, StartWorker(c)
          PROVE  pc'[Owner] \in {"spawn", "call_start"}
      BY <1>1, <3>1 DEF StartWorker, PcOK, Threads
    <3> QED
      BY <1>1, <1>5, <3>1 DEF Start, RejectOptions, RejectRestart, ClaimStart,
         OpenAdmission, ConfigureThrows, StartWorkerThrows, CallStartFrameSet,
         StartReturnsOk, StartReturnsFailure, SeeFailure, SeeStopSignal, StopAgain,
         NewPublisher, PcOK
  <2> QED
    BY <1>3, <2>1, <2>2, <2>3 DEF JoinedLabels
<1>6. CASE StopReturnsEarly \/ StopCleansUp \/ CleanupReturnsEarly \/ BeginCleanup
           \/ JoinThrows \/ FinishStop \/ ExitProcess
  <2>1. UNCHANGED detached /\ core'.cleanup_complete = core.cleanup_complete
    BY <1>1, <1>6 DEF StopReturnsEarly, StopCleansUp, CleanupReturnsEarly, BeginCleanup,
       JoinThrows, FinishStop, ExitProcess, FlagsOK, CoreFlags
  <2>2. /\ pc'[Owner] \in {"stopped", "cleanup", "stop", "finish", "accept", "record", "exit"}
        /\ pc[Owner] \in {"stop", "cleanup", "join", "finish", "fatal"}
    BY <1>1, <1>6 DEF StopReturnsEarly, StopCleansUp, CleanupReturnsEarly, BeginCleanup,
       JoinThrows, FinishStop, ExitProcess, AfterCleanup, PcOK
  <2> QED
    BY <1>3, <2>1, <2>2 DEF JoinedLabels
<1>7. ASSUME NEW c \in Cameras, StopAndDetach(c) PROVE DrainedOK'
  <2>1. Drained(c)'
    BY <1>7 DEF StopAndDetach, Drained, IInv, FlagsOK, FramesOK, QueuesOK
  <2>2. /\ pc[Owner] = "detach" /\ UNCHANGED core
        /\ IF todo[Owner] = {c} THEN pc'[Owner] = "release" /\ todo'[Owner] = Cameras
           ELSE pc'[Owner] = "detach" /\ todo'[Owner] = todo[Owner] \ {c}
    BY <1>1, <1>7 DEF StopAndDetach, Visit, PcOK, FlagsOK
  <2>3. \A d \in Cameras \ todo[Owner] : Drained(d)
    BY <2>2 DEF DrainedOK
  <2>4. ~core.cleanup_complete
    BY <2>2 DEF TerminalOK, CleanupLabels
  <2> QED
    BY <1>2, <2>1, <2>2, <2>3, <2>4 DEF DrainedOK, JoinedLabels
<1>8. CASE ReleaseDetached
  BY <1>1, <1>2, <1>8 DEF ReleaseDetached, DrainedOK, PcOK
<1>9. ASSUME NEW c \in Cameras, JoinWorker(c) PROVE DrainedOK'
  <2>1. /\ pc[Owner] = "join" /\ UNCHANGED <<detached, core>>
        /\ pc'[Owner] \in {"join", "sdk_stop_1"}
    BY <1>1, <1>9 DEF JoinWorker, Visit, PcOK
  <2> QED
    BY <1>2, <2>1 DEF DrainedOK, JoinedLabels
<1>10. CASE CompleteCleanup \/ \E call \in {"sdk_stop_1", "sdk_stop_2"} : SdkStop(call)
  <2>1. /\ pc[Owner] \in JoinedLabels /\ UNCHANGED detached
        /\ pc'[Owner] \in JoinedLabels \cup {"stop", "finish"}
    BY <1>1, <1>10 DEF CompleteCleanup, SdkStop, AfterSdkStop, AfterCleanup, PcOK,
       JoinedLabels
  <2> QED
    BY <1>2, <2>1 DEF DrainedOK, JoinedLabels
<1> QED
  BY <1>4, <1>5, <1>6, <1>7, <1>8, <1>9, <1>10 DEF OwnerStepOf, Stop

LEMMA OwnerJoined ==
  ASSUME IInv, TerminalOK, DrainedOK, JoinedOK, OwnerStepOf
  PROVE  JoinedOK'
<1>1. PcOK /\ FlagsOK /\ Owner \in Threads /\ todo[Owner] \subseteq Cameras
      /\ \A c \in Cameras : c \in Threads /\ c # Owner
  BY DEF IInv, Threads, FlagsOK
<1> USE DEF At, Goto, Move, Fails, state
<1>2. CASE \E c \in Cameras : StartWorker(c)
  <2>1. PICK c \in Cameras : StartWorker(c)
    BY <1>2
  <2>2. pc[Owner] = "spawn" /\ UNCHANGED core /\ pc'[Owner] \in {"spawn", "call_start"}
    BY <1>1, <2>1 DEF StartWorker, PcOK
  <2>3. ~core.cleanup_complete
    BY <2>2 DEF TerminalOK
  <2> QED
    BY <2>2, <2>3 DEF JoinedOK, JoinedLabels
<1>3. ASSUME ~\E c \in Cameras : StartWorker(c)
      PROVE  \A c \in Cameras : Gone(c) => Gone(c)'
  BY <1>1, <1>3, OwnerMoves DEF Gone
<1>4. CASE ReleaseDetached
  <2>1. /\ pc[Owner] = "release" /\ pc'[Owner] = "join" /\ UNCHANGED <<todo, core>>
    BY <1>1, <1>4 DEF ReleaseDetached, PcOK
  <2>2. \A c \in Cameras : Gone(c) => Gone(c)'
    BY <1>1, <1>4 DEF ReleaseDetached, Gone, PcOK
  <2> QED
    BY <2>1, <2>2 DEF JoinedOK, DrainedOK, JoinedLabels
<1>5. ASSUME NEW c \in Cameras, JoinWorker(c) PROVE JoinedOK'
  <2>1. /\ pc[Owner] = "join" /\ Gone(c) /\ UNCHANGED core
        /\ IF todo[Owner] = {c} THEN pc'[Owner] = "sdk_stop_1"
           ELSE pc'[Owner] = "join" /\ todo'[Owner] = todo[Owner] \ {c}
    BY <1>1, <1>5 DEF JoinWorker, Visit, PcOK, FlagsOK, Gone
  <2>2. \A d \in Cameras : Gone(d) => Gone(d)'
    BY <1>1, <1>5 DEF JoinWorker, Visit, PcOK, Gone
  <2>3. \A d \in Cameras \ todo[Owner] : Gone(d)
    BY <2>1 DEF JoinedOK
  <2> QED
    BY <2>1, <2>2, <2>3 DEF JoinedOK, JoinedLabels
<1>6. CASE CompleteCleanup \/ \E call \in {"sdk_stop_1", "sdk_stop_2"} : SdkStop(call)
  <2>1. /\ pc[Owner] \in JoinedLabels
        /\ pc'[Owner] \in JoinedLabels \cup {"stop", "finish"}
    BY <1>1, <1>6 DEF CompleteCleanup, SdkStop, AfterSdkStop, AfterCleanup, PcOK,
       JoinedLabels
  <2>2. \A c \in Cameras : Gone(c)
    BY <2>1 DEF JoinedOK
  <2>3. \A c \in Cameras : Gone(c)'
    BY <1>1, <1>6, <2>2 DEF CompleteCleanup, SdkStop, PcOK, Gone
  <2> QED
    BY <2>1, <2>3 DEF JoinedOK, JoinedLabels
<1>7. ASSUME ~(\E c \in Cameras : StartWorker(c) \/ JoinWorker(c)), ~ReleaseDetached,
             ~CompleteCleanup, ~\E call \in {"sdk_stop_1", "sdk_stop_2"} : SdkStop(call)
      PROVE  JoinedOK'
  <2>1. core'.cleanup_complete = core.cleanup_complete
    BY <1>1, <1>7 DEF OwnerStepOf, Shared, CloseAccepting, RequestStop, CallRequestStop,
       CloseQueue, RecordFailure, NotifyFailure, Start, RejectOptions, RejectRestart,
       ClaimStart, OpenAdmission, ConfigureThrows, StartWorkerThrows, CallStartFrameSet,
       StartReturnsOk, StartReturnsFailure, SeeFailure, Stop, StopReturnsEarly,
       StopCleansUp, CleanupReturnsEarly, BeginCleanup, StopAndDetach, JoinThrows,
       FinishStop, ExitProcess, SeeStopSignal, StopAgain, NewPublisher, FlagsOK, CoreFlags
  <2>2. pc'[Owner] \notin {"join"} \cup JoinedLabels
    BY <1>1, <1>7 DEF OwnerStepOf, Shared, CloseAccepting, RequestStop, CallRequestStop,
       CloseQueue, RecordFailure, NotifyFailure, Start, RejectOptions, RejectRestart,
       ClaimStart, OpenAdmission, ConfigureThrows, StartWorkerThrows, CallStartFrameSet,
       StartReturnsOk, StartReturnsFailure, SeeFailure, Stop, StopReturnsEarly,
       StopCleansUp, CleanupReturnsEarly, BeginCleanup, StopAndDetach, JoinThrows,
       FinishStop, ExitProcess, SeeStopSignal, StopAgain, NewPublisher, Visit, PcOK,
       AfterQueues, AfterFailure, AfterCleanup, JoinedLabels
  <2> QED
    BY <1>3, <1>7, <2>1, <2>2 DEF JoinedOK
<1> QED
  BY <1>2, <1>4, <1>5, <1>6, <1>7

LEMMA OwnerLibrary ==
  ASSUME IInv, TerminalOK, LibraryOK, OwnerStepOf
  PROVE  LibraryOK'
<1>1. PcOK /\ FlagsOK /\ Owner \in Threads /\ Dispatcher \in Threads /\ Dispatcher # Owner
      /\ sdk \in SdkStates /\ core \in CoreFlags
  BY DEF IInv, Threads, FlagsOK
<1> USE DEF At, Goto, Move, Fails, state
<1>2. ASSUME NEW call \in {"sdk_stop_1", "sdk_stop_2"}, SdkStop(call) PROVE LibraryOK'
  <2>1. pc[Owner] = call /\ pc[Owner] \in {"sdk_stop_1", "sdk_stop_2"} /\ core.terminal
        /\ ~core.cleanup_complete /\ UNCHANGED core /\ pc'[Dispatcher] = pc[Dispatcher]
    BY <1>1, <1>2 DEF SdkStop, TerminalOK, CleanupLabels, PcOK
  <2>2. pc'[Owner] = AfterSdkStop \/ pc'[Owner] = pc[Owner]
    BY <1>1, <1>2 DEF SdkStop, PcOK
  <2>3. CASE sdk.library \in {"idle", "running"} /\ pc' = pc /\ sdk'.library = "stopping"
             /\ sdk'.join_failures = sdk.join_failures
    BY <1>1, <2>1, <2>3 DEF LibraryOK
  <2>4. CASE sdk'.library = "stopped" /\ pc[Dispatcher] = "idle"
    BY <1>1, <2>1, <2>4 DEF LibraryOK
  <2>5. CASE /\ sdk.library = "stopping" /\ sdk'.library = "stopping"
             /\ sdk'.join_failures = sdk.join_failures - 1 /\ pc'[Owner] = AfterSdkStop
    <3>1. sdk.join_failures \in Nat /\ sdk.join_failures <= SdkJoinFailures
      BY <1>1 DEF SdkStates
    <3> QED
      BY <1>1, <2>1, <2>5, <3>1 DEF LibraryOK, AfterSdkStop
  <2>6. CASE sdk.library = "stopped"
    <3>1. sdk' = sdk
      BY <1>2, <2>6 DEF SdkStop
    <3> QED
      BY <2>1, <2>6, <3>1 DEF LibraryOK
  <2>7. CASE sdk.library # "stopped"
    <3>1. \/ /\ sdk.library \in {"idle", "running"}
             /\ sdk' = [sdk EXCEPT !.library = "stopping"] /\ UNCHANGED pc
          \/ /\ pc[Dispatcher] = "idle" /\ sdk' = [sdk EXCEPT !.library = "stopped"]
          \/ /\ sdk.library = "stopping"
             /\ sdk' = [sdk EXCEPT !.join_failures = @ - 1]
             /\ pc' = [pc EXCEPT ![Owner] = AfterSdkStop]
      BY <1>2, <2>7 DEF SdkStop
    <3> QED
      BY <1>1, <2>3, <2>4, <2>5, <3>1 DEF SdkStates, PcOK
  <2> QED
    BY <2>6, <2>7
<1>3. CASE CompleteCleanup
  <2>1. pc[Owner] = "complete" /\ UNCHANGED sdk /\ pc'[Dispatcher] = pc[Dispatcher]
        /\ pc'[Owner] \in {"stop", "finish"} /\ core'.terminal = core.terminal
    BY <1>1, <1>3 DEF CompleteCleanup, PcOK, AfterCleanup, CoreFlags
  <2> QED
    BY <2>1 DEF LibraryOK
<1>4. CASE CallStartFrameSet \/ StartReturnsFailure
  <2>1. /\ pc[Owner] \in {"call_start", "starting"} /\ UNCHANGED core
        /\ sdk'.library # "stopped" /\ pc'[Owner] \in {"starting", "record"}
    BY <1>1, <1>4 DEF CallStartFrameSet, StartReturnsFailure, PcOK, SdkStates
  <2>2. ~core.terminal /\ ~core.cleanup_complete
    BY <2>1 DEF TerminalOK
  <2> QED
    BY <2>1, <2>2 DEF LibraryOK
<1>5. ASSUME ~CompleteCleanup, ~CallStartFrameSet, ~StartReturnsFailure,
             ~\E call \in {"sdk_stop_1", "sdk_stop_2"} : SdkStop(call)
      PROVE  LibraryOK'
  <2>1. core'.cleanup_complete = core.cleanup_complete
        /\ (core.terminal => core'.terminal)
    BY <1>1, <1>5 DEF OwnerStepOf, Shared, CloseAccepting, RequestStop, CallRequestStop,
       CloseQueue, RecordFailure, NotifyFailure, Start, RejectOptions, RejectRestart,
       ClaimStart, OpenAdmission, ConfigureThrows, StartWorker, StartWorkerThrows,
       StartReturnsOk, SeeFailure, Stop, StopReturnsEarly, StopCleansUp,
       CleanupReturnsEarly, BeginCleanup, StopAndDetach, JoinWorker, ReleaseDetached,
       JoinThrows, FinishStop, ExitProcess, SeeStopSignal, StopAgain, NewPublisher,
       CoreFlags
  <2>2. sdk'.join_failures = sdk.join_failures
        /\ (sdk'.library = sdk.library
             \/ (sdk.library # "stopped" /\ sdk'.library = "stopping"))
    <3>1. CASE CallRequestStop(Owner)
      BY <1>1, <3>1 DEF CallRequestStop, SdkStates
    <3>2. CASE ~CallRequestStop(Owner)
      BY <1>1, <1>5, <3>2 DEF OwnerStepOf, Shared, CloseAccepting, RequestStop,
         CloseQueue, RecordFailure, NotifyFailure, Start, RejectOptions, RejectRestart,
         ClaimStart, OpenAdmission, ConfigureThrows, StartWorker, StartWorkerThrows,
         StartReturnsOk, SeeFailure, Stop, StopReturnsEarly, StopCleansUp,
         CleanupReturnsEarly, BeginCleanup, StopAndDetach, JoinWorker, ReleaseDetached,
         JoinThrows, FinishStop, ExitProcess, SeeStopSignal, StopAgain, NewPublisher
    <3> QED
      BY <3>1, <3>2
  <2>3. pc'[Owner] \notin {"sdk_stop_2", "complete"} /\ pc'[Dispatcher] = pc[Dispatcher]
    <3>1. ASSUME NEW c \in Cameras, StartWorker(c)
          PROVE  pc'[Owner] \in {"spawn", "call_start"} /\ pc'[Dispatcher] = pc[Dispatcher]
      BY <1>1, <3>1 DEF StartWorker, PcOK, Threads
    <3>2. CASE ~\E c \in Cameras : StartWorker(c)
      BY <1>1, <1>5, <3>2 DEF OwnerStepOf, Shared, CloseAccepting, RequestStop,
         CallRequestStop, CloseQueue, RecordFailure, NotifyFailure, Start, RejectOptions,
         RejectRestart, ClaimStart, OpenAdmission, ConfigureThrows, StartWorkerThrows,
         StartReturnsOk, SeeFailure, Stop, StopReturnsEarly, StopCleansUp,
         CleanupReturnsEarly, BeginCleanup, StopAndDetach, JoinWorker, ReleaseDetached,
         JoinThrows, FinishStop, ExitProcess, SeeStopSignal, StopAgain, NewPublisher,
         Visit, PcOK, AfterQueues, AfterFailure, AfterCleanup
    <3> QED
      BY <3>1, <3>2
  <2> QED
    BY <2>1, <2>2, <2>3 DEF LibraryOK
<1> QED
  BY <1>2, <1>3, <1>4, <1>5

LEMMA NextShutdown ==
  ASSUME IInv, ShutdownOK, [Next]_vars
  PROVE  ShutdownOK'
<1>1. CASE OthersStep
  BY <1>1, OthersShutdown
<1>2. CASE OwnerStepOf
  BY <1>2, OwnerTerminal, OwnerDrained, OwnerJoined, OwnerLibrary DEF ShutdownOK
<1> QED
  BY <1>1, <1>2, StepsSplit

LEMMA InitShutdown == Init => ShutdownOK
  BY DEF Init, ShutdownOK, TerminalOK, DrainedOK, JoinedOK, LibraryOK, CleanupLabels,
     JoinedLabels, Threads

\* The order of the shutdown is kept in every reachable state.
THEOREM ShutdownInvariance == Spec => []ShutdownOK
<1>1. IInv /\ ShutdownOK /\ [Next]_vars => ShutdownOK'
  BY NextShutdown
<1> QED
  BY <1>1, InitShutdown, Invariance, PTL DEF Spec

\* No frame is pushed behind the owner's back: from the join on a frame not yet
\* returned is in a worker's or the dispatcher's hand, whatever fails.
THEOREM NothingBehindTheOwner == Spec => []NoFrameBehindTheOwner
<1>1. IInv /\ ShutdownOK => NoFrameBehindTheOwner
  <2> SUFFICES ASSUME IInv, ShutdownOK, pc[Owner] \in {"join"} \cup JoinedLabels
               PROVE  /\ Queued = {} /\ detached = {}
                      /\ \A f \in Held : \E t \in Threads \ {Owner} : job[t] = f
    BY DEF NoFrameBehindTheOwner, JoinedLabels
  <2>1. \A c \in Cameras : queue[c] = << >>
    BY DEF ShutdownOK, DrainedOK, Drained, JoinedLabels
  <2>2. \A c \in Cameras : Range(queue[c]) = {}
    BY <2>1 DEF Range
  <2>3. Queued = {} /\ detached = {}
    BY <2>2 DEF Queued, ShutdownOK, DrainedOK, JoinedLabels
  <2>4. Held = InHand
    BY <2>3 DEF IInv, FramesOK, FrameCustody
  <2> QED
    BY <2>3, <2>4 DEF InHand, IInv, FramesOK, HandOK
<1> QED
  BY <1>1, Invariance, ShutdownInvariance, PTL

\* A library that has stopped leaves nothing behind: no thread runs and no frame
\* is held once the cleanup is complete, whatever else failed.
CleanupLeavesNothing ==
    core.cleanup_complete /\ sdk.library = "stopped" =>
        /\ \A c \in Cameras : Gone(c)
        /\ pc[Dispatcher] = "idle"
        /\ Held = {}

LEMMA QuietWhenStopped ==
  ASSUME IInv, ShutdownOK, sdk.library = "stopped",
         pc[Owner] = "complete" \/ core.cleanup_complete
  PROVE  (\A c \in Cameras : Gone(c)) /\ pc[Dispatcher] = "idle" /\ Held = {}
<1>1. (\A c \in Cameras : Gone(c)) /\ pc[Dispatcher] = "idle"
  BY DEF ShutdownOK, JoinedOK, JoinedLabels, LibraryOK
<1>2. \A c \in Cameras : queue[c] = << >>
  BY DEF ShutdownOK, DrainedOK, Drained, JoinedLabels
<1>3. Queued = {}
  BY <1>2 DEF Queued, Range
<1>4. detached = {}
  BY DEF ShutdownOK, DrainedOK, TerminalOK, CleanupLabels
<1>5. \A t \in Threads : job[t] = NoFrame
  BY <1>1 DEF IInv, FramesOK, HandOK, Gone, Threads
<1>6. InHand = {}
  BY <1>5 DEF InHand
<1> QED
  BY <1>1, <1>3, <1>4, <1>6 DEF IInv, FramesOK, FrameCustody

LEMMA StoppedLibraryIsQuiet ==
  ASSUME IInv, ShutdownOK
  PROVE  CleanupLeavesNothing
BY QuietWhenStopped DEF CleanupLeavesNothing

\* So nothing is left behind by a library that has stopped, however often it failed.
THEOREM NothingLeftBehind == Spec => []CleanupLeavesNothing
<1>1. IInv /\ ShutdownOK => CleanupLeavesNothing
  BY StoppedLibraryIsQuiet
<1> QED
  BY <1>1, Invariance, ShutdownInvariance, PTL

LEMMA OneFailureIsRetried ==
  ASSUME IInv, ShutdownOK, SdkJoinFailures < 2
  PROVE  LibraryQuiesced
<1>1. sdk.join_failures \in Nat
  BY DEF IInv, FlagsOK, SdkStates
<1> QED
  BY <1>1 DEF LibraryQuiesced, ShutdownOK, LibraryOK

\* The core calls sc132_stop twice: a library that fails to join its threads at most
\* once has stopped when the cleanup is complete.
THEOREM LibraryStops ==
  ASSUME SdkJoinFailures < 2
  PROVE  Spec => []LibraryQuiesced
<1>1. IInv /\ ShutdownOK => LibraryQuiesced
  BY OneFailureIsRetried
<1> QED
  BY <1>1, Invariance, ShutdownInvariance, PTL

\* Then, too, no thread of the pipeline is left when the sink and the notifier are
\* cleared, and every frame is back at the library.
THEOREM CleanupIsQuiescent ==
  ASSUME SdkJoinFailures < 2
  PROVE  Spec => []QuiescentCleanup
<1>1. IInv /\ ShutdownOK => QuiescentCleanup
  BY StoppedLibraryIsQuiet, OneFailureIsRetried
     DEF QuiescentCleanup, LibraryQuiesced, CleanupLeavesNothing, Gone
<1> QED
  BY <1>1, Invariance, ShutdownInvariance, PTL

-----------------------------------------------------------------------------
(* What the process is told.                                               *)

Complete == core.cleanup_complete

LEMMA OnlyCleanupCompletes ==
  ASSUME IInv, [Next]_vars
  PROVE  CompleteCleanup \/ Complete' = Complete
<1>1. core \in CoreFlags
  BY DEF IInv, FlagsOK
<1>2. ASSUME NEW t \in Threads, Shared(t) PROVE Complete' = Complete
  BY <1>1, <1>2 DEF Shared, CloseAccepting, RequestStop, CallRequestStop, CloseQueue,
     RecordFailure, NotifyFailure, Complete, CoreFlags
<1>3. CASE Callback
  BY <1>3 DEF Callback, CheckAccepting, ItemThrows, Fails, Move, RetainItem, PushRefused,
     PushWaits, PushEnqueues, PushThrows, state, Complete
<1>4. ASSUME NEW c \in Cameras, Worker(c) PROVE Complete' = Complete
  BY <1>4 DEF Worker, PopWaits, PopTakes, PopRefused, Move, PublishFrame, PublishThrows,
     state, Complete
<1>5. CASE Start \/ SeeFailure
  BY <1>1, <1>5 DEF Start, SeeFailure, RejectOptions, RejectRestart, ClaimStart,
     OpenAdmission, ConfigureThrows, StartWorker, StartWorkerThrows, CallStartFrameSet,
     StartReturnsOk, StartReturnsFailure, Fails, Move, state, Complete, CoreFlags
<1>6. CASE Stop
  BY <1>1, <1>6 DEF Stop, StopReturnsEarly, StopCleansUp, CleanupReturnsEarly, BeginCleanup,
     StopAndDetach, JoinWorker, ReleaseDetached, JoinThrows, SdkStop, FinishStop,
     ExitProcess, Fails, Move, state, Complete, CoreFlags
<1>7. CASE Environment \/ Exited \/ UNCHANGED vars
  BY <1>7 DEF Environment, DeliverFrameSet, SeeStopSignal, StopAgain, NewPublisher,
     SpuriousWakeup, Exited, Move, vars, state, Complete
<1> QED
  BY <1>2, <1>3, <1>4, <1>5, <1>6, <1>7 DEF Next

\* A library that a complete cleanup has left running stays so: nobody calls
\* sc132_stop any more.
LEMMA LibraryStays ==
  ASSUME IInv, ShutdownOK, [Next]_vars, Complete, sdk.library # "stopped"
  PROVE  Complete' /\ sdk'.library # "stopped"
<1>1. Complete'
  BY OnlyCleanupCompletes DEF CompleteCleanup, Complete, IInv, FlagsOK, CoreFlags
<1>2. CASE OthersStep
  BY <1>1, <1>2, OthersKeep
<1>3. CASE OwnerStepOf
  <2>1. \A call \in {"sdk_stop_1", "sdk_stop_2"} : ~SdkStop(call)
    BY DEF SdkStop, At, ShutdownOK, TerminalOK, CleanupLabels, Complete
  <2>2. \/ UNCHANGED sdk
        \/ sdk' = [sdk EXCEPT !.library = "running"]
        \/ sdk' = [sdk EXCEPT !.library = "stopping"]
    BY <1>3, <2>1 DEF OwnerStepOf, Shared, CloseAccepting, RequestStop, CallRequestStop,
       CloseQueue, RecordFailure, NotifyFailure, Start, RejectOptions, RejectRestart, ClaimStart,
       OpenAdmission, ConfigureThrows, StartWorker, StartWorkerThrows, CallStartFrameSet,
       StartReturnsOk, StartReturnsFailure, SeeFailure, Stop, StopReturnsEarly, StopCleansUp,
       CleanupReturnsEarly, BeginCleanup, StopAndDetach, JoinWorker, ReleaseDetached,
       JoinThrows, CompleteCleanup, FinishStop, ExitProcess, SeeStopSignal, StopAgain,
       NewPublisher, Fails, Move, state
  <2> QED
    BY <1>1, <2>2 DEF IInv, FlagsOK, SdkStates
<1> QED
  BY <1>1, <1>2, <1>3, StepsSplit

\* With the notifier cleared only a callback of a library that did not stop can
\* still have a failure to tell.
LEMMA OnlyLateCallback ==
  ASSUME IInv, ShutdownOK, NEW t \in Threads, pc[t] = "notify", ~HasNotifier
  PROVE  sdk.library # "stopped"
<1>1. t # Owner
  BY DEF ShutdownOK, TerminalOK, HasNotifier
<1>2. t \notin Cameras
  BY DEF ShutdownOK, JoinedOK, Gone, HasNotifier
<1> QED
  BY <1>1, <1>2 DEF Threads, ShutdownOK, LibraryOK

\* FailureIsNotified but for the failures of such a callback.
NotifiedOK ==
    core.failed =>
        \/ impl.process_failed
        \/ \E t \in Threads : pc[t] = "notify"
        \/ Complete /\ sdk.library # "stopped"

LEMMA NextNotified ==
  ASSUME IInv, ShutdownOK, NotifiedOK, [Next]_vars
  PROVE  NotifiedOK'
<1>1. ASSUME KeepsFailure PROVE NotifiedOK'
  BY <1>1, LibraryStays DEF KeepsFailure, NotifiedOK
<1>2. ASSUME NEW t \in Threads, RecordFailure(t) PROVE NotifiedOK'
  <2>1. CASE core.failed
    <3>1. UNCHANGED impl /\ pc[t] # "notify" /\ \A u \in Threads \ {t} : pc'[u] = pc[u]
      BY <1>2 DEF RecordFailure, At, Goto, IInv, PcOK
    <3> QED
      BY <2>1, <3>1, LibraryStays DEF NotifiedOK
  <2>2. CASE ~core.failed
    BY <1>2, <2>2 DEF RecordFailure, Goto, IInv, PcOK, NotifiedOK
  <2> QED
    BY <2>1, <2>2
<1>3. ASSUME NEW t \in Threads, NotifyFailure(t) PROVE NotifiedOK'
  <2>1. CASE HasNotifier
    BY <1>3, <2>1 DEF NotifyFailure, IInv, FlagsOK, ImplStates, NotifiedOK
  <2>2. CASE ~HasNotifier
    <3>1. Complete /\ sdk.library # "stopped"
      BY <1>3, <2>2, OnlyLateCallback DEF NotifyFailure, At, HasNotifier, Complete
    <3> QED
      BY <3>1, LibraryStays DEF NotifiedOK
  <2> QED
    BY <2>1, <2>2
<1>4. ASSUME NEW t \in Threads, Shared(t) PROVE NotifiedOK'
  BY <1>1, <1>2, <1>3, <1>4, SharedKeepsFailure
<1>5. CASE DeliverFrameSet \/ \E t \in Threads : SpuriousWakeup(t)
  <2>1. KeepsFailure
    BY <1>5 DEF DeliverFrameSet, SpuriousWakeup, At, Goto, KeepsFailure, IInv, PcOK
  <2> QED
    BY <1>1, <2>1
<1>6. CASE UNCHANGED vars
  BY <1>6 DEF vars, state, NotifiedOK, Complete
<1> QED
  BY <1>1, <1>4, <1>5, <1>6, CallbackKeepsFailure, WorkerKeepsFailure, OwnerKeepsFailure
  DEF Next, Environment, Stop, OwnerQuietStep, Exited

LEMMA InitNotified == Init => NotifiedOK
  BY DEF Init, NotifiedOK

\* However often the library fails to stop: as long as no cleanup has been declared
\* quiesced with the library still running, no failure is swallowed.
THEOREM FailureKnown == Spec => [](LibraryQuiesced => FailureIsNotified)
<1>1. IInv /\ ShutdownOK /\ NotifiedOK /\ [Next]_vars => NotifiedOK'
  BY NextNotified
<1>2. NotifiedOK => (LibraryQuiesced => FailureIsNotified)
  BY DEF NotifiedOK, LibraryQuiesced, FailureIsNotified, Complete
<1> QED
  BY <1>1, <1>2, InitNotified, Invariance, ShutdownInvariance, PTL DEF Spec

\* So a library whose join fails at most once leaves no failure untold: whichever
\* threads fail, and in whatever order, once one of them has recorded it the process
\* knows or one thread is about to tell it.
THEOREM FailureNotified ==
  ASSUME SdkJoinFailures < 2
  PROVE  Spec => []FailureIsNotified
BY FailureKnown, LibraryStops, PTL

-----------------------------------------------------------------------------
(* The order of the images.                                                *)

\* A step that moves no frame.
Calm ==
    /\ UNCHANGED <<queue, job, ledger>>
    /\ \A c \in Cameras : pc'[c] = "sink" <=> pc[c] = "sink"

\* Only these steps move one.
FrameStep(c) ==
    \/ RetainItem(c) \/ PushRefused(c) \/ PushEnqueues(c) \/ PushThrows(c)
    \/ PopTakes(c) \/ PublishFrame(c) \/ PublishThrows(c) \/ StopAndDetach(c)

LEMMA FrameSteps ==
  ASSUME IInv, [Next]_vars
  PROVE  Calm \/ (\E c \in Cameras : FrameStep(c)) \/ ReleaseDetached
<1>1. Quiet => Calm
  BY DEF Quiet, Calm
<1>2. ASSUME NEW t \in Threads, Shared(t) PROVE Calm
  BY <1>1, <1>2, SharedQuiet DEF IInv
<1>3. CASE Callback
  <2>1. CheckAccepting \/ ItemThrows \/ (\E c \in Cameras : PushWaits(c)) => Calm
    BY <1>1, CallbackQuiet DEF IInv
  <2> QED
    BY <1>3, <2>1 DEF Callback, FrameStep
<1>4. ASSUME NEW c \in Cameras, Worker(c) PROVE Calm \/ FrameStep(c)
  <2>1. PopWaits(c) \/ PopRefused(c) => Calm
    BY <1>1, WorkerQuiet DEF IInv
  <2> QED
    BY <1>4, <2>1 DEF Worker, FrameStep
<1>5. CASE OwnerQuietStep
  BY <1>1, <1>5, OwnerQuiet DEF IInv
<1>6. CASE DeliverFrameSet \/ (\E t \in Threads : SpuriousWakeup(t)) \/ Exited
           \/ UNCHANGED vars
  <2>1. UNCHANGED <<queue, job, ledger>> /\ \A c \in Cameras : pc'[c] = pc[c]
    BY <1>6 DEF DeliverFrameSet, SpuriousWakeup, Exited, vars, state, frames, Goto, IInv,
       PcOK, Threads
  <2> QED
    BY <2>1 DEF Calm
<1> QED
  BY <1>2, <1>3, <1>4, <1>5, <1>6 DEF Next, Environment, Stop, OwnerQuietStep, FrameStep

\* A step that leaves the queues and the workers' hands and publishes nothing.
LEMMA OrderStays ==
  ASSUME IInv, OrderOK, queue' = queue,
         \A c \in Cameras : (pc'[c] = "sink" <=> pc[c] = "sink") /\ job'[c] = job[c],
         \A f \in Frames : ledger'[f] = "published" => ledger[f] = "published"
  PROVE  OrderOK'
<1>1. \A f \in Frames : Camera(f) \in Cameras
  BY DEF Frames, Camera
<1> QED
  BY <1>1 DEF OrderOK

LEMMA RetainOrder ==
  ASSUME IInv, OrderOK, NEW c \in Cameras,
         RetainItem(c) \/ PushRefused(c) \/ PushThrows(c)
  PROVE  OrderOK'
<1>1. UNCHANGED queue
  BY DEF RetainItem, PushRefused, PushThrows
<1>2. ASSUME NEW d \in Cameras
      PROVE  (pc'[d] = "sink" <=> pc[d] = "sink") /\ job'[d] = job[d]
  <2>1. d \in Threads /\ d # Dispatcher
    BY DEF Threads
  <2>2. pc'[d] = pc[d]
    BY <2>1 DEF RetainItem, PushRefused, PushThrows, Visit, Goto, IInv, PcOK
  <2>3. job'[d] = job[d]
    BY <2>1 DEF RetainItem, PushRefused, PushThrows, Release, IInv, FramesOK, HandOK
  <2> QED
    BY <2>2, <2>3
<1>3. \E f, o : o # "published" /\ ledger' = [ledger EXCEPT ![f] = o]
  BY DEF RetainItem, PushRefused, PushThrows, Release
<1>4. \A f \in Frames : ledger'[f] = "published" => ledger[f] = "published"
  BY <1>3 DEF IInv, FramesOK, FreshOK
<1> QED
  BY <1>1, <1>2, <1>4, OrderStays

\* The frame that is pushed is the newest of its camera.
LEMMA PushedIsNewest ==
  ASSUME IInv, NEW c \in Cameras, Pushing(c)
  PROVE  LET f == job[Dispatcher]
         IN /\ f \in Frames /\ f = <<c, sdk.delivered>> /\ ledger[f] = "held"
            /\ \A g \in Frames : Camera(g) = c /\ g # f /\ ledger[g] # "library" => g[2] < f[2]
<1> DEFINE f == job[Dispatcher]
<1>1. PICK d \in todo[Dispatcher] : f = <<d, sdk.delivered>>
  BY DEF Pushing, At, IInv, FramesOK, HandOK
<1>2. d \in Cameras /\ d = c
  BY <1>1 DEF Pushing, Camera, IInv, FlagsOK, Threads
<1>3. sdk.delivered \in 1..MaxSets
  BY DEF Pushing, At, IInv, FlagsOK, SdkStates, FramesOK, HandOK, InCallback
<1>4. f \in Frames /\ f = <<c, sdk.delivered>>
  BY <1>1, <1>2, <1>3 DEF Frames
<1>5. f \in InHand
  BY <1>4, NoFrameAssumption DEF InHand, Threads, Frames
<1>6. ledger[f] = "held"
  BY <1>5 DEF IInv, FramesOK, FrameCustody, Held
<1>7. ASSUME NEW g \in Frames, Camera(g) = c, g # f, ledger[g] # "library"
      PROVE  g[2] < f[2]
  <2>1. g[2] \in 1..MaxSets /\ g = <<g[1], g[2]>> /\ g[1] = c
    BY <1>7 DEF Frames, Camera
  <2>2. ~(g[2] > sdk.delivered)
    BY <1>7 DEF IInv, FramesOK, FreshOK
  <2>3. g[2] # sdk.delivered
    BY <1>4, <1>7, <2>1
  <2> QED
    BY <1>3, <1>4, <2>1, <2>2, <2>3
<1> QED
  BY <1>4, <1>6, <1>7

\* What is in a queue is held, and so is what a worker has in hand.
LEMMA QueuedIsHeld ==
  ASSUME IInv, NEW c \in Cameras
  PROVE  /\ \A i \in DOMAIN queue[c] : queue[c][i] \in Own(c) /\ ledger[queue[c][i]] = "held"
         /\ pc[c] = "sink" => job[c] \in Own(c) /\ ledger[job[c]] = "held"
<1>1. ASSUME NEW i \in DOMAIN queue[c]
      PROVE  queue[c][i] \in Own(c) /\ ledger[queue[c][i]] = "held"
  <2>1. queue[c][i] \in Own(c) /\ queue[c][i] \in Range(queue[c])
    BY DEF IInv, FramesOK, QueuesOK, Range
  <2>2. queue[c][i] \in Queued
    BY <2>1 DEF Queued
  <2> QED
    BY <2>1, <2>2 DEF IInv, FramesOK, FrameCustody, Held
<1>2. ASSUME pc[c] = "sink" PROVE job[c] \in Own(c) /\ ledger[job[c]] = "held"
  <2>1. job[c] \in Own(c) /\ job[c] \in Frames /\ c \in Threads
    BY <1>2 DEF IInv, FramesOK, HandOK, Own, Threads
  <2>2. job[c] \in InHand
    BY <2>1, NoFrameAssumption DEF InHand, Frames
  <2> QED
    BY <2>1, <2>2 DEF IInv, FramesOK, FrameCustody, Held
<1> QED
  BY <1>1, <1>2

LEMMA EnqueueOrder ==
  ASSUME IInv, OrderOK, NEW c \in Cameras, PushEnqueues(c)
  PROVE  OrderOK'
<1> DEFINE f == job[Dispatcher]
           q == queue[c]
<1>1. /\ Pushing(c) /\ UNCHANGED ledger
      /\ queue' = [queue EXCEPT ![c] = Append(q, f)]
  BY DEF PushEnqueues
<1>2. /\ f \in Frames /\ Camera(f) = c /\ ledger[f] = "held"
      /\ \A g \in Frames : Camera(g) = c /\ g # f /\ ledger[g] # "library" => g[2] < f[2]
  BY <1>1, PushedIsNewest DEF Pushing
<1>3. ASSUME NEW d \in Cameras PROVE pc'[d] = pc[d] /\ job'[d] = job[d]
  BY DEF PushEnqueues, Visit, Goto, IInv, PcOK, FramesOK, HandOK, Threads
<1>4. q \in Seq(Frames) /\ f \notin Queued /\ \A d \in Cameras : job[d] # f
  <2>1. f \in InHand /\ Dispatcher \in Threads /\ f # NoFrame
    BY <1>2, NoFrameAssumption DEF InHand, Threads, Frames
  <2> QED
    BY <2>1 DEF IInv, FramesOK, FrameCustody, QueuesOK, Threads
<1>5. \A i \in DOMAIN q : q[i][2] < f[2]
  <2> SUFFICES ASSUME NEW i \in DOMAIN q PROVE q[i][2] < f[2]
    OBVIOUS
  <2>1. q[i] \in Frames /\ Camera(q[i]) = c /\ ledger[q[i]] = "held"
    BY QueuedIsHeld DEF Own
  <2>2. q[i] # f
    BY <1>4 DEF Queued, Range
  <2> QED
    BY <1>2, <2>1, <2>2
<1>6. /\ DOMAIN Append(q, f) = 1..(Len(q) + 1) /\ DOMAIN q = 1..Len(q)
      /\ Append(q, f)[Len(q) + 1] = f /\ Len(q) \in Nat
      /\ \A i \in 1..Len(q) : Append(q, f)[i] = q[i]
  BY <1>2, <1>4, AppendProperties, LenProperties
<1>7. queue'[c] = Append(q, f) /\ \A d \in Cameras \ {c} : queue'[d] = queue[d]
  BY <1>1 DEF IInv, FramesOK, QueuesOK
<1>8. ASSUME NEW d \in Cameras, NEW i \in DOMAIN queue'[d], NEW j \in DOMAIN queue'[d], i < j
      PROVE  queue'[d][i][2] < queue'[d][j][2]
  <2>1. CASE d = c
    <3>1. i \in 1..Len(q) /\ queue'[c][i] = q[i]
      BY <1>6, <1>7, <1>8, <2>1
    <3>2. CASE j = Len(q) + 1
      BY <1>5, <1>6, <1>7, <2>1, <3>1, <3>2
    <3>3. CASE j # Len(q) + 1
      <4>1. j \in 1..Len(q) /\ queue'[c][j] = q[j]
        BY <1>6, <1>7, <1>8, <2>1, <3>3
      <4> QED
        BY <1>6, <1>8, <2>1, <3>1, <4>1 DEF OrderOK
    <3> QED
      BY <3>2, <3>3
  <2>2. CASE d # c
    BY <1>7, <1>8, <2>2 DEF OrderOK
  <2> QED
    BY <2>1, <2>2
<1>9. ASSUME NEW d \in Cameras, pc'[d] = "sink", NEW i \in DOMAIN queue'[d]
      PROVE  job'[d][2] < queue'[d][i][2]
  <2>1. pc[d] = "sink" /\ job'[d] = job[d]
    BY <1>3, <1>9
  <2>2. CASE d = c /\ i = Len(q) + 1
    <3>1. job[c] \in Frames /\ Camera(job[c]) = c /\ ledger[job[c]] = "held" /\ job[c] # f
      BY <1>4, <2>1, <2>2, QueuedIsHeld DEF Own
    <3> QED
      BY <1>2, <1>6, <1>7, <2>1, <2>2, <3>1
  <2>3. CASE ~(d = c /\ i = Len(q) + 1)
    BY <1>6, <1>7, <1>9, <2>1, <2>3 DEF OrderOK
  <2> QED
    BY <2>2, <2>3
<1>10. ASSUME NEW g \in Frames, ledger'[g] = "published"
       PROVE  /\ pc'[Camera(g)] = "sink" => g[2] < job'[Camera(g)][2]
              /\ \A i \in DOMAIN queue'[Camera(g)] : g[2] < queue'[Camera(g)][i][2]
  <2>1. ledger[g] = "published" /\ Camera(g) \in Cameras /\ g # f
    BY <1>1, <1>2, <1>10 DEF Frames, Camera
  <2>2. Camera(g) = c => g[2] < f[2]
    BY <1>2, <2>1
  <2>3. \A i \in DOMAIN queue[Camera(g)] : g[2] < queue[Camera(g)][i][2]
    BY <2>1 DEF OrderOK
  <2>4. CASE Camera(g) = c
    <3>1. ASSUME NEW i \in DOMAIN Append(q, f) PROVE g[2] < Append(q, f)[i][2]
      <4>1. i \in 1..Len(q) \/ i = Len(q) + 1
        BY <1>6, <3>1
      <4> QED
        BY <1>6, <2>2, <2>3, <2>4, <4>1
    <3> QED
      BY <1>3, <1>7, <2>1, <2>4, <3>1 DEF OrderOK
  <2>5. CASE Camera(g) # c
    BY <1>3, <1>7, <2>1, <2>5 DEF OrderOK
  <2> QED
    BY <2>4, <2>5
<1> QED
  BY <1>8, <1>9, <1>10 DEF OrderOK

LEMMA TakeOrder ==
  ASSUME IInv, OrderOK, NEW c \in Cameras, PopTakes(c)
  PROVE  OrderOK'
<1> DEFINE q == queue[c]
<1>1. /\ pc[c] = "pop" /\ q # << >> /\ UNCHANGED ledger
      /\ pc' = [pc EXCEPT ![c] = "sink"]
      /\ job' = [job EXCEPT ![c] = Head(q)] /\ queue' = [queue EXCEPT ![c] = Tail(q)]
  BY DEF PopTakes, At, Goto
<1>2. /\ queue'[c] = Tail(q) /\ \A d \in Cameras \ {c} : queue'[d] = queue[d]
      /\ pc'[c] = "sink" /\ \A d \in Cameras \ {c} : pc'[d] = pc[d]
      /\ job'[c] = Head(q) /\ \A d \in Cameras \ {c} : job'[d] = job[d]
  BY <1>1 DEF IInv, PcOK, FramesOK, QueuesOK, HandOK, Threads
<1>3. /\ q \in Seq(Frames) /\ Len(q) \in Nat \ {0} /\ DOMAIN q = 1..Len(q)
      /\ Head(q) = q[1] /\ DOMAIN Tail(q) = 1..(Len(q) - 1)
      /\ \A i \in 1..(Len(q) - 1) : Tail(q)[i] = q[i + 1]
  BY <1>1, HeadTailProperties, LenProperties, EmptySeq DEF IInv, FramesOK, QueuesOK
<1>4. ASSUME NEW d \in Cameras, NEW i \in DOMAIN queue'[d], NEW j \in DOMAIN queue'[d], i < j
      PROVE  queue'[d][i][2] < queue'[d][j][2]
  <2>1. CASE d = c
    <3>1. i \in 1..(Len(q) - 1) /\ j \in 1..(Len(q) - 1)
      BY <1>2, <1>3, <2>1
    <3>2. i + 1 \in DOMAIN q /\ j + 1 \in DOMAIN q /\ i + 1 < j + 1
      <4> HIDE DEF q
      <4> QED
        BY <1>3, <1>4, <3>1
    <3>3. q[i + 1][2] < q[j + 1][2]
      BY <3>2 DEF OrderOK
    <3> QED
      BY <1>2, <1>3, <2>1, <3>1, <3>3
  <2>2. CASE d # c
    BY <1>2, <1>4, <2>2 DEF OrderOK
  <2> QED
    BY <2>1, <2>2
<1>5. ASSUME NEW d \in Cameras, pc'[d] = "sink", NEW i \in DOMAIN queue'[d]
      PROVE  job'[d][2] < queue'[d][i][2]
  <2>1. CASE d = c
    <3>1. i \in 1..(Len(q) - 1)
      BY <1>2, <1>3, <2>1
    <3>2. 1 \in DOMAIN q /\ i + 1 \in DOMAIN q /\ 1 < i + 1
      <4> HIDE DEF q
      <4> QED
        BY <1>3, <3>1
    <3>3. q[1][2] < q[i + 1][2]
      BY <3>2 DEF OrderOK
    <3> QED
      BY <1>2, <1>3, <2>1, <3>1, <3>3
  <2>2. CASE d # c
    BY <1>2, <1>5, <2>2 DEF OrderOK
  <2> QED
    BY <2>1, <2>2
<1>6. ASSUME NEW g \in Frames, ledger'[g] = "published"
      PROVE  /\ pc'[Camera(g)] = "sink" => g[2] < job'[Camera(g)][2]
             /\ \A i \in DOMAIN queue'[Camera(g)] : g[2] < queue'[Camera(g)][i][2]
  <2>1. ledger[g] = "published" /\ Camera(g) \in Cameras
    BY <1>1, <1>6 DEF Frames, Camera
  <2>2. \A i \in DOMAIN queue[Camera(g)] : g[2] < queue[Camera(g)][i][2]
    BY <2>1 DEF OrderOK
  <2>3. CASE Camera(g) = c
    <3>1. 1 \in DOMAIN q /\ \A i \in 1..(Len(q) - 1) : i + 1 \in DOMAIN q
      <4> HIDE DEF q
      <4> QED
        BY <1>3
    <3>2. g[2] < Head(q)[2] /\ \A i \in 1..(Len(q) - 1) : g[2] < Tail(q)[i][2]
      BY <1>3, <2>2, <2>3, <3>1
    <3> QED
      BY <1>2, <1>3, <2>3, <3>2
  <2>4. CASE Camera(g) # c
    BY <1>2, <2>1, <2>4 DEF OrderOK
  <2> QED
    BY <2>3, <2>4
<1> QED
  BY <1>4, <1>5, <1>6 DEF OrderOK

LEMMA PublishOrder ==
  ASSUME IInv, OrderOK, NEW c \in Cameras, PublishFrame(c) \/ PublishThrows(c)
  PROVE  OrderOK'
<1>1. /\ pc[c] = "sink" /\ UNCHANGED queue
      /\ pc'[c] # "sink" /\ \A d \in Cameras \ {c} : pc'[d] = pc[d] /\ job'[d] = job[d]
  BY DEF PublishFrame, PublishThrows, Release, At, Goto, IInv, PcOK, FramesOK, HandOK, Threads
<1>2. /\ job[c] \in Frames /\ Camera(job[c]) = c
      /\ \A g \in Frames : ledger'[g] = "published" => ledger[g] = "published" \/ g = job[c]
  BY <1>1, QueuedIsHeld DEF Own, PublishFrame, PublishThrows, Release, IInv, FramesOK, FreshOK
<1>3. \A i \in DOMAIN queue[c] : job[c][2] < queue[c][i][2]
  BY <1>1 DEF OrderOK
<1>4. \A g \in Frames : Camera(g) \in Cameras
  BY DEF Frames, Camera
<1>5. ASSUME NEW g \in Frames, ledger'[g] = "published"
      PROVE  /\ pc'[Camera(g)] = "sink" => g[2] < job'[Camera(g)][2]
             /\ \A i \in DOMAIN queue'[Camera(g)] : g[2] < queue'[Camera(g)][i][2]
  BY <1>1, <1>2, <1>3, <1>4, <1>5 DEF OrderOK
<1> QED
  BY <1>1, <1>5 DEF OrderOK

LEMMA DetachOrder ==
  ASSUME IInv, OrderOK, NEW c \in Cameras, StopAndDetach(c)
  PROVE  OrderOK'
<1>1. /\ queue'[c] = << >> /\ \A d \in Cameras \ {c} : queue'[d] = queue[d]
      /\ UNCHANGED <<job, ledger>>
      /\ \A d \in Cameras : pc'[d] = pc[d]
  BY DEF StopAndDetach, Visit, Goto, IInv, PcOK, FramesOK, QueuesOK, Threads
<1>2. DOMAIN queue'[c] = {} /\ \A g \in Frames : Camera(g) \in Cameras
  BY <1>1 DEF Frames, Camera
<1> QED
  BY <1>1, <1>2 DEF OrderOK

LEMMA NextOrder ==
  ASSUME IInv, OrderOK, [Next]_vars
  PROVE  OrderOK'
<1>1. CASE Calm
  BY <1>1, OrderStays DEF Calm
<1>2. ASSUME NEW c \in Cameras, FrameStep(c) PROVE OrderOK'
  BY <1>2, RetainOrder, EnqueueOrder, TakeOrder, PublishOrder, DetachOrder DEF FrameStep
<1>3. CASE ReleaseDetached
  <2>1. queue' = queue /\ job' = job /\ \A c \in Cameras : pc'[c] = pc[c]
    BY <1>3 DEF ReleaseDetached, Goto, IInv, PcOK, Threads
  <2>2. \A f \in Frames : ledger'[f] = "published" => ledger[f] = "published"
    BY <1>3 DEF ReleaseDetached
  <2> QED
    BY <2>1, <2>2, OrderStays
<1> QED
  BY <1>1, <1>2, <1>3, FrameSteps

LEMMA InitOrder == Init => OrderOK
  BY DEF Init, OrderOK, Threads

\* Everywhere in the pipeline a camera's frames are in the order of delivery.
THEOREM OrderInvariance == Spec => []OrderOK
<1>1. IInv /\ OrderOK /\ [Next]_vars => OrderOK'
  BY NextOrder
<1> QED
  BY <1>1, InitOrder, Invariance, PTL DEF Spec

\* What a worker publishes is newer than all that its camera has published before.
LEMMA PublishedIsNewer ==
  ASSUME IInv, OrderOK, [Next]_vars,
         NEW f \in Frames, ledger'[f] = "published", ledger[f] # "published",
         NEW g \in Frames, Camera(g) = Camera(f), ledger[g] = "published"
  PROVE  g[2] < f[2]
<1>1. PICK c \in Cameras : PublishFrame(c)
  <2>1. ~Calm /\ ~ReleaseDetached
    BY DEF Calm, ReleaseDetached
  <2>2. PICK c \in Cameras : FrameStep(c)
    BY <2>1, FrameSteps
  <2>3. DOMAIN ledger = Frames
    BY DEF IInv, FramesOK, FreshOK
  <2> QED
    BY <2>2, <2>3 DEF FrameStep, RetainItem, PushRefused, PushThrows, PushEnqueues, PopTakes,
       PublishThrows, StopAndDetach, Release
<1>2. f = job[c] /\ pc[c] = "sink"
  BY <1>1 DEF PublishFrame, Release, At, IInv, FramesOK, FreshOK
<1>3. Camera(f) = c
  BY <1>2, QueuedIsHeld DEF Own
<1> QED
  BY <1>2, <1>3 DEF OrderOK

\* Each camera's images are published in the order the library delivered them, for
\* any number of cameras and any capacity, whatever is dropped or fails in between.
THEOREM InOrder == Spec => PublishedInOrder
<1>1. IInv /\ OrderOK /\ [Next]_vars =>
        [\A f \in Frames :
            ledger'[f] = "published" /\ ledger[f] # "published" =>
                \A g \in Frames :
                    Camera(g) = Camera(f) /\ ledger[g] = "published" => g[2] < f[2]]_vars
  BY PublishedIsNewer
<1> QED
  BY <1>1, Invariance, OrderInvariance, PTL DEF Spec, PublishedInOrder

-----------------------------------------------------------------------------
(* The sleepers.                                                           *)

\* Who sleeps, where, and on which condition.
SleepOK ==
    /\ Owner \notin asleep
    /\ \A c \in Cameras \cap asleep : pc[c] = "pop" /\ ~stopped[c] /\ queue[c] = << >>
    /\ Dispatcher \in asleep =>
         /\ pc[Dispatcher] = "push" /\ Camera(job[Dispatcher]) \in Cameras
         /\ ~stopped[Camera(job[Dispatcher])] /\ Full(Camera(job[Dispatcher]))

\* A step that leaves the sleepers, their queues and what they wait for alone.
SleepersKept ==
    /\ asleep' \subseteq asleep /\ UNCHANGED <<stopped, queue>>
    /\ \A t \in asleep : pc'[t] = pc[t]
    /\ Dispatcher \in asleep => job'[Dispatcher] = job[Dispatcher]

LEMMA SleepStays ==
  ASSUME SleepOK, SleepersKept
  PROVE  SleepOK'
BY DEF SleepOK, SleepersKept, Full

LEMMA SharedSleep ==
  ASSUME IInv, SleepOK, NEW t \in Threads, Shared(t)
  PROVE  SleepOK'
<1>1. t \notin asleep /\ pc' = [pc EXCEPT ![t] = pc'[t]] /\ UNCHANGED frames
  BY SharedMoves DEF SleepOK, IInv, SharedLabels, Threads
<1>2. \A u \in asleep : pc'[u] = pc[u]
  BY <1>1 DEF IInv, PcOK, FlagsOK
<1>3. CASE UNCHANGED <<stopped, asleep>>
  BY <1>1, <1>2, <1>3, SleepStays DEF SleepersKept, frames
<1>4. ASSUME NEW c \in Cameras, CloseQueue(t, c) PROVE SleepOK'
  <2>1. /\ asleep' = asleep \ Waiters(c) /\ stopped' = [stopped EXCEPT ![c] = TRUE]
        /\ UNCHANGED <<queue, job>>
    BY <1>4 DEF CloseQueue, frames
  <2>2. \A d \in Cameras \ {c} : stopped'[d] = stopped[d]
    BY <2>1 DEF IInv, FlagsOK
  <2>3. c \notin asleep' /\ (Dispatcher \in asleep' => Camera(job[Dispatcher]) # c)
    BY <2>1 DEF Waiters
  <2> QED
    BY <1>2, <2>1, <2>2, <2>3 DEF SleepOK, Full
<1> QED
  BY <1>3, <1>4 DEF Shared, CloseAccepting, RequestStop, CallRequestStop, RecordFailure,
     NotifyFailure, gates

LEMMA CallbackSleep ==
  ASSUME IInv, SleepOK, Callback
  PROVE  SleepOK'
<1>1. Dispatcher \notin asleep
  BY DEF SleepOK, Callback, CheckAccepting, ItemThrows, Fails, Move, RetainItem, PushRefused,
     PushWaits, PushEnqueues, PushThrows, Pushing, Awake, At
<1>2. \A u \in Threads \ {Dispatcher} : pc'[u] = pc[u]
  BY DEF Callback, CheckAccepting, ItemThrows, Fails, Move, RetainItem, PushRefused, PushWaits,
     PushEnqueues, PushThrows, Goto, Visit, IInv, PcOK
<1>3. \A u \in asleep : pc'[u] = pc[u]
  BY <1>1, <1>2 DEF IInv, FlagsOK
<1>4. ASSUME UNCHANGED <<asleep, stopped, queue>> PROVE SleepOK'
  BY <1>1, <1>3, <1>4, SleepStays DEF SleepersKept
<1>5. ASSUME NEW c \in Cameras, PushWaits(c) PROVE SleepOK'
  <2>1. /\ asleep' = asleep \cup {Dispatcher} /\ UNCHANGED <<pc, stopped, queue, job>>
        /\ pc[Dispatcher] = "push" /\ c = Camera(job[Dispatcher]) /\ ~stopped[c] /\ Full(c)
    BY <1>5 DEF PushWaits, Pushing, At, PushReturnsFalse, frames
  <2>2. c \in Cameras /\ Owner # Dispatcher /\ Dispatcher \notin Cameras
    BY <1>5
  <2> QED
    BY <2>1, <2>2 DEF SleepOK, Full
<1>6. ASSUME NEW c \in Cameras, PushEnqueues(c) PROVE SleepOK'
  <2>1. /\ asleep' = asleep \ {c} /\ UNCHANGED stopped
        /\ queue' = [queue EXCEPT ![c] = Append(@, job[Dispatcher])]
    BY <1>6 DEF PushEnqueues
  <2>2. \A d \in Cameras \ {c} : queue'[d] = queue[d]
    BY <2>1 DEF IInv, FramesOK, QueuesOK
  <2> QED
    BY <1>1, <1>3, <2>1, <2>2 DEF SleepOK
<1> QED
  BY <1>4, <1>5, <1>6 DEF Callback, CheckAccepting, ItemThrows, Fails, Move, RetainItem,
     PushRefused, PushThrows, state, frames, gates

LEMMA WorkerSleep ==
  ASSUME IInv, SleepOK, NEW c \in Cameras, Worker(c)
  PROVE  SleepOK'
<1>1. c \notin asleep
  BY DEF SleepOK, Worker, PopWaits, PopTakes, PopRefused, PublishFrame, PublishThrows, Awake, At
<1>2. \A u \in asleep : pc'[u] = pc[u]
  BY <1>1, WorkerMoves DEF IInv, FlagsOK
<1>3. c # Dispatcher /\ Dispatcher \in Threads /\ job \in [Threads -> Frames \cup {NoFrame}]
  BY DEF Threads, IInv, FramesOK, HandOK
<1>4. job'[Dispatcher] = job[Dispatcher]
  BY <1>3 DEF Worker, PopWaits, PopTakes, PopRefused, Move, PublishFrame, PublishThrows, Release,
     state, frames
<1>5. ASSUME UNCHANGED <<asleep, stopped, queue>> PROVE SleepOK'
  BY <1>2, <1>4, <1>5, SleepStays DEF SleepersKept
<1>6. CASE PopWaits(c)
  <2>1. /\ asleep' = asleep \cup {c} /\ UNCHANGED <<pc, stopped, queue, job>>
        /\ pc[c] = "pop" /\ ~stopped[c] /\ queue[c] = << >>
    BY <1>6 DEF PopWaits, At, frames
  <2> QED
    BY <1>3, <2>1 DEF SleepOK, Full
<1>7. CASE PopTakes(c)
  <2>1. /\ asleep' = asleep \ (Waiters(c) \ {c}) /\ UNCHANGED stopped
        /\ queue' = [queue EXCEPT ![c] = Tail(@)]
    BY <1>7 DEF PopTakes
  <2>2. \A d \in Cameras \ {c} : queue'[d] = queue[d]
    BY <2>1 DEF IInv, FramesOK, QueuesOK
  <2>3. c \notin asleep' /\ (Dispatcher \in asleep' => Camera(job[Dispatcher]) # c)
    BY <1>1, <1>3, <2>1 DEF Waiters
  <2> QED
    BY <1>2, <1>4, <2>1, <2>2, <2>3 DEF SleepOK, Full
<1> QED
  BY <1>5, <1>6, <1>7 DEF Worker, PopRefused, Move, PublishFrame, PublishThrows, state, frames,
     gates

LEMMA OwnerSleep ==
  ASSUME IInv, SleepOK, OwnerStepOf, ~Shared(Owner)
  PROVE  SleepOK'
<1>1. \A u \in asleep : pc'[u] = pc[u]
  <2>1. asleep \subseteq Threads \ {Owner}
    BY DEF SleepOK, IInv, FlagsOK
  <2>2. ASSUME NEW c \in Cameras, StartWorker(c) PROVE \A u \in asleep : pc'[u] = pc[u]
    <3>1. pc[c] = "none" /\ c \notin asleep
      BY <2>2 DEF StartWorker, At, IInv, StartOK, SleepOK
    <3> QED
      BY <2>1, <2>2, <3>1 DEF StartWorker, IInv, PcOK
  <2> QED
    BY <2>1, <2>2, OwnerMoves
<1>2. ASSUME UNCHANGED <<asleep, stopped, queue, job>> PROVE SleepOK'
  BY <1>1, <1>2, SleepStays DEF SleepersKept
<1>3. ASSUME NEW c \in Cameras, StopAndDetach(c) PROVE SleepOK'
  <2>1. /\ asleep' = asleep \ Waiters(c) /\ stopped' = [stopped EXCEPT ![c] = TRUE]
        /\ queue' = [queue EXCEPT ![c] = << >>] /\ UNCHANGED job
    BY <1>3 DEF StopAndDetach
  <2>2. \A d \in Cameras \ {c} : stopped'[d] = stopped[d] /\ queue'[d] = queue[d]
    BY <2>1 DEF IInv, FlagsOK, FramesOK, QueuesOK
  <2>3. c \notin asleep' /\ (Dispatcher \in asleep' => Camera(job[Dispatcher]) # c)
    BY <2>1 DEF Waiters
  <2> QED
    BY <1>1, <2>1, <2>2, <2>3 DEF SleepOK, Full
<1> QED
  BY <1>2, <1>3 DEF OwnerStepOf, Start, RejectOptions, RejectRestart, ClaimStart, OpenAdmission,
     ConfigureThrows, StartWorker, StartWorkerThrows, CallStartFrameSet, StartReturnsOk,
     StartReturnsFailure, SeeFailure, Stop, StopReturnsEarly, StopCleansUp, CleanupReturnsEarly,
     BeginCleanup, JoinWorker, ReleaseDetached, JoinThrows, CompleteCleanup, FinishStop,
     ExitProcess, SdkStop, SeeStopSignal, StopAgain, NewPublisher, Fails, Move, state, frames,
     gates

LEMMA NextSleep ==
  ASSUME IInv, SleepOK, [Next]_vars
  PROVE  SleepOK'
<1>1. CASE DeliverFrameSet
  <2>1. pc[Dispatcher] = "idle" /\ UNCHANGED <<asleep, stopped, queue, job>>
    BY <1>1 DEF DeliverFrameSet, At, frames, gates
  <2>2. \A u \in asleep : pc'[u] = pc[u]
    BY <1>1, <2>1 DEF DeliverFrameSet, Goto, SleepOK, IInv, PcOK, FlagsOK
  <2> QED
    BY <2>1, <2>2, SleepStays DEF SleepersKept
<1>2. CASE (\E t \in Threads : SpuriousWakeup(t)) \/ Exited \/ UNCHANGED vars
  BY <1>2, SleepStays DEF SpuriousWakeup, Exited, vars, state, frames, gates, SleepersKept
<1> QED
  BY <1>1, <1>2, StepsSplit, SharedSleep, CallbackSleep, WorkerSleep, OwnerSleep
  DEF OthersStep, Threads

\* For any number of cameras and any capacity no wake-up is lost: nobody is left
\* asleep on a queue that was filled, emptied or closed.
THEOREM SleepersWait == Spec => []NoLostWakeup
<1>1. Init => SleepOK
  BY DEF Init, SleepOK
<1>2. IInv /\ SleepOK /\ [Next]_vars => SleepOK'
  BY NextSleep
<1>3. SleepOK => NoLostWakeup
  BY DEF SleepOK, NoLostWakeup
<1> QED
  BY <1>1, <1>2, <1>3, Invariance, PTL DEF Spec

-----------------------------------------------------------------------------
(* The pipeline takes the steps of FrameLedger.                            *)

Given == {"failed", "dropped", "discarded"}

\* The steps of FrameLedger in the variables of the pipeline.
LedgerRetains(f) ==
    ~Complete /\ ledger[f] = "library" /\ ledger' = [ledger EXCEPT ![f] = "held"]
LedgerPublishes(f) ==
    /\ ledger[f] = "held" /\ ledger' = [ledger EXCEPT ![f] = "published"]
    /\ \A g \in Frames : g[1] = f[1] /\ g[2] > f[2] => ledger[g] # "published"
LedgerReturns(S) ==
    /\ S \subseteq Held
    /\ \E outcome \in Given :
         ledger' = [f \in Frames |-> IF f \in S THEN outcome ELSE ledger[f]]
LedgerCloses == Held = {} /\ Complete' /\ UNCHANGED ledger

LedgerStep ==
    \/ /\ Complete' = Complete
       /\ \/ UNCHANGED ledger
          \/ \E f \in Frames : LedgerRetains(f) \/ LedgerPublishes(f)
          \/ \E S \in SUBSET Frames : LedgerReturns(S)
    \/ LedgerCloses

\* The one frame that a thread's job gives back.
LEMMA JobReturns ==
  ASSUME IInv, NEW t \in Threads, job[t] \in Frames, NEW outcome \in Given,
         Release(t, outcome)
  PROVE  LedgerReturns({job[t]})
<1>1. job[t] \in Held
  BY NoFrameAssumption DEF IInv, FramesOK, FrameCustody, InHand, Frames
<1>2. ledger' = [f \in Frames |-> IF f \in {job[t]} THEN outcome ELSE ledger[f]]
  BY DEF Release, IInv, FramesOK, FreshOK
<1> QED
  BY <1>1, <1>2 DEF LedgerReturns

LEMMA FrameStepImplements ==
  ASSUME IInv, ShutdownOK, OrderOK, SdkJoinFailures < 2, [Next]_vars,
         NEW c \in Cameras, FrameStep(c), Complete' = Complete
  PROVE  LedgerStep
<1>1. CASE RetainItem(c)
  <2> DEFINE f == <<c, sdk.delivered>>
  <2>1. pc[Dispatcher] = "item" /\ c \in todo[Dispatcher]
    BY <1>1 DEF RetainItem, At
  <2>2. f \in Frames /\ sdk.delivered \in 1..MaxSets
    BY <2>1 DEF IInv, FramesOK, HandOK, FlagsOK, SdkStates, InCallback, Frames
  <2>3. job[Dispatcher] = NoFrame
    BY <2>1 DEF IInv, FramesOK, HandOK
  <2>4. ledger[f] = "library"
    BY <2>1, <2>2, <2>3, NoFrameAssumption DEF IInv, FramesOK, FreshOK, InCallback, Frames
  <2>5. ~Complete
    BY <2>1, OneFailureIsRetried DEF LibraryQuiesced, ShutdownOK, LibraryOK, Complete
  <2>6. ledger' = [ledger EXCEPT ![f] = "held"]
    BY <1>1 DEF RetainItem
  <2>7. LedgerRetains(f)
    BY <2>4, <2>5, <2>6 DEF LedgerRetains
  <2> QED
    BY <2>2, <2>7 DEF LedgerStep
<1>2. CASE PushRefused(c) \/ PushThrows(c)
  <2>1. PICK outcome \in Given : Release(Dispatcher, outcome)
    BY <1>2 DEF PushRefused, PushThrows, Given
  <2>2. job[Dispatcher] \in Frames /\ Dispatcher \in Threads
    BY <1>2, PushedIsNewest DEF PushRefused, PushThrows, Threads
  <2>3. {job[Dispatcher]} \in SUBSET Frames /\ LedgerReturns({job[Dispatcher]})
    BY <2>1, <2>2, JobReturns
  <2> QED
    BY <2>3 DEF LedgerStep
<1>3. CASE PublishThrows(c)
  <2>1. Release(c, "failed") /\ pc[c] = "sink"
    BY <1>3 DEF PublishThrows, At
  <2>2. job[c] \in Frames /\ c \in Threads
    BY <2>1, QueuedIsHeld DEF Own, Threads
  <2>3. {job[c]} \in SUBSET Frames /\ LedgerReturns({job[c]})
    BY <2>1, <2>2, JobReturns DEF Given
  <2> QED
    BY <2>3 DEF LedgerStep
<1>4. CASE PublishFrame(c)
  <2>1. /\ job[c] \in Frames /\ ledger[job[c]] = "held" /\ pc[c] = "sink"
        /\ ledger' = [ledger EXCEPT ![job[c]] = "published"]
    BY <1>4, QueuedIsHeld DEF PublishFrame, At, Own, Release
  <2>2. ledger'[job[c]] = "published"
    BY <2>1 DEF IInv, FramesOK, FreshOK
  <2>3. ASSUME NEW g \in Frames, g[1] = job[c][1], g[2] > job[c][2]
        PROVE  ledger[g] # "published"
    <3>1. g[2] \in Nat /\ job[c][2] \in Nat
      BY <2>1, <2>3 DEF Frames
    <3>2. ledger[g] = "published" => g[2] < job[c][2]
      BY <2>1, <2>2, <2>3, PublishedIsNewer DEF Camera
    <3> QED
      BY <2>3, <3>1, <3>2
  <2>4. LedgerPublishes(job[c])
    BY <2>1, <2>3 DEF LedgerPublishes
  <2> QED
    BY <2>1, <2>4 DEF LedgerStep
<1>5. CASE PushEnqueues(c) \/ PopTakes(c) \/ StopAndDetach(c)
  BY <1>5 DEF PushEnqueues, PopTakes, StopAndDetach, LedgerStep
<1> QED
  BY <1>1, <1>2, <1>3, <1>4, <1>5 DEF FrameStep

LEMMA NextImplements ==
  ASSUME IInv, ShutdownOK, OrderOK, SdkJoinFailures < 2, [Next]_vars
  PROVE  LedgerStep
<1>1. CASE CompleteCleanup
  <2>1. UNCHANGED ledger /\ Complete'
    BY <1>1 DEF CompleteCleanup, frames, Complete, IInv, FlagsOK, CoreFlags
  <2>2. pc[Owner] = "complete" /\ sdk.join_failures \in Nat
    BY <1>1 DEF CompleteCleanup, At, IInv, FlagsOK, SdkStates
  <2>3. sdk.library = "stopped"
    BY <2>2 DEF ShutdownOK, LibraryOK
  <2>4. Held = {}
    BY <2>2, <2>3, QuietWhenStopped
  <2> QED
    BY <2>1, <2>4 DEF LedgerStep, LedgerCloses
<1>2. CASE Complete' = Complete
  <2>1. CASE Calm
    BY <1>2, <2>1 DEF Calm, LedgerStep
  <2>2. ASSUME NEW c \in Cameras, FrameStep(c) PROVE LedgerStep
    BY <1>2, <2>2, FrameStepImplements
  <2>3. CASE ReleaseDetached
    <3>1. detached \in SUBSET Frames /\ detached \subseteq Held
      BY DEF IInv, FramesOK, QueuesOK, FrameCustody
    <3>2. ledger' = [f \in Frames |-> IF f \in detached THEN "discarded" ELSE ledger[f]]
      BY <2>3 DEF ReleaseDetached
    <3>3. LedgerReturns(detached)
      BY <3>1, <3>2 DEF LedgerReturns, Given
    <3> QED
      BY <1>2, <3>1, <3>3 DEF LedgerStep
  <2> QED
    BY <2>1, <2>2, <2>3, FrameSteps
<1> QED
  BY <1>1, <1>2, OnlyCleanupCompletes

Fate == [f \in Frames |-> IF ledger[f] \in Given THEN "returned" ELSE ledger[f]]

\* What the mapping makes of those steps.
LEMMA LedgerSteps ==
  ASSUME IInv, LedgerStep, Complete \in BOOLEAN, Complete' \in BOOLEAN
  PROVE  [Ledger!Next]_(Ledger!vars)
<1>1. /\ Fate = [f \in Frames |-> IF ledger[f] \in {"failed", "dropped", "discarded"}
                                  THEN "returned" ELSE ledger[f]]
      /\ Fate' = [f \in Frames |-> IF ledger'[f] \in {"failed", "dropped", "discarded"}
                                   THEN "returned" ELSE ledger'[f]]
      /\ Ledger!Frames = Frames /\ ledger \in [Frames -> Outcomes]
  BY DEF Fate, Given, Ledger!Frames, Frames, IInv, FramesOK, FreshOK
<1>2. Ledger!HeldFrames = Held
  BY DEF Ledger!HeldFrames, Held, Ledger!Frames, Frames
<1>3. CASE UNCHANGED ledger /\ Complete' = Complete
  BY <1>3 DEF Ledger!vars, Complete
<1>4. ASSUME NEW f \in Frames, LedgerRetains(f), Complete' = Complete PROVE Ledger!Next
  <2>1. Fate[f] = "library" /\ Fate' = [Fate EXCEPT ![f] = "held"]
    BY <1>1, <1>4 DEF LedgerRetains, Fate, Given
  <2>2. Ledger!Retain(f)
    BY <1>1, <1>4, <2>1 DEF Ledger!Retain, LedgerRetains, Complete
  <2> QED
    BY <1>1, <2>2 DEF Ledger!Next
<1>5. ASSUME NEW f \in Frames, LedgerPublishes(f), Complete' = Complete PROVE Ledger!Next
  <2>1. Fate[f] = "held" /\ Fate' = [Fate EXCEPT ![f] = "published"]
    BY <1>1, <1>5 DEF LedgerPublishes, Fate, Given
  <2>2. \A g \in Frames : g[1] = f[1] /\ g[2] > f[2] => Fate[g] # "published"
    BY <1>5 DEF LedgerPublishes, Fate
  <2>3. Ledger!Publish(f)
    BY <1>1, <1>5, <2>1, <2>2 DEF Ledger!Publish, Complete
  <2> QED
    BY <1>1, <2>3 DEF Ledger!Next
<1>6. ASSUME NEW S \in SUBSET Frames, LedgerReturns(S), Complete' = Complete
      PROVE  [Ledger!Next]_(Ledger!vars)
  <2>1. CASE S = {}
    <3>1. ledger' = ledger
      BY <1>1, <1>6, <2>1 DEF LedgerReturns
    <3> QED
      BY <1>3, <1>6, <3>1
  <2>2. CASE S # {}
    <3>1. Fate' = [f \in Frames |-> IF f \in S THEN "returned" ELSE Fate[f]]
      BY <1>6 DEF LedgerReturns, Fate, Given
    <3>2. Ledger!Return(S)
      BY <1>1, <1>6, <2>2, <3>1 DEF Ledger!Return, Complete
    <3> QED
      BY <1>2, <1>6, <3>2 DEF Ledger!Next, LedgerReturns
  <2> QED
    BY <2>1, <2>2
<1>7. CASE LedgerCloses
  <2>1. Ledger!Close
    BY <1>2, <1>7 DEF Ledger!Close, LedgerCloses, Complete
  <2> QED
    BY <2>1 DEF Ledger!Next
<1> QED
  BY <1>3, <1>4, <1>5, <1>6, <1>7 DEF LedgerStep

\* Seen from the library, the pipeline takes only the steps of FrameLedger: a frame
\* is retained before the close and once, published after all older ones of its
\* camera or given back unpublished, and the close finds nothing held.
THEOREM StepsOfTheLedger ==
  ASSUME SdkJoinFailures < 2
  PROVE  Spec => Ledger!Init /\ [][Ledger!Next]_(Ledger!vars)
<1>1. Init => Ledger!Init
  BY DEF Init, Ledger!Init, Ledger!Frames, Frames
<1>2. IInv /\ IInv' /\ ShutdownOK /\ OrderOK /\ [Next]_vars
        => [Ledger!Next]_(Ledger!vars)
  <2> SUFFICES ASSUME IInv, IInv', ShutdownOK, OrderOK, [Next]_vars
               PROVE  [Ledger!Next]_(Ledger!vars)
    OBVIOUS
  <2>1. Complete \in BOOLEAN /\ Complete' \in BOOLEAN
    BY DEF Complete, IInv, FlagsOK, CoreFlags
  <2> QED
    BY <2>1, NextImplements, LedgerSteps
<1> QED
  BY <1>1, <1>2, Invariance, ShutdownInvariance, OrderInvariance, PTL DEF Spec
=============================================================================
