---------------------------- MODULE ImuLifecycle ----------------------------
(***************************************************************************)
(* The IMU path of src/imu_publisher.cpp: ImuPublisher::Impl (Start, Stop) *)
(* and its ImuLifecycleCore, with the single-producer single-consumer ring *)
(* between the ICM42688 acquisition thread, which runs SampleTrampoline,   *)
(* and the publisher thread, which runs PublishLoop.                       *)
(*                                                                         *)
(* There is no lock between the two: each atomic load and store is a step  *)
(* of its own, and so are the write and the copy of a slot.  The n-th      *)
(* sample of the driver is the number n.                                   *)
(***************************************************************************)
EXTENDS Integers

CONSTANTS
    Capacity,      \* kPendingCapacity
    IndexModulus,  \* the number of values of std::size_t
    Faults,        \* the operations that may fail in this instance
    MaxSamples,    \* bound: samples the driver delivers
    MaxStarts      \* bound: calls of Start

\* 1024 divides 2^64 and is smaller: an index may wrap without losing its slot.
ASSUME RingAssumption ==
    /\ Capacity \in Nat \ {0}
    /\ IndexModulus \in Nat
    /\ IndexModulus > Capacity
    /\ IndexModulus % Capacity = 0
ASSUME BoundsAssumption ==
    /\ MaxSamples \in Nat
    /\ MaxStarts \in Nat \ {0}

Indices == 0..(IndexModulus - 1)
Slots == 0..(Capacity - 1)
Samples == 1..MaxSamples
NoSample == 0

VARIABLES
    owner,      \* where the owner is, in Start or Stop
    producer,   \* where the acquisition thread is, in SampleTrampoline
    publisher,  \* where the publisher thread is, in PublishLoop
    pending,    \* pending_, the ring
    write,      \* write_
    read,       \* read_
    copy,       \* PublishLoop's local copy of the sample it publishes
    core,       \* the flags of ImuLifecycleCore
    impl,       \* Impl::started_, g_process_failed, the operation that shuts the core
                \* down, and the calls of Start so far
    driver,     \* the handle, seen from the driver
    delivered,  \* samples the driver has delivered
    published   \* the last sample the sink published

ring == <<pending, write, read>>
vars == <<owner, producer, publisher, ring, copy, core, impl, driver, delivered, published>>

OwnerLabels ==
    {"start", "create", "set_callback", "spawn", "start_driver", "starting", "run", "stop",
     "close", "stop_driver", "stop_publisher", "join", "destroy", "record", "exchange",
     "notify", "finish", "stopped"}
ProducerLabels == {"idle", "admit", "validate", "space", "fill", "advance", "close", "fail"}
PublisherLabels ==
    {"none", "loop", "load", "copy", "advance", "sink", "check_stop", "reload", "close",
     "record", "exchange", "notify", "exited"}

CoreFlags ==
    [admission : BOOLEAN, failed : BOOLEAN, failure_notified : BOOLEAN,
     publisher_stop : BOOLEAN, stop_failed : BOOLEAN, start_claimed : BOOLEAN,
     terminal : BOOLEAN]
ImplStates ==
    [started : BOOLEAN, process_failed : BOOLEAN, caller : {"Start", "Stop"},
     starts : 1..MaxStarts]

TypeOK ==
    /\ owner \in OwnerLabels
    /\ producer \in ProducerLabels
    /\ publisher \in PublisherLabels
    /\ pending \in [Slots -> Samples \cup {NoSample}]
    /\ write \in Indices
    /\ read \in Indices
    /\ copy \in Samples \cup {NoSample}
    /\ core \in CoreFlags
    /\ impl \in ImplStates
    /\ driver \in {"none", "open", "running", "stopped"}
    /\ delivered \in 0..MaxSamples
    /\ published \in 0..MaxSamples

Init ==
    /\ owner = "start" /\ producer = "idle" /\ publisher = "none"
    /\ pending = [s \in Slots |-> NoSample]
    /\ write = 0 /\ read = 0
    /\ copy = NoSample
    /\ core = [admission |-> FALSE, failed |-> FALSE, failure_notified |-> FALSE,
               publisher_stop |-> FALSE, stop_failed |-> FALSE, start_claimed |-> FALSE,
               terminal |-> FALSE]
    /\ impl = [started |-> FALSE, process_failed |-> FALSE, caller |-> "Start", starts |-> 1]
    /\ driver = "none"
    /\ delivered = 0 /\ published = 0

-----------------------------------------------------------------------------
(* The ring's arithmetic, on size_t values.                                *)

Slot(index) == index % Capacity

\* Mutant: the index is not a fixed-width integer.
SuccUnbounded(index) == index + 1

Succ(index) == (index + 1) % IndexModulus
Used == (write - read) % IndexModulus

\* Mutant: the ring is full one sample too late.
RingFullOneLate == Used = Capacity + 1

RingFull == Used = Capacity

-----------------------------------------------------------------------------
(* SampleTrampoline, on the acquisition thread.  Callbacks are serial.     *)

ProducerStep(from, to) ==
    /\ producer = from /\ producer' = to
    /\ UNCHANGED <<owner, publisher, read, copy, impl, driver, published>>

\* A step of the producer that only looks at shared state.
ProducerLooks(from, to) ==
    ProducerStep(from, to) /\ UNCHANGED <<pending, write, core, delivered>>

DeliverSample ==
    /\ ProducerStep("idle", "admit")
    /\ driver = "running" /\ delivered < MaxSamples
    /\ delivered' = delivered + 1
    /\ UNCHANGED <<pending, write, core>>

LoadAdmission == ProducerLooks("admit", IF core.admission THEN "validate" ELSE "idle")

\* A null sample or a wrong struct_size fails closed.
ValidateSample ==
    \/ ProducerLooks("validate", "space")
    \/ "sample" \in Faults /\ ProducerLooks("validate", "close")

\* So does a full ring: nothing is overwritten and the callback never waits.
LoadRead == ProducerLooks("space", IF RingFull THEN "close" ELSE "fill")

FillSlot ==
    /\ ProducerStep("fill", "advance")
    /\ pending' = [pending EXCEPT ![Slot(write)] = delivered]
    /\ UNCHANGED <<write, core, delivered>>

StoreWrite ==
    /\ ProducerStep("advance", "idle")
    /\ write' = Succ(write)
    /\ UNCHANGED <<pending, core, delivered>>

ProducerCloses ==
    /\ ProducerStep("close", "fail")
    /\ core' = [core EXCEPT !.admission = FALSE]
    /\ UNCHANGED <<pending, write, delivered>>

\* Nobody is notified here: the publisher thread finds failed_ and reports it.
ProducerFails ==
    /\ ProducerStep("fail", "idle")
    /\ core' = [core EXCEPT !.failed = TRUE]
    /\ UNCHANGED <<pending, write, delivered>>

-----------------------------------------------------------------------------
(* PublishLoop, on the publisher thread.                                   *)

PublisherStep(from, to) ==
    /\ publisher = from /\ publisher' = to
    /\ UNCHANGED <<owner, producer, pending, write, driver, delivered>>

\* A step of the publisher that only looks at shared state.
PublisherLooks(from, to) ==
    PublisherStep(from, to) /\ UNCHANGED <<read, copy, core, impl, published>>

\* Mutant: the publisher does not look for a failure of the other thread.
LoadFailedSkipped == PublisherLooks("loop", "load")

LoadFailed == PublisherLooks("loop", IF core.failed THEN "record" ELSE "load")

LoadWrite == PublisherLooks("load", IF read # write THEN "copy" ELSE "check_stop")

CopySlot ==
    /\ PublisherStep("copy", "advance")
    /\ copy' = pending[Slot(read)]
    /\ UNCHANGED <<read, core, impl, published>>

StoreRead ==
    /\ PublisherStep("advance", "sink")
    /\ read' = Succ(read)
    /\ UNCHANGED <<copy, core, impl, published>>

PublishSample ==
    /\ PublisherStep("sink", "loop")
    /\ published' = copy
    /\ UNCHANGED <<read, copy, core, impl>>

PublishThrows == "sink" \in Faults /\ PublisherLooks("sink", "close")

PublisherCloses ==
    /\ PublisherStep("close", "record")
    /\ core' = [core EXCEPT !.admission = FALSE]
    /\ UNCHANGED <<read, copy, impl, published>>

\* Without a stop request the thread sleeps and starts over.
LoadPublisherStop ==
    PublisherLooks("check_stop", IF core.publisher_stop THEN "reload" ELSE "loop")

\* Mutants: the index loaded before the stop request is trusted; the second
\* comparison is the wrong way round.
ReloadWriteSkipped == PublisherLooks("reload", "exited")
ReloadWriteInverted == PublisherLooks("reload", IF read = write THEN "loop" ELSE "exited")

\* A sample stored between the two loads of write_ is still published.
ReloadWrite == PublisherLooks("reload", IF read = write THEN "exited" ELSE "loop")

-----------------------------------------------------------------------------
(* RecordFailure: the store, the exchange, and the notifier for the first  *)
(* to win it.  The publisher runs it, and the owner.                       *)

OwnerStep(from, to) ==
    /\ owner = from /\ owner' = to
    /\ UNCHANGED <<producer, ring, copy, delivered, published>>

\* A step of the owner that only looks at shared state.
OwnerLooks(from, to) == OwnerStep(from, to) /\ UNCHANGED <<publisher, core, impl, driver>>

StoreFailed == core' = [core EXCEPT !.failed = TRUE] /\ UNCHANGED impl
ExchangeNotified == core' = [core EXCEPT !.failure_notified = TRUE] /\ UNCHANGED impl
RecordProcessFailure == impl' = [impl EXCEPT !.process_failed = TRUE] /\ UNCHANGED core

PublisherRecordsFailure ==
    /\ \/ PublisherStep("record", "exchange") /\ StoreFailed
       \/ /\ PublisherStep("exchange", IF core.failure_notified THEN "exited" ELSE "notify")
          /\ ExchangeNotified
       \/ PublisherStep("notify", "exited") /\ RecordProcessFailure
    /\ UNCHANGED <<read, copy, published>>

AfterRecord == IF impl.caller = "Start" THEN "stop" ELSE "finish"

OwnerRecordsFailure ==
    /\ \/ OwnerStep("record", "exchange") /\ StoreFailed
       \/ /\ OwnerStep("exchange", IF core.failure_notified THEN AfterRecord ELSE "notify")
          /\ ExchangeNotified
       \/ OwnerStep("notify", AfterRecord) /\ RecordProcessFailure
    /\ UNCHANGED <<publisher, driver>>

-----------------------------------------------------------------------------
(* Impl::Start and ImuLifecycleCore::Start.                                *)

RejectRestart == (core.start_claimed \/ core.terminal) /\ OwnerLooks("start", "stop")

ClaimStart ==
    /\ OwnerStep("start", "create")
    /\ ~core.start_claimed /\ ~core.terminal
    /\ core' = [core EXCEPT !.start_claimed = TRUE]
    /\ UNCHANGED <<publisher, impl, driver>>

CreateDriver ==
    /\ OwnerStep("create", "set_callback")
    /\ driver' = "open"
    /\ UNCHANGED <<publisher, core, impl>>

\* icm42688_set_callback, then admission_ is opened.
SetCallback ==
    /\ OwnerStep("set_callback", "spawn")
    /\ core' = [core EXCEPT !.admission = TRUE]
    /\ UNCHANGED <<publisher, impl, driver>>

StartPublisher ==
    /\ OwnerStep("spawn", "start_driver")
    /\ publisher' = "loop"
    /\ UNCHANGED <<core, impl, driver>>

\* icm42688_create, icm42688_set_callback or std::thread fails.  The driver does not
\* run yet and there is no publisher, so that giving the handle up is one step.
StartGivesUp ==
    \E failing \in Faults \cap {"create", "set_callback", "spawn"} :
        /\ OwnerStep(failing, "record")
        /\ core' = [core EXCEPT !.admission = FALSE, !.terminal = TRUE]
        /\ driver' = "none"
        /\ UNCHANGED <<publisher, impl>>

\* Samples may arrive before icm42688_start returns, even if it fails.
StartDriver ==
    /\ OwnerStep("start_driver", "starting")
    /\ driver' = "running"
    /\ UNCHANGED <<publisher, core, impl>>

StartReturnsOk ==
    /\ OwnerStep("starting", "run")
    /\ impl' = [impl EXCEPT !.started = TRUE]
    /\ UNCHANGED <<publisher, core, driver>>

StartReturnsFailure ==
    /\ "start" \in Faults
    /\ OwnerStep("starting", "stop_driver")
    /\ core' = [core EXCEPT !.admission = FALSE]
    /\ UNCHANGED <<publisher, impl, driver>>

-----------------------------------------------------------------------------
(* Impl::Stop and ImuLifecycleCore::Stop; the shutdown steps also end a    *)
(* Start whose icm42688_start failed.                                      *)

\* main's loop ends on the process failure, or on a signal at any time.
SeeFailure == impl.process_failed /\ OwnerLooks("run", "stop")
SeeStopSignal == OwnerLooks("run", "stop")

StopReturnsEarly == ~impl.started /\ ~core.failed /\ OwnerLooks("stop", "stopped")

StopFindsTerminal ==
    /\ impl.started \/ core.failed
    /\ core.terminal /\ driver = "none"
    /\ OwnerLooks("stop", "finish")

BeginStop ==
    /\ OwnerStep("stop", "stop_driver")
    /\ impl.started \/ core.failed
    /\ ~core.terminal \/ driver # "none"
    /\ core' = [core EXCEPT !.terminal = TRUE]
    /\ impl' = [impl EXCEPT !.caller = "Stop"]
    /\ UNCHANGED <<publisher, driver>>

\* A start that failed has closed admission already, a stop does it only now.
AfterDriverStop == IF impl.caller = "Start" THEN "stop_publisher" ELSE "close"

\* A successful icm42688_stop has waited for the acquisition thread.
StopDriver ==
    /\ OwnerStep("stop_driver", AfterDriverStop)
    /\ producer = "idle"
    /\ driver' = "stopped"
    /\ UNCHANGED <<publisher, core, impl>>

\* A failed one promises nothing: samples may go on arriving.
StopDriverFails ==
    /\ "stop" \in Faults
    /\ OwnerStep("stop_driver", AfterDriverStop)
    /\ core' = [core EXCEPT !.stop_failed = TRUE]
    /\ UNCHANGED <<publisher, impl, driver>>

CloseAdmission ==
    /\ OwnerStep("close", "stop_publisher")
    /\ core' = [core EXCEPT !.admission = FALSE]
    /\ UNCHANGED <<publisher, impl, driver>>

\* FinishPublisher: the request and the join.
StopPublisher ==
    /\ OwnerStep("stop_publisher", "join")
    /\ core' = [core EXCEPT !.publisher_stop = TRUE]
    /\ UNCHANGED <<publisher, impl, driver>>

\* Mutant: the publisher is detached.
JoinPublisherDetaches == OwnerLooks("join", "destroy")

JoinPublisher == publisher = "exited" /\ OwnerLooks("join", "destroy")

\* icm42688_destroy waits for the acquisition thread too.
DestroyDriver ==
    /\ OwnerStep("destroy",
                 IF impl.caller = "Start" \/ core.stop_failed THEN "record" ELSE "finish")
    /\ producer = "idle"
    /\ driver' = "none"
    /\ core' = [core EXCEPT !.terminal = TRUE]
    /\ UNCHANGED <<publisher, impl>>

\* Mutant: Stop reports its own status only, not a failure found while it ran.
FinishStopStatusOnly ==
    /\ OwnerStep("finish", "stopped")
    /\ impl' = [impl EXCEPT !.process_failed = @ \/ core.stop_failed, !.started = FALSE]
    /\ UNCHANGED <<publisher, core, driver>>

\* Impl::Stop reports a failed stop, and a failure that nobody notified.
FinishStop ==
    /\ OwnerStep("finish", "stopped")
    /\ impl' = [impl EXCEPT !.process_failed = @ \/ core.stop_failed \/ core.failed,
                            !.started = FALSE]
    /\ UNCHANGED <<publisher, core, driver>>

\* StopPublishers, then the destructors of Impl and of the core.
StopAgain == OwnerLooks("stopped", "stop")

StartAgain ==
    /\ OwnerStep("stopped", "start")
    /\ impl.starts < MaxStarts
    /\ impl' = [impl EXCEPT !.starts = @ + 1, !.caller = "Start"]
    /\ UNCHANGED <<publisher, core, driver>>

-----------------------------------------------------------------------------
SampleTrampoline ==
    LoadAdmission \/ ValidateSample \/ LoadRead \/ FillSlot \/ StoreWrite
        \/ ProducerCloses \/ ProducerFails

PublishLoop ==
    LoadFailed \/ LoadWrite \/ CopySlot \/ StoreRead \/ PublishSample \/ PublishThrows
        \/ PublisherCloses \/ LoadPublisherStop \/ ReloadWrite \/ PublisherRecordsFailure

Start ==
    RejectRestart \/ ClaimStart \/ CreateDriver \/ SetCallback \/ StartPublisher
        \/ StartGivesUp \/ StartDriver \/ StartReturnsOk \/ StartReturnsFailure

Stop ==
    StopReturnsEarly \/ StopFindsTerminal \/ BeginStop \/ StopDriver \/ StopDriverFails
        \/ CloseAdmission \/ StopPublisher \/ JoinPublisher \/ DestroyDriver \/ FinishStop

Environment == DeliverSample \/ SeeStopSignal \/ StopAgain \/ StartAgain

Next ==
    \/ Environment
    \/ SampleTrampoline \/ PublishLoop
    \/ Start \/ SeeFailure \/ Stop \/ OwnerRecordsFailure

\* Every thread is scheduled, a publish returns, and the driver keeps its
\* acquisition thread alive.  Neither samples nor signals need come.
Fairness ==
    /\ WF_vars(SampleTrampoline)
    /\ WF_vars(PublishLoop)
    /\ WF_vars(Start \/ SeeFailure \/ Stop \/ OwnerRecordsFailure)

Spec == Init /\ [][Next]_vars
FairSpec == Spec /\ Fairness

-----------------------------------------------------------------------------
(* Properties.                                                             *)

\* The last sample that left the ring: the slot is free once read_ has moved on.
Taken == IF publisher = "advance" THEN copy - 1 ELSE copy

\* No slot is copied while it is written: the full test and the order of the
\* index stores keep the two threads on different slots.
NoSlotRace ==
    producer = "fill" /\ publisher = "copy" => Slot(write) # Slot(read)

\* The ring holds consecutive samples, through any wrap of the indices: no
\* admitted sample is overwritten, skipped or read before it is complete.
RingHoldsTheStream ==
    \A k \in 0..(Used - 1) : pending[Slot(read + k)] = Taken + 1 + k

\* Once the handle is destroyed nothing runs on the core any more, so that the
\* core may be destroyed with it.
QuiescentDestroy ==
    core.terminal /\ driver = "none" => producer = "idle" /\ publisher \in {"none", "exited"}

\* A failure found by any thread reaches the exit status, even when the publisher
\* left on the stop request without having seen it.
FailureReachesProcess == owner = "stopped" /\ core.failed => impl.process_failed

\* Stop always ends, with the ring full or a publish failing.
StopEnds == owner = "stop" ~> owner = "stopped"

\* A failure shuts the process down although the acquisition thread, which may
\* have found it, notifies nobody.
FailureShutsDown == core.failed ~> owner = "stopped"

\* Seen from outside, the ring and its threads are SampleStream: in order, bounded,
\* drained unless something fails, and over for good after the close.
Stream == INSTANCE SampleStream WITH
    admitted <- Taken + Used,
    phase <- IF core.terminal /\ driver = "none" /\ publisher \in {"none", "exited"} THEN "closed"
             ELSE IF core.failed \/ core.stop_failed THEN "failed" ELSE "open"

ImplementsSampleStream == Stream!Spec
=============================================================================
