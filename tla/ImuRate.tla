------------------------------- MODULE ImuRate -------------------------------
(***************************************************************************)
(* The rate metrics of the IMU: ImuLifecycleCore and LogRateMetrics of     *)
(* src/imu_publisher.cpp.  Unlike the camera's, they count what comes in   *)
(* twice: the acquisition thread in two atomics of the core, before it     *)
(* looks at the admission, and the publisher thread in the metrics.        *)
(* Snapshot puts the core's counts over the metrics'.                      *)
(*                                                                         *)
(* The publisher's increments are relaxed: they become visible in any      *)
(* order, but all before it next releases read_.                           *)
(***************************************************************************)
EXTENDS Naturals, Sequences

CONSTANTS
    kPendingCapacity,
    publish_temperature,
    Observed,     \* bound: the fields that the snapshots follow
    MaxArrivals,  \* bound: valid samples that arrive
    MaxClock      \* bound: the last reading of the steady clock

ASSUME CapacityAssumption == kPendingCapacity \in Nat \ {0}
ASSUME ObservedAssumption == {"publish", "source", "first"} \subseteq Observed
ASSUME BoundsAssumption == MaxArrivals \in Nat /\ MaxClock \in Nat \ {0}

VARIABLES
    clock,       \* the steady clock
    acquisition, \* where the acquisition thread is
    admission,   \* admission_
    failed,      \* failed_
    queued,      \* samples in the ring
    publisher,   \* where PublishLoop is
    atomics,     \* source_count_, source_first_ns_ and the atomics of metrics_
    pending,     \* the publisher's increments that are not yet visible
    main,        \* the thread that starts, runs the timer and leaves
    timer,       \* its snapshot in the making
    previous,    \* previous_snapshot_
    first,       \* history: arrival_ns of the first sample
    baseline,    \* history: the samples in the snapshot that Start keeps
    logged       \* history: the samples in all the lines logged

acquisitionVars == <<acquisition, first>>
logVars == <<previous, baseline, logged>>
mainVars == <<main, timer, logVars>>
vars == <<clock, admission, failed, queued, publisher, atomics, pending, acquisitionVars, mainVars>>

\* Mutant: what comes in is loaded before what goes out.
LoadsSourceFirst == <<"source", "publish", "auxiliary", "failure", "first">>
\* Snapshot's loads, all acquiring but the last; those it overwrites are left out.
AllLoads == <<"publish", "auxiliary", "failure", "source", "first">>

Metrics == {"own_source", "publish", "auxiliary", "failure"}
Fields == {"publish", "auxiliary", "failure", "source", "first", "end"}

Zero == [f \in Fields |-> 0]
Idle == [idle |-> TRUE, read |-> 0, snapshot |-> Zero]

\* core_.Start has returned: the driver and the publisher run.
Init ==
    /\ clock = 1
    /\ acquisition = "out"
    /\ admission = TRUE /\ failed = FALSE /\ queued = 0 /\ publisher = "loop"
    /\ atomics = [a \in Metrics \cup {"source_count", "source_first_ns"} |-> 0]
    /\ pending = {}
    /\ main = "starting" /\ timer = Idle /\ previous = Zero
    /\ first = 0 /\ baseline = 0 /\ logged = 0

Tick ==
    /\ clock < MaxClock /\ clock' = clock + 1
    /\ UNCHANGED <<admission, failed, queued, publisher, atomics, pending, acquisitionVars, mainVars>>

-----------------------------------------------------------------------------
(* SampleTrampoline, on the acquisition thread.                            *)

AcquisitionMoves(from, to) ==
    /\ acquisition = from /\ acquisition' = to
    /\ UNCHANGED <<clock, publisher, pending, first, mainVars>>

Arrive ==
    /\ acquisition = "out" /\ atomics["source_count"] < MaxArrivals
    /\ IF atomics["source_count"] = 0
       THEN acquisition' = "first" /\ first' = clock
       ELSE acquisition' = "count" /\ UNCHANGED first
    /\ UNCHANGED <<clock, admission, failed, queued, publisher, atomics, pending, mainVars>>

StoreFirst ==
    /\ AcquisitionMoves("first", "count")
    /\ atomics' = [atomics EXCEPT !["source_first_ns"] = first]
    /\ UNCHANGED <<admission, failed, queued>>

\* A release: whoever reads the count finds the first arrival too.
CountSource ==
    /\ AcquisitionMoves("count", "admit")
    /\ atomics' = [atomics EXCEPT !["source_count"] = @ + 1]
    /\ UNCHANGED <<admission, failed, queued>>

RingFull == queued = kPendingCapacity

NotAdmitted ==
    /\ ~admission /\ AcquisitionMoves("admit", "out")
    /\ UNCHANGED <<admission, failed, queued, atomics>>

Admit ==
    /\ admission /\ ~RingFull /\ AcquisitionMoves("admit", "out")
    /\ queued' = queued + 1
    /\ UNCHANGED <<admission, failed, atomics>>

Overflow ==
    /\ admission /\ RingFull /\ AcquisitionMoves("admit", "out")
    /\ admission' = FALSE /\ failed' = TRUE
    /\ UNCHANGED <<queued, atomics>>

\* A sample of another size is not counted, and ends the admission.
Malformed ==
    /\ admission /\ AcquisitionMoves("out", "out")
    /\ admission' = FALSE /\ failed' = TRUE
    /\ UNCHANGED <<queued, atomics>>

-----------------------------------------------------------------------------
(* PublishLoop and PublishSample, on the publisher thread.                 *)

PublisherMoves(from, to, counted) ==
    /\ publisher = from /\ publisher' = to
    /\ pending' = pending \cup counted
    /\ UNCHANGED <<clock, atomics, acquisitionVars, mainVars>>

Take ==
    /\ ~failed /\ queued > 0 /\ pending = {}
    /\ PublisherMoves("loop", "imu", {"own_source"})
    /\ queued' = queued - 1
    /\ UNCHANGED <<admission, failed>>

PublishImu ==
    /\ PublisherMoves("imu", IF publish_temperature THEN "temperature" ELSE "loop", {"publish"})
    /\ UNCHANGED <<admission, failed, queued>>

PublishTemperature ==
    /\ PublisherMoves("temperature", "loop", {"auxiliary"})
    /\ UNCHANGED <<admission, failed, queued>>

\* Either publish; the failure of the core is recorded with it.
PublishThrows ==
    /\ \E at \in {"imu", "temperature"} : PublisherMoves(at, "ended", {"failure"})
    /\ admission' = FALSE /\ failed' = TRUE
    /\ UNCHANGED queued

SeeFailure ==
    /\ failed /\ PublisherMoves("loop", "ended", {})
    /\ UNCHANGED <<admission, failed, queued>>

\* An increment of the publisher becomes visible.
Visible ==
    /\ \E a \in pending :
        /\ atomics' = [atomics EXCEPT ![a] = @ + 1]
        /\ pending' = pending \ {a}
    /\ UNCHANGED <<clock, admission, failed, queued, publisher, acquisitionVars, mainVars>>

-----------------------------------------------------------------------------
(* Start's last part and the rate timer, on the main thread.               *)

\* Mutant: the count of the metrics stays.
LoadedOwnSource(f) ==
    CASE f = "source" -> atomics["own_source"]
      [] f = "first"  -> atomics["source_first_ns"]
      [] OTHER        -> atomics[f]

\* Where Snapshot takes a field from.
Loaded(f) ==
    CASE f = "source" -> atomics["source_count"]
      [] f = "first"  -> atomics["source_first_ns"]
      [] OTHER        -> atomics[f]

MainUnchanged ==
    UNCHANGED <<clock, admission, failed, queued, publisher, atomics, pending, acquisitionVars>>

TakeTime ==
    /\ main # "over" /\ timer.idle
    /\ timer' = [Idle EXCEPT !.idle = FALSE, !.snapshot["end"] = clock]
    /\ UNCHANGED <<main, logVars>> /\ MainUnchanged

\* The loads that the snapshot still lacks.
ToLoad == {i \in DOMAIN AllLoads : i > timer.read /\ AllLoads[i] \in Observed}
SnapshotTaken == ~timer.idle /\ ToLoad = {}

Snapshot ==
    /\ ~timer.idle
    /\ \E i \in ToLoad :
        /\ \A j \in ToLoad : i <= j
        /\ LET f == AllLoads[i]
           IN  timer' = [timer EXCEPT !.read = i, !.snapshot[f] = Loaded(f)]
    /\ UNCHANGED <<main, logVars>> /\ MainUnchanged

\* Start keeps its snapshot and creates the timer.
StartReturns ==
    /\ main = "starting" /\ SnapshotTaken
    /\ main' = "running" /\ timer' = Idle
    /\ previous' = timer.snapshot /\ baseline' = timer.snapshot["source"]
    /\ UNCHANGED logged /\ MainUnchanged

SaturatingSubtract(after, before) == IF after >= before THEN after - before ELSE 0

\* The line shows Delta, of which only the count of the samples is followed.
LogRateMetrics ==
    /\ main = "running" /\ SnapshotTaken
    /\ timer' = Idle /\ previous' = timer.snapshot
    /\ logged' = logged + SaturatingSubtract(timer.snapshot["source"], previous["source"])
    /\ UNCHANGED <<main, baseline>> /\ MainUnchanged

\* The executor is left between two callbacks: on a signal, or on the failure that
\* the publisher's notifier has reported.
LeaveLoop ==
    /\ main = "running" /\ timer.idle
    /\ main' = "over"
    /\ UNCHANGED <<timer, logVars>> /\ MainUnchanged

Over == main = "over" /\ UNCHANGED vars

Acquisition == StoreFirst \/ CountSource \/ NotAdmitted \/ Admit \/ Overflow
Publisher == Take \/ PublishImu \/ PublishTemperature \/ PublishThrows \/ SeeFailure
Timer == TakeTime \/ Snapshot \/ StartReturns \/ LogRateMetrics

Next ==
    \/ Tick \/ Arrive \/ Malformed \/ Acquisition
    \/ Publisher \/ Visible
    \/ Timer \/ LeaveLoop \/ Over

Spec == Init /\ [][Next]_vars

\* The timer's period comes round again and again.  Nothing is assumed of the
\* publisher, whose publish may never return, nor of further samples.
FairSpec == Spec /\ WF_vars(Timer)

-----------------------------------------------------------------------------
(* Properties.                                                             *)

\* A snapshot never shows more published than acquired, although samples go on coming
\* in and out between its loads, and one that counts a sample has the time of the
\* first one, which was stored relaxed but before the releasing increment: it loads
\* source_count_ after the metrics and before source_first_ns_.
SnapshotAgrees ==
    SnapshotTaken =>
        /\ timer.snapshot["source"] >= timer.snapshot["publish"]
        /\ timer.snapshot["source"] > 0 => timer.snapshot["first"] = first

\* "Input counts follow acquisition even while publication is stalled or failed"
\* (imu_publisher.cpp:253): every sample acquired after Start's snapshot is in the lines
\* logged in the end, and in one of them only, as long as the timer runs and whatever the
\* publisher does.  Those acquired before it are the baseline, which no line shows.
AcquisitionReported ==
    \A n \in 1..MaxArrivals :
        atomics["source_count"] = n ~>
            baseline + logged \in n..atomics["source_count"] \/ main = "over"
=============================================================================
