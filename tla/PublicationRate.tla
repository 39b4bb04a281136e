-------------------------- MODULE PublicationRate --------------------------
(***************************************************************************)
(* The rate metrics of one camera: PublicationRateMetrics of               *)
(* src/publication_rate_metrics.cpp as camera_publisher.cpp uses it.  The  *)
(* library's dispatcher records what arrives and what is dropped, the      *)
(* camera's worker what is published, and a timer of the node's executor   *)
(* reads the counters one by one and logs what changed since it last did.  *)
(*                                                                         *)
(* Each counter is an atomic of its own, incremented relaxed: the          *)
(* increments of a thread become visible in any order, but all of them     *)
(* before it next releases the queue's mutex.  The loads are acquiring, so *)
(* they happen in the order written.                                       *)
(***************************************************************************)
EXTENDS Naturals, Sequences, FiniteSets, Functions

CONSTANTS
    MaxU64,         \* the largest uint64_t, and so the largest sequence
    queue_capacity,
    publish_camera_info,
    Sequences,      \* of the frames
    Observed,       \* bound: the atomics that the timer's snapshots follow
    Latencies,      \* the durations of a publish
    Timestamps,     \* of the frames
    MaxFrames,      \* bound: frames that arrive
    MaxReports,     \* bound: ticks of the timer
    MaxClock        \* bound: the last reading of the steady clock

ASSUME SequencesAssumption == MaxU64 \in Nat \ {0} /\ Sequences \subseteq 0..MaxU64
ASSUME MeasuresAssumption == Timestamps \subseteq Nat /\ Latencies \subseteq Nat
ASSUME BoundsAssumption ==
    /\ queue_capacity \in Nat \ {0} /\ publish_camera_info \in BOOLEAN
    /\ MaxFrames \in Nat /\ MaxReports \in Nat /\ MaxClock \in Nat \ {0}

\* Mutant: the latencies are loaded before the publishes that they are of.
LoadsLatencyFirst ==
    <<"source", "latency_count", "latency_sum", "latency_max", "publish",
      "auxiliary", "drop", "failure", "gap", "duplicate", "regression",
      "ts_duplicate", "ts_regression", "first_monotonic">>
\* The loads of Snapshot, in its order; first_monotonic_ns_ comes last.
AllLoads ==
    <<"source", "publish", "auxiliary", "drop", "failure",
      "gap", "duplicate", "regression", "ts_duplicate", "ts_regression",
      "latency_count", "latency_sum", "latency_max", "first_monotonic">>

Atomics == Range(AllLoads)
ASSUME ObservedAssumption ==
    /\ Observed \subseteq Atomics
    /\ {"publish", "latency_count", "latency_sum", "first_monotonic"} \subseteq Observed
\* What Delta subtracts; the maximum and the start of the interval it does not.
Counters == Observed \ {"latency_max", "first_monotonic"}

VARIABLES
    clock,      \* the steady clock
    atomics,    \* the atomic members of PublicationRateMetrics
    last,       \* the members under source_mutex_: the last arrival, if any
    pending,    \* the updates of each thread that are not yet visible
    hand,       \* the dispatcher holds a frame that it has recorded
    queued,     \* frames in the camera's queue
    worker,     \* where the worker is in PublishFrame
    closed,     \* a failure ended the admission of frames
    timer,      \* of LogRateMetrics: the snapshot read so far, which ends at its now_ns
    previous,   \* previous_snapshots_: the snapshot last reported
    \* History, of which the code keeps nothing:
    arrivals,   \* the frames recorded, in order
    reported,   \* the sums of the logged differences
    windows     \* the intervals logged

dispatcherVars == <<last, hand, closed, arrivals>>
workerVars == <<worker>>
timerVars == <<timer, previous, reported, windows>>
vars == <<clock, atomics, last, pending, hand, queued, worker, closed, timer,
          previous, arrivals, reported, windows>>

Frames == [sequence : Sequences, timestamp : Timestamps, monotonic : 1..MaxClock]
NoSnapshot == [a \in Atomics \cup {"end"} |-> 0]
Idle == [idle |-> TRUE, read |-> 0, snapshot |-> NoSnapshot]

\* The steady clock counts from the boot: it reads no 0 here.
Init ==
    /\ clock = 1
    /\ atomics = [a \in Atomics |-> 0]
    /\ last = {}
    /\ pending = [t \in {"dispatcher", "worker"} |-> {}]
    /\ hand = FALSE
    /\ queued = 0
    /\ worker = "pop"
    /\ closed = FALSE
    /\ timer = Idle
    /\ previous = NoSnapshot
    /\ arrivals = << >>
    /\ reported = [a \in Counters |-> 0]
    /\ windows = << >>

-----------------------------------------------------------------------------
(* publication_rate_metrics.cpp: what the calls add to the counters.       *)

Once(cs) == cs \X {1}

ExpectedNext(sequence) == IF sequence = MaxU64 THEN 0 ELSE sequence + 1

\* Mutant: the expected sequence is not that of the wrap.
SequenceClassNoWrap(before, sequence) ==
    CASE sequence = before      -> {"duplicate"}
      [] sequence = before + 1  -> {}
      [] sequence > before + 1  -> {"gap"}
      [] OTHER                  -> {"regression"}

\* The class of a sequence after the last one; the successor is in none.
SequenceClass(before, sequence) ==
    CASE sequence = before                  -> {"duplicate"}
      [] sequence = ExpectedNext(before)    -> {}
      [] sequence > ExpectedNext(before) /\ sequence # before -> {"gap"}
      [] OTHER                              -> {"regression"}

\* RecordTimestampLocked.
TimestampClass(before, timestamp) ==
    CASE timestamp = before -> {"ts_duplicate"}
      [] timestamp < before -> {"ts_regression"}
      [] OTHER              -> {}

\* What RecordSource leaves under the mutex for the next arrival.
Remember(f) == {f}

RecordSource(f) ==
    {<<"first_monotonic", f.monotonic>>}
    \cup Once({"source"}
        \cup UNION {SequenceClass(l.sequence, f.sequence)
                    \cup TimestampClass(l.timestamp, f.timestamp) : l \in last})

RecordPublishSuccess(latency_ns) ==
    Once({"publish", "latency_count"})
    \cup {<<"latency_sum", latency_ns>>, <<"latency_max", latency_ns>>}

\* Mutant: the start of the interval is stored without a CAS.
UpdatedStores(a, u) ==
    CASE u[1] = "first_monotonic" -> u[2]
      [] u[1] = "latency_max"     -> IF u[2] > a THEN u[2] ELSE a
      [] OTHER                    -> a + u[2]

\* An atomic a takes a thread's update u: CAS from 0, CAS to a maximum, or add.
Updated(a, u) ==
    CASE u[1] = "first_monotonic" -> IF a = 0 THEN u[2] ELSE a
      [] u[1] = "latency_max"     -> IF u[2] > a THEN u[2] ELSE a
      [] OTHER                    -> a + u[2]

SaturatingSubtract(after, before) == IF after >= before THEN after - before ELSE 0

-----------------------------------------------------------------------------
(* The threads.                                                            *)

Tick ==
    /\ clock < MaxClock /\ clock' = clock + 1
    /\ UNCHANGED <<atomics, pending, queued, dispatcherVars, workerVars, timerVars>>

\* An update of thread t becomes visible.
Visible(t) ==
    /\ \E u \in pending[t] :
        /\ atomics' = [atomics EXCEPT ![u[1]] = Updated(@, u)]
        /\ pending' = [pending EXCEPT ![t] = @ \ {u}]
    /\ UNCHANGED <<clock, queued, dispatcherVars, workerVars, timerVars>>

\* Thread t updates atomics.  What no snapshot follows is visible at once, which
\* nobody can tell.
Add(t, updates) ==
    LET followed == {u \in updates : u[1] \in Observed}
        other(a) == {u \in updates \ followed : u[1] = a}
    IN  /\ pending' = [pending EXCEPT ![t] = @ \cup followed]
        /\ atomics' = [a \in Atomics |->
                         IF other(a) = {} THEN atomics[a]
                         ELSE Updated(atomics[a], CHOOSE u \in other(a) : TRUE)]
Flushed(t) == pending[t] = {}

\* The dispatcher delivers a frame, which HandleFrameSet records first.
Arrive ==
    /\ ~hand /\ ~closed /\ Len(arrivals) < MaxFrames
    /\ \E f \in Frames :
        /\ f.monotonic = clock
        /\ Add("dispatcher", RecordSource(f))
        /\ last' = Remember(f)
        /\ arrivals' = Append(arrivals, f)
    /\ hand' = TRUE
    /\ UNCHANGED <<clock, queued, closed, workerVars, timerVars>>

RetainThrows ==
    /\ hand /\ hand' = FALSE /\ closed' = TRUE
    /\ UNCHANGED <<clock, atomics, last, pending, queued, arrivals, workerVars, timerVars>>

Push ==
    /\ hand /\ ~closed /\ queued < queue_capacity /\ Flushed("dispatcher")
    /\ hand' = FALSE /\ queued' = queued + 1
    /\ UNCHANGED <<clock, atomics, last, pending, closed, arrivals, workerVars, timerVars>>

\* Push returns FALSE: the queue is full and its policy drop_newest, or it is stopped.
RecordDrop ==
    /\ hand /\ (closed \/ queued = queue_capacity) /\ Flushed("dispatcher")
    /\ hand' = FALSE /\ Add("dispatcher", Once({"drop"}))
    /\ UNCHANGED <<clock, last, queued, closed, arrivals, workerVars, timerVars>>

Pop ==
    /\ worker = "pop" /\ queued > 0 /\ ~closed /\ Flushed("worker")
    /\ worker' = "image" /\ queued' = queued - 1
    /\ UNCHANGED <<clock, atomics, pending, dispatcherVars, timerVars>>

PublishImage ==
    /\ worker = "image" /\ worker' = IF publish_camera_info THEN "camera_info" ELSE "pop"
    /\ \E latency_ns \in Latencies : Add("worker", RecordPublishSuccess(latency_ns))
    /\ UNCHANGED <<clock, queued, dispatcherVars, timerVars>>

PublishCameraInfo ==
    /\ worker = "camera_info" /\ worker' = "pop"
    /\ Add("worker", Once({"auxiliary"}))
    /\ UNCHANGED <<clock, queued, dispatcherVars, timerVars>>

\* A publish throws, which is counted, or what PublishFrame does before it, which is not.
PublishThrows ==
    /\ worker \in {"image", "camera_info"} /\ worker' = "ended" /\ closed' = TRUE
    /\ \/ Add("worker", Once({"failure"}))
       \/ worker = "image" /\ UNCHANGED <<pending, atomics>>
    /\ UNCHANGED <<clock, last, queued, hand, arrivals, timerVars>>

\* The timer: LogRateMetrics takes the time, then Snapshot loads one atomic at a time.
TakeTime ==
    /\ timer.idle /\ Len(windows) < MaxReports
    /\ timer' = [Idle EXCEPT !.idle = FALSE, !.snapshot["end"] = clock]
    /\ UNCHANGED <<clock, atomics, pending, queued, previous, reported, windows, dispatcherVars, workerVars>>

ToLoad == {i \in DOMAIN AllLoads : i > timer.read /\ AllLoads[i] \in Observed}
SnapshotTaken == ~timer.idle /\ ToLoad = {}

Snapshot ==
    /\ ~timer.idle
    /\ \E i \in ToLoad :
        /\ \A j \in ToLoad : i <= j
        /\ LET a == AllLoads[i]
           IN  timer' = [timer EXCEPT !.read = i, !.snapshot[a] = atomics[a]]
    /\ UNCHANGED <<clock, atomics, pending, queued, previous, reported, windows, dispatcherVars, workerVars>>

\* Mutant: the timer takes a second snapshot to keep.
KeptSecondSnapshot(current) == [a \in DOMAIN current |-> IF a = "end" THEN clock ELSE atomics[a]]
\* What the timer keeps as previous_snapshots_, and Delta against it.
Kept(current) == current

Delta(before, after) ==
    [a \in Counters \cup {"start", "end"} |->
        CASE a = "start" -> before["end"]
          [] a = "end"   -> after["end"]
          [] OTHER       -> SaturatingSubtract(after[a], before[a])]

\* The window as logged: the first one starts with the first frame known.
LogRateMetrics ==
    /\ SnapshotTaken /\ timer' = Idle
    /\ LET current == timer.snapshot
           delta == Delta(previous, current)
           start == IF delta["start"] = 0 THEN current["first_monotonic"] ELSE delta["start"]
       IN  /\ previous' = Kept(current)
           /\ reported' = [a \in Counters |-> reported[a] + delta[a]]
           /\ windows' = Append(windows, [start |-> start, end |-> delta["end"]])
    /\ UNCHANGED <<clock, atomics, pending, queued, dispatcherVars, workerVars>>

Next ==
    \/ Tick
    \/ \E t \in {"dispatcher", "worker"} : Visible(t)
    \/ Arrive \/ RetainThrows \/ Push \/ RecordDrop
    \/ Pop \/ PublishImage \/ PublishCameraInfo \/ PublishThrows
    \/ TakeTime \/ Snapshot \/ LogRateMetrics

Spec == Init /\ [][Next]_vars

-----------------------------------------------------------------------------
(* Properties.                                                             *)

\* Every event is in exactly one window: the windows logged so far add up to a value
\* that each counter really had by then, whatever was counted between the loads.
ReportedOnce ==
    \A a \in Counters : reported[a] = previous[a] /\ reported[a] <= atomics[a]

\* The windows tile the time since the first frame: one starts where its predecessor
\* ended, and the first one at the arrival of the first frame once that is known
\* (SetFirstMonotonic's CAS; the other fields of Delta say nothing of time).
WindowsTile ==
    /\ \A i \in 2..Len(windows) :
        /\ windows[i].start = windows[i - 1].end
        /\ windows[i].start <= windows[i].end
    /\ Len(windows) > 0 /\ windows[1].start # 0 => windows[1].start = arrivals[1].monotonic

\* A logged latency misses at most the publish that was being recorded: Snapshot
\* loads publish_count_ before publish_latency_count_ and that before its sum.
LatencyCoversPublishes ==
    LET s == timer.snapshot
    IN  SnapshotTaken =>
            /\ s["latency_count"] + 1 >= s["publish"]
            /\ \A least, most \in Latencies :
                Latencies \subseteq least..most =>
                    s["latency_sum"] + most >= s["publish"] * least

\* Once the dispatcher has recorded its frames, each step from one arrival to the next
\* is in the class that the sequences on both sides of it call for, in one only, and
\* a step forward is never a regression.
ArrivalsClassified ==
    LET steps == 1..(Len(arrivals) - 1)
        \* the steps whose two frames compare as P
        Count(P(_, _)) == Cardinality({i \in steps : P(arrivals[i], arrivals[i + 1])})
        wrap(f, g) == f.sequence = MaxU64 /\ g.sequence = 0
    IN  Flushed("dispatcher") =>
        /\ atomics["duplicate"] = Count(LAMBDA f, g : f.sequence = g.sequence)
        /\ atomics["gap"] + atomics["regression"]
            = Count(LAMBDA f, g : g.sequence \notin {f.sequence, f.sequence + 1} /\ ~wrap(f, g))
        /\ atomics["regression"] <= Count(LAMBDA f, g : g.sequence < f.sequence /\ ~wrap(f, g))
        /\ atomics["ts_duplicate"] + atomics["ts_regression"]
            = Count(LAMBDA f, g : g.timestamp <= f.timestamp)

=============================================================================
