----------------------- MODULE PublicationRateProofs -----------------------
(***************************************************************************)
(* Theorems about PublicationRate: whatever is counted while the timer     *)
(* loads one atomic after the other, every event is logged once, the       *)
(* windows tile the time, and a latency comes with its publish.            *)
(***************************************************************************)
EXTENDS PublicationRate, FiniteSetTheorems, TLAPS

-----------------------------------------------------------------------------
(* The atomics, and the steps that change them.                            *)

LEMMA Loads ==
  /\ DOMAIN AllLoads = 1..14
  /\ AllLoads[1] = "source" /\ AllLoads[2] = "publish" /\ AllLoads[3] = "auxiliary"
  /\ AllLoads[4] = "drop" /\ AllLoads[5] = "failure" /\ AllLoads[6] = "gap"
  /\ AllLoads[7] = "duplicate" /\ AllLoads[8] = "regression"
  /\ AllLoads[9] = "ts_duplicate" /\ AllLoads[10] = "ts_regression"
  /\ AllLoads[11] = "latency_count" /\ AllLoads[12] = "latency_sum"
  /\ AllLoads[13] = "latency_max" /\ AllLoads[14] = "first_monotonic"
BY DEF AllLoads

LEMMA AtomicsAre ==
  /\ {"source", "publish", "auxiliary", "drop", "failure", "gap", "duplicate", "regression",
      "ts_duplicate", "ts_regression", "latency_count", "latency_sum", "latency_max",
      "first_monotonic"} = Atomics
  /\ \A a \in Atomics : \E i \in DOMAIN AllLoads : AllLoads[i] = a
<1>1. \A a : a \in Atomics <=> \E i \in DOMAIN AllLoads : AllLoads[i] = a
  BY DEF Atomics, Range
<1>2. \A i \in DOMAIN AllLoads : i \in {1, 2, 3, 4, 5, 6, 7, 8, 9, 10, 11, 12, 13, 14}
  BY Loads
<1> QED
  BY <1>1, <1>2, Loads

Threads == {"dispatcher", "worker"}
DispatcherAtomics ==
    {"source", "drop", "gap", "duplicate", "regression", "ts_duplicate", "ts_regression",
     "first_monotonic"}
WorkerAtomics == {"publish", "auxiliary", "failure", "latency_count", "latency_sum", "latency_max"}

Timers == [idle : BOOLEAN, read : 0..14, snapshot : [Atomics \cup {"end"} -> Nat]]

TypeOK ==
    /\ clock \in 1..MaxClock
    /\ atomics \in [Atomics -> Nat]
    /\ last \in SUBSET Frames
    /\ pending \in [Threads -> SUBSET (Observed \X Nat)]
    /\ pending["dispatcher"] \subseteq DispatcherAtomics \X Nat
    /\ pending["worker"] \subseteq WorkerAtomics \X Nat
    /\ hand \in BOOLEAN /\ queued \in Nat /\ closed \in BOOLEAN
    /\ worker \in {"pop", "image", "camera_info", "ended"}
    /\ timer \in Timers
    /\ previous \in [Atomics \cup {"end"} -> Nat]
    /\ arrivals \in Seq(Frames)
    /\ reported \in [Counters -> Nat]
    /\ windows \in Seq([start : Nat, end : Nat])

LEMMA UpdatedGrows ==
  ASSUME NEW a \in Nat, NEW u, u[2] \in Nat
  PROVE  Updated(a, u) \in Nat /\ Updated(a, u) >= a
<1>1. CASE u[1] = "first_monotonic"
  BY <1>1 DEF Updated
<1>2. CASE u[1] = "latency_max"
  BY <1>2 DEF Updated
<1>3. CASE u[1] \notin {"first_monotonic", "latency_max"}
  BY <1>3 DEF Updated
<1> QED
  BY <1>1, <1>2, <1>3

LEMMA SequenceClassIs ==
  ASSUME NEW before, NEW sequence
  PROVE  SequenceClass(before, sequence) \in {{}, {"duplicate"}, {"gap"}, {"regression"}}
BY DEF SequenceClass

LEMMA TimestampClassIs ==
  ASSUME NEW before, NEW timestamp
  PROVE  TimestampClass(before, timestamp) \in {{}, {"ts_duplicate"}, {"ts_regression"}}
BY DEF TimestampClass

LEMMA Pairs ==
  ASSUME NEW S, NEW T
  PROVE  /\ \A u \in S \X T : u = <<u[1], u[2]>> /\ u[1] \in S /\ u[2] \in T
         /\ \A x \in S, y \in T : <<x, y>> \in S \X T
OBVIOUS

\* What the calls add.
LEMMA SourceUpdates ==
  ASSUME TypeOK, NEW f \in Frames
  PROVE  /\ RecordSource(f) \subseteq DispatcherAtomics \X Nat
         /\ <<"first_monotonic", f.monotonic>> \in RecordSource(f)
         /\ \A u \in RecordSource(f) :
              u[1] # "drop" /\ (u[1] = "first_monotonic" => u[2] = f.monotonic)
<1> DEFINE classes == UNION {SequenceClass(l.sequence, f.sequence)
                              \cup TimestampClass(l.timestamp, f.timestamp) : l \in last}
<1>1. classes \subseteq {"duplicate", "gap", "regression", "ts_duplicate", "ts_regression"}
  BY SequenceClassIs, TimestampClassIs
<1> HIDE DEF classes
<1>2. RecordSource(f) = {<<"first_monotonic", f.monotonic>>} \cup ({"source"} \cup classes) \X {1}
  BY DEF RecordSource, Once, classes
<1>3. f.monotonic \in Nat
  BY BoundsAssumption DEF Frames
<1>4. ASSUME NEW u \in ({"source"} \cup classes) \X {1}
      PROVE  u \in DispatcherAtomics \X Nat /\ u[1] # "drop" /\ u[1] # "first_monotonic"
  <2>1. u = <<u[1], u[2]>> /\ u[1] \in {"source"} \cup classes /\ u[2] = 1
    BY Pairs
  <2>2. /\ u[1] \in DispatcherAtomics /\ u[1] # "drop" /\ u[1] # "first_monotonic"
    BY <1>1, <2>1 DEF DispatcherAtomics
  <2> QED
    BY <2>1, <2>2, Pairs
<1>5. /\ <<"first_monotonic", f.monotonic>> \in DispatcherAtomics \X Nat
      /\ <<"first_monotonic", f.monotonic>>[1] = "first_monotonic"
      /\ <<"first_monotonic", f.monotonic>>[2] = f.monotonic
  BY <1>3 DEF DispatcherAtomics
<1>6. \A u \in RecordSource(f) : \/ u = <<"first_monotonic", f.monotonic>>
                                 \/ u \in ({"source"} \cup classes) \X {1}
  BY <1>2
<1>7. <<"first_monotonic", f.monotonic>> \in RecordSource(f)
  BY <1>2
<1> QED
  BY <1>4, <1>5, <1>6, <1>7

LEMMA PublishUpdates ==
  ASSUME NEW latency_ns \in Latencies
  PROVE  /\ RecordPublishSuccess(latency_ns) \subseteq WorkerAtomics \X Nat
         /\ RecordPublishSuccess(latency_ns) =
              {<<"publish", 1>>, <<"latency_count", 1>>, <<"latency_sum", latency_ns>>,
               <<"latency_max", latency_ns>>}
<1>1. RecordPublishSuccess(latency_ns) =
        {<<"publish", 1>>, <<"latency_count", 1>>, <<"latency_sum", latency_ns>>,
         <<"latency_max", latency_ns>>}
  BY DEF RecordPublishSuccess, Once
<1> QED
  BY <1>1, MeasuresAssumption DEF WorkerAtomics

LEMMA OnceUpdates ==
  ASSUME NEW a
  PROVE  Once({a}) = {<<a, 1>>}
BY DEF Once

\* What a thread's updates leave: those that a snapshot follows wait to become visible,
\* the others are, and no atomic ever decreases.
LEMMA AddGrows ==
  ASSUME TypeOK, NEW t \in Threads, NEW updates,
         t = "dispatcher" => updates \subseteq DispatcherAtomics \X Nat,
         t = "worker" => updates \subseteq WorkerAtomics \X Nat, Add(t, updates)
  PROVE  /\ atomics' \in [Atomics -> Nat] /\ \A a \in Atomics : atomics'[a] >= atomics[a]
         /\ \A a \in Observed : atomics'[a] = atomics[a]
         /\ pending'[t] = pending[t] \cup {u \in updates : u[1] \in Observed}
         /\ \A s \in Threads : s # t => pending'[s] = pending[s]
         /\ pending' \in [Threads -> SUBSET (Observed \X Nat)]
         /\ pending'["dispatcher"] \subseteq DispatcherAtomics \X Nat
         /\ pending'["worker"] \subseteq WorkerAtomics \X Nat
<1> DEFINE followed == {u \in updates : u[1] \in Observed}
           other(a) == {u \in updates \ followed : u[1] = a}
           chosen(a) == CHOOSE u \in other(a) : TRUE
<1>1. /\ pending' = [pending EXCEPT ![t] = pending[t] \cup followed]
      /\ atomics' = [a \in Atomics |-> IF other(a) = {} THEN atomics[a]
                                       ELSE Updated(atomics[a], chosen(a))]
  BY DEF Add
<1>2. updates \subseteq (DispatcherAtomics \cup WorkerAtomics) \X Nat
  BY DEF Threads
<1>3. ASSUME NEW a, other(a) # {} PROVE chosen(a) \in updates /\ chosen(a)[2] \in Nat
  <2>1. chosen(a) \in other(a)
    BY <1>3
  <2> QED
    BY <1>2, <2>1
<1>4. \A a \in Observed : other(a) = {}
  OBVIOUS
<1>5. followed \subseteq Observed \X Nat
  BY <1>2
<1> HIDE DEF followed, other, chosen
<1>6. ASSUME NEW a \in Atomics PROVE atomics'[a] \in Nat /\ atomics'[a] >= atomics[a]
  <2>1. atomics[a] \in Nat
    BY DEF TypeOK
  <2>2. CASE other(a) = {}
    BY <1>1, <2>1, <2>2
  <2>3. CASE other(a) # {}
    BY <1>1, <1>3, <2>1, <2>3, UpdatedGrows
  <2> QED
    BY <2>2, <2>3
<1>7. pending'[t] = pending[t] \cup followed /\ \A s \in Threads : s # t => pending'[s] = pending[s]
  BY <1>1 DEF TypeOK
<1>8. followed \subseteq updates
  BY DEF followed
<1>9. /\ pending' \in [Threads -> SUBSET (Observed \X Nat)]
      /\ pending'["dispatcher"] \subseteq DispatcherAtomics \X Nat
      /\ pending'["worker"] \subseteq WorkerAtomics \X Nat
  BY <1>1, <1>5, <1>7, <1>8 DEF TypeOK, Threads
<1>10. \A a \in Observed : atomics'[a] = atomics[a]
  BY <1>1, <1>4, ObservedAssumption
<1> QED
  BY <1>1, <1>6, <1>7, <1>9, <1>10 DEF followed

Counting ==
    \/ Tick \/ \E t \in Threads : Visible(t)
    \/ Arrive \/ RetainThrows \/ Push \/ RecordDrop
    \/ Pop \/ PublishImage \/ PublishCameraInfo \/ PublishThrows

Grows == /\ atomics' \in [Atomics -> Nat] /\ \A a \in Atomics : atomics'[a] >= atomics[a]
         /\ clock' \in 1..MaxClock /\ clock' >= clock

LEMMA StaysSo == TypeOK /\ UNCHANGED <<atomics, clock>> => Grows
BY BoundsAssumption DEF TypeOK, Grows

\* An update that becomes visible.
LEMMA VisibleGrows ==
  ASSUME TypeOK, NEW t \in Threads, NEW u \in pending[t],
         atomics' = [atomics EXCEPT ![u[1]] = Updated(@, u)]
  PROVE  /\ u[1] \in Observed /\ u[2] \in Nat /\ u[1] \in Atomics
         /\ atomics'[u[1]] = Updated(atomics[u[1]], u)
         /\ \A a \in Atomics : a # u[1] => atomics'[a] = atomics[a]
         /\ atomics' \in [Atomics -> Nat] /\ \A a \in Atomics : atomics'[a] >= atomics[a]
<1>1. u[1] \in Observed /\ u[2] \in Nat
  <2>1. u \in Observed \X Nat
    BY DEF TypeOK
  <2> QED
    BY <2>1, Pairs
<1>2. u[1] \in Atomics /\ atomics[u[1]] \in Nat
  BY <1>1, ObservedAssumption DEF TypeOK
<1>3. Updated(atomics[u[1]], u) \in Nat /\ Updated(atomics[u[1]], u) >= atomics[u[1]]
  BY <1>1, <1>2, UpdatedGrows
<1>4. /\ atomics' \in [Atomics -> Nat] /\ atomics'[u[1]] = Updated(atomics[u[1]], u)
      /\ \A a \in Atomics : a # u[1] => atomics'[a] = atomics[a]
  BY <1>2, <1>3 DEF TypeOK
<1>5. \A a \in Atomics : atomics'[a] >= atomics[a]
  <2>1. \A a \in Atomics : atomics[a] \in Nat
    BY DEF TypeOK
  <2> QED
    BY <1>3, <1>4, <2>1
<1> QED
  BY <1>1, <1>2, <1>4, <1>5

LEMMA CountingStep ==
  ASSUME TypeOK, Counting
  PROVE  TypeOK' /\ Grows /\ UNCHANGED timerVars
<1>1. timerVars' = timerVars
  BY DEF Counting, Tick, Visible, Arrive, RetainThrows, Push, RecordDrop, Pop, PublishImage,
     PublishCameraInfo, PublishThrows
<1>2. /\ timer' = timer /\ previous' = previous /\ reported' = reported /\ windows' = windows
  BY <1>1 DEF timerVars
<1>3. CASE Tick
  <2>1. clock < MaxClock /\ clock' = clock + 1 /\ UNCHANGED <<atomics, pending, queued>>
        /\ UNCHANGED dispatcherVars /\ UNCHANGED workerVars
    BY <1>3 DEF Tick
  <2>2. Grows
    <3>1. clock' \in 1..MaxClock /\ clock' >= clock
      BY <2>1, BoundsAssumption DEF TypeOK
    <3>2. \A a \in Atomics : atomics[a] \in Nat /\ atomics[a] >= atomics[a]
      BY DEF TypeOK
    <3>3. atomics' = atomics /\ atomics \in [Atomics -> Nat]
      BY <2>1 DEF TypeOK
    <3> QED
      BY <3>1, <3>2, <3>3 DEF Grows
  <2> QED
    BY <1>1, <1>2, <2>1, <2>2 DEF TypeOK, dispatcherVars, workerVars, Grows
<1>4. ASSUME NEW t \in Threads, Visible(t) PROVE TypeOK' /\ Grows
  <2>1. PICK u \in pending[t] : /\ atomics' = [atomics EXCEPT ![u[1]] = Updated(@, u)]
                                /\ pending' = [pending EXCEPT ![t] = @ \ {u}]
    BY <1>4 DEF Visible
  <2>2. UNCHANGED <<clock, queued, last, hand, closed, arrivals, worker>>
    BY <1>4 DEF Visible, dispatcherVars, workerVars
  <2>3. Grows
    <3>1. atomics' \in [Atomics -> Nat] /\ \A a \in Atomics : atomics'[a] >= atomics[a]
      BY <2>1, VisibleGrows
    <3>2. clock' \in 1..MaxClock /\ clock' >= clock
      BY <2>2, BoundsAssumption DEF TypeOK
    <3> QED
      BY <3>1, <3>2 DEF Grows
  <2>4. /\ pending' \in [Threads -> SUBSET (Observed \X Nat)]
        /\ \A s \in Threads : pending'[s] \subseteq pending[s]
    BY <2>1 DEF TypeOK
  <2> QED
    BY <1>1, <1>2, <2>2, <2>3, <2>4 DEF TypeOK, Grows, Threads
<1>5. CASE Arrive
  <2>1. PICK f \in Frames : Add("dispatcher", RecordSource(f)) /\ last' = {f}
                            /\ arrivals' = Append(arrivals, f)
    BY <1>5 DEF Arrive, Remember
  <2>2. hand' = TRUE /\ UNCHANGED <<clock, queued, closed, worker>>
    BY <1>5 DEF Arrive, workerVars
  <2>3. /\ atomics' \in [Atomics -> Nat] /\ \A a \in Atomics : atomics'[a] >= atomics[a]
        /\ pending' \in [Threads -> SUBSET (Observed \X Nat)]
        /\ pending'["dispatcher"] \subseteq DispatcherAtomics \X Nat
        /\ pending'["worker"] \subseteq WorkerAtomics \X Nat
    BY <2>1, SourceUpdates, AddGrows DEF Threads
  <2>4. arrivals' \in Seq(Frames) /\ last' \in SUBSET Frames
    BY <2>1 DEF TypeOK
  <2>5. clock' \in 1..MaxClock /\ clock' >= clock
    BY <2>2, BoundsAssumption DEF TypeOK
  <2> QED
    BY <1>1, <1>2, <2>2, <2>3, <2>4, <2>5 DEF TypeOK, Grows
<1>6. CASE RetainThrows \/ Push \/ Pop
  <2>1. /\ UNCHANGED <<clock, atomics, last, pending, arrivals>>
        /\ hand' \in BOOLEAN /\ queued' \in Nat /\ closed' \in BOOLEAN
        /\ worker' \in {"pop", "image", "camera_info", "ended"}
    <3>1. CASE RetainThrows
      BY <3>1 DEF RetainThrows, dispatcherVars, workerVars, TypeOK
    <3>2. CASE Push
      <4>1. /\ UNCHANGED <<clock, atomics, last, pending, arrivals, closed, worker>>
            /\ hand' = FALSE /\ queued' = queued + 1
        BY <3>2 DEF Push, workerVars
      <4>2. hand' \in BOOLEAN /\ closed' \in BOOLEAN
        BY <4>1 DEF TypeOK
      <4>3. queued' \in Nat /\ worker' \in {"pop", "image", "camera_info", "ended"}
        BY <4>1 DEF TypeOK
      <4> QED
        BY <4>1, <4>2, <4>3
    <3>3. CASE Pop
      BY <3>3 DEF Pop, dispatcherVars, workerVars, TypeOK
    <3> QED
      BY <1>6, <3>1, <3>2, <3>3
  <2> QED
    BY <1>1, <1>2, <2>1, StaysSo DEF TypeOK
<1>7. CASE RecordDrop
  <2>1. Add("dispatcher", {<<"drop", 1>>}) /\ hand' = FALSE
        /\ UNCHANGED <<clock, last, queued, closed, arrivals, worker>>
    BY <1>7, OnceUpdates DEF RecordDrop, workerVars
  <2>2. {<<"drop", 1>>} \subseteq DispatcherAtomics \X Nat
    BY DEF DispatcherAtomics
  <2>3. /\ atomics' \in [Atomics -> Nat] /\ \A a \in Atomics : atomics'[a] >= atomics[a]
        /\ pending' \in [Threads -> SUBSET (Observed \X Nat)]
        /\ pending'["dispatcher"] \subseteq DispatcherAtomics \X Nat
        /\ pending'["worker"] \subseteq WorkerAtomics \X Nat
    BY <2>1, <2>2, AddGrows DEF Threads
  <2>4. clock' \in 1..MaxClock /\ clock' >= clock
    BY <2>1, BoundsAssumption DEF TypeOK
  <2> QED
    BY <1>1, <1>2, <2>1, <2>3, <2>4 DEF TypeOK, Grows
<1>8. CASE PublishImage \/ PublishCameraInfo \/ PublishThrows
  <2>1. /\ UNCHANGED <<clock, last, queued, hand, arrivals>>
        /\ closed' \in BOOLEAN /\ worker' \in {"pop", "image", "camera_info", "ended"}
    BY <1>8 DEF PublishImage, PublishCameraInfo, PublishThrows, dispatcherVars, TypeOK
  <2>2. \/ \E updates : updates \subseteq WorkerAtomics \X Nat /\ Add("worker", updates)
        \/ UNCHANGED <<pending, atomics>>
    <3>1. CASE PublishImage
      BY <3>1, PublishUpdates DEF PublishImage
    <3>2. CASE PublishCameraInfo \/ PublishThrows
      <4>1. {<<"auxiliary", 1>>} \subseteq WorkerAtomics \X Nat
            /\ {<<"failure", 1>>} \subseteq WorkerAtomics \X Nat
        BY DEF WorkerAtomics
      <4> QED
        BY <3>2, <4>1, OnceUpdates DEF PublishCameraInfo, PublishThrows
    <3> QED
      BY <1>8, <3>1, <3>2
  <2>3. /\ atomics' \in [Atomics -> Nat] /\ \A a \in Atomics : atomics'[a] >= atomics[a]
        /\ pending' \in [Threads -> SUBSET (Observed \X Nat)]
        /\ pending'["dispatcher"] \subseteq DispatcherAtomics \X Nat
        /\ pending'["worker"] \subseteq WorkerAtomics \X Nat
    <3>1. CASE UNCHANGED <<pending, atomics>>
      BY <3>1 DEF TypeOK
    <3>2. CASE \E updates : updates \subseteq WorkerAtomics \X Nat /\ Add("worker", updates)
      BY <3>2, AddGrows DEF Threads
    <3> QED
      BY <2>2, <3>1, <3>2
  <2>4. clock' \in 1..MaxClock /\ clock' >= clock
    BY <2>1, BoundsAssumption DEF TypeOK
  <2> QED
    BY <1>1, <1>2, <2>1, <2>3, <2>4 DEF TypeOK, Grows
<1> QED
  BY <1>1, <1>3, <1>4, <1>5, <1>6, <1>7, <1>8 DEF Counting

-----------------------------------------------------------------------------
(* The timer.                                                              *)

Counted == <<clock, atomics, pending, queued, last, hand, closed, arrivals, worker>>

LEMMA SaturatingDifference ==
  ASSUME NEW m \in Nat, NEW n \in Nat
  PROVE  /\ SaturatingSubtract(m, n) \in Nat
         /\ n <= m => SaturatingSubtract(m, n) = m - n
BY DEF SaturatingSubtract

LEMMA CountersAre ==
  /\ Counters \subseteq Observed /\ Counters \subseteq Atomics
  /\ Counters \cap {"start", "end", "latency_max", "first_monotonic"} = {}
BY ObservedAssumption, AtomicsAre DEF Counters

LEMMA DeltaIs ==
  ASSUME NEW before \in [Atomics \cup {"end"} -> Nat], NEW after \in [Atomics \cup {"end"} -> Nat]
  PROVE  /\ Delta(before, after)["start"] = before["end"]
         /\ Delta(before, after)["end"] = after["end"]
         /\ \A a \in Counters :
              Delta(before, after)[a] = SaturatingSubtract(after[a], before[a])
<1>1. \A a \in Counters : a # "start" /\ a # "end"
  BY CountersAre
<1> QED
  BY <1>1 DEF Delta

\* What LogRateMetrics logs and keeps.
LEMMA LogStep ==
  ASSUME TypeOK, LogRateMetrics
  PROVE  /\ SnapshotTaken /\ timer' = Idle /\ previous' = timer.snapshot /\ UNCHANGED Counted
         /\ reported' = [a \in Counters |->
                           reported[a] + SaturatingSubtract(timer.snapshot[a], previous[a])]
         /\ windows' = Append(windows,
                         [start |-> IF previous["end"] = 0 THEN timer.snapshot["first_monotonic"]
                                    ELSE previous["end"],
                          end |-> timer.snapshot["end"]])
<1> DEFINE current == timer.snapshot
           delta == Delta(previous, current)
           start == IF delta["start"] = 0 THEN current["first_monotonic"] ELSE delta["start"]
<1>1. /\ SnapshotTaken /\ timer' = Idle /\ previous' = current
      /\ reported' = [a \in Counters |-> reported[a] + delta[a]]
      /\ windows' = Append(windows, [start |-> start, end |-> delta["end"]])
      /\ UNCHANGED Counted
  BY DEF LogRateMetrics, Kept, dispatcherVars, workerVars, Counted
<1>2. /\ delta["start"] = previous["end"] /\ delta["end"] = current["end"]
      /\ \A a \in Counters : delta[a] = SaturatingSubtract(current[a], previous[a])
  BY DeltaIs DEF TypeOK, Timers
<1>3. [a \in Counters |-> reported[a] + delta[a]] =
        [a \in Counters |-> reported[a] + SaturatingSubtract(current[a], previous[a])]
  BY <1>2
<1> QED
  BY <1>1, <1>2, <1>3

LEMMA IdleIs == Idle \in Timers /\ NoSnapshot \in [Atomics \cup {"end"} -> Nat]
BY DEF Idle, NoSnapshot, Timers

LEMMA SnapshotStep ==
  ASSUME TypeOK, Snapshot
  PROVE  \E i \in 1..14 :
           /\ i > timer.read /\ AllLoads[i] \in Observed /\ \A j \in ToLoad : i <= j
           /\ ~timer.idle /\ ~timer'.idle /\ timer'.read = i
           /\ timer'.snapshot = [timer.snapshot EXCEPT ![AllLoads[i]] = atomics[AllLoads[i]]]
           /\ timer' \in Timers
           /\ UNCHANGED <<previous, reported, windows>> /\ UNCHANGED Counted
<1>1. PICK i \in ToLoad :
        /\ \A j \in ToLoad : i <= j
        /\ timer' = [timer EXCEPT !.read = i, !.snapshot[AllLoads[i]] = atomics[AllLoads[i]]]
  BY DEF Snapshot
<1>2. i \in 1..14 /\ i > timer.read /\ AllLoads[i] \in Observed /\ AllLoads[i] \in Atomics
  BY Loads, ObservedAssumption DEF ToLoad
<1>3. /\ timer'.idle = timer.idle /\ timer'.read = i
      /\ timer'.snapshot = [timer.snapshot EXCEPT ![AllLoads[i]] = atomics[AllLoads[i]]]
      /\ timer' \in Timers
  <2>1. /\ timer \in Timers /\ i \in 0..14 /\ AllLoads[i] \in Atomics \cup {"end"}
        /\ atomics[AllLoads[i]] \in Nat
    BY <1>2 DEF TypeOK
  <2> DEFINE s == [timer.snapshot EXCEPT ![AllLoads[i]] = atomics[AllLoads[i]]]
  <2>2. s \in [Atomics \cup {"end"} -> Nat]
    BY <2>1 DEF Timers
  <2>3. timer' = [timer EXCEPT !.read = i, !.snapshot = s]
    BY <1>1, <2>1 DEF Timers
  <2> HIDE DEF s
  <2>4. timer' \in Timers /\ timer'.idle = timer.idle /\ timer'.read = i /\ timer'.snapshot = s
    BY <2>1, <2>2, <2>3 DEF Timers
  <2> QED
    BY <2>4 DEF s
<1>4. ~timer.idle /\ UNCHANGED <<previous, reported, windows>> /\ UNCHANGED Counted
  BY DEF Snapshot, dispatcherVars, workerVars, Counted
<1> QED
  BY <1>1, <1>2, <1>3, <1>4

LEMMA TakeTimeStep ==
  ASSUME TypeOK, TakeTime
  PROVE  /\ timer.idle /\ ~timer'.idle /\ timer'.read = 0
         /\ timer'.snapshot = [NoSnapshot EXCEPT !["end"] = clock]
         /\ timer' \in Timers
         /\ UNCHANGED <<previous, reported, windows>> /\ UNCHANGED Counted
<1> DEFINE s == [NoSnapshot EXCEPT !["end"] = clock]
<1>1. clock \in Nat /\ s \in [Atomics \cup {"end"} -> Nat]
  BY BoundsAssumption, IdleIs DEF TypeOK, Timers
<1>2. timer.idle /\ timer' = [Idle EXCEPT !.idle = FALSE, !.snapshot["end"] = clock]
  BY DEF TakeTime
<1>3. timer' = [idle |-> FALSE, read |-> 0, snapshot |-> s]
  BY <1>2 DEF Idle
<1> HIDE DEF s
<1>4. timer' \in Timers /\ ~timer'.idle /\ timer'.read = 0 /\ timer'.snapshot = s
  BY <1>1, <1>3 DEF Timers
<1>5. UNCHANGED <<previous, reported, windows>> /\ UNCHANGED Counted
  BY DEF TakeTime, dispatcherVars, workerVars, Counted
<1> QED
  BY <1>2, <1>4, <1>5 DEF s

LEMMA TimerStep ==
  ASSUME TypeOK, TakeTime \/ Snapshot \/ LogRateMetrics
  PROVE  TypeOK' /\ UNCHANGED Counted
<1>1. CASE TakeTime
  BY <1>1, TakeTimeStep DEF TypeOK, Counted
<1>2. CASE Snapshot
  BY <1>2, SnapshotStep DEF TypeOK, Counted
<1>3. CASE LogRateMetrics
  <2>1. timer' \in Timers
    BY <1>3, LogStep, IdleIs
  <2>2. reported' \in [Counters -> Nat]
    <3>1. \A a \in Counters : timer.snapshot[a] \in Nat /\ previous[a] \in Nat /\ reported[a] \in Nat
      BY CountersAre DEF TypeOK, Timers
    <3>2. \A a \in Counters : SaturatingSubtract(timer.snapshot[a], previous[a]) \in Nat
      BY <3>1, SaturatingDifference
    <3> QED
      BY <1>3, <3>1, <3>2, LogStep
  <2>3. windows' \in Seq([start : Nat, end : Nat])
    <3>1. /\ timer.snapshot["first_monotonic"] \in Nat /\ timer.snapshot["end"] \in Nat
          /\ previous["end"] \in Nat /\ windows \in Seq([start : Nat, end : Nat])
      BY AtomicsAre DEF TypeOK, Timers
    <3> DEFINE start == IF previous["end"] = 0 THEN timer.snapshot["first_monotonic"]
                        ELSE previous["end"]
    <3>2. start \in Nat
      BY <3>1
    <3>3. windows' = Append(windows, [start |-> start, end |-> timer.snapshot["end"]])
      BY <1>3, LogStep
    <3> HIDE DEF start
    <3>4. [start |-> start, end |-> timer.snapshot["end"]] \in [start : Nat, end : Nat]
      BY <3>1, <3>2
    <3> QED
      BY <3>1, <3>3, <3>4
  <2>4. previous' \in [Atomics \cup {"end"} -> Nat]
    BY <1>3, LogStep DEF TypeOK, Timers
  <2> QED
    BY <1>3, <2>1, <2>2, <2>3, <2>4, LogStep DEF TypeOK, Counted
<1> QED
  BY <1>1, <1>2, <1>3

-----------------------------------------------------------------------------
(* Every event is logged once.                                             *)

\* What the snapshot has loaded lies between what the last report kept and what the
\* counter is now.
CountersOK ==
    /\ timer.idle => timer.read = 0
    /\ \A a \in Counters :
        reported[a] = previous[a] /\ previous[a] <= atomics[a] /\ timer.snapshot[a] <= atomics[a]
    /\ \A i \in 1..14 :
        AllLoads[i] \in Counters /\ i <= timer.read =>
            previous[AllLoads[i]] <= timer.snapshot[AllLoads[i]]

LEMMA CounterTypes ==
  ASSUME TypeOK, NEW a \in Counters
  PROVE  /\ atomics[a] \in Nat /\ previous[a] \in Nat /\ reported[a] \in Nat
         /\ timer.snapshot[a] \in Nat /\ a \in Atomics
BY CountersAre DEF TypeOK, Timers

\* A snapshot that is taken has loaded what is followed.
LEMMA AllLoaded ==
  ASSUME TypeOK, SnapshotTaken, NEW i \in 1..14, AllLoads[i] \in Observed
  PROVE  i <= timer.read
<1>1. timer.read \in Nat
  BY DEF TypeOK, Timers
<1> QED
  BY <1>1, Loads DEF SnapshotTaken, ToLoad

\* One load passes over nothing that is followed.
LEMMA NothingPassedOver ==
  ASSUME TypeOK, NEW i \in 1..14, \A j \in ToLoad : i <= j,
         NEW k \in 1..14, k < i, AllLoads[k] \in Observed
  PROVE  k <= timer.read
<1>1. timer.read \in Nat
  BY DEF TypeOK, Timers
<1> QED
  BY <1>1, Loads DEF ToLoad

LEMMA CountersKeep ==
  ASSUME TypeOK, CountersOK, [Next]_vars
  PROVE  CountersOK'
<1>1. CASE Grows /\ UNCHANGED timerVars
  <2>1. /\ timer' = timer /\ previous' = previous /\ reported' = reported
        /\ \A a \in Atomics : atomics'[a] >= atomics[a] /\ atomics'[a] \in Nat
    BY <1>1 DEF timerVars, Grows
  <2>2. ASSUME NEW a \in Counters
        PROVE  /\ reported'[a] = previous'[a] /\ previous'[a] <= atomics'[a]
               /\ timer'.snapshot[a] <= atomics'[a]
    <3>1. atomics'[a] >= atomics[a] /\ atomics'[a] \in Nat
      BY <2>1, CounterTypes
    <3> QED
      BY <2>1, <3>1, CounterTypes DEF CountersOK
  <2> QED
    BY <2>1, <2>2 DEF CountersOK
<1>2. CASE TakeTime
  <2>1. /\ ~timer'.idle /\ timer'.read = 0 /\ UNCHANGED <<previous, reported, atomics>>
        /\ \A a \in Counters : timer'.snapshot[a] = 0
    BY <1>2, TakeTimeStep, CountersAre DEF NoSnapshot, Counted
  <2> QED
    BY <2>1, CounterTypes DEF CountersOK
<1>3. CASE Snapshot
  <2>1. PICK i \in 1..14 :
           /\ i > timer.read /\ AllLoads[i] \in Observed /\ \A j \in ToLoad : i <= j
           /\ ~timer'.idle /\ timer'.read = i
           /\ timer'.snapshot = [timer.snapshot EXCEPT ![AllLoads[i]] = atomics[AllLoads[i]]]
           /\ UNCHANGED <<previous, reported, atomics>>
    BY <1>3, SnapshotStep DEF Counted
  <2>2. \A a \in Counters :
          timer'.snapshot[a] = IF a = AllLoads[i] THEN atomics[a] ELSE timer.snapshot[a]
    BY <2>1, CountersAre DEF TypeOK, Timers
  <2>3. ASSUME NEW a \in Counters
        PROVE  /\ reported'[a] = previous'[a] /\ previous'[a] <= atomics'[a]
               /\ timer'.snapshot[a] <= atomics'[a]
    BY <2>1, <2>2, CounterTypes DEF CountersOK
  <2>4. ASSUME NEW k \in 1..14, AllLoads[k] \in Counters, k <= i
        PROVE  previous[AllLoads[k]] <= timer'.snapshot[AllLoads[k]]
    <3>1. k = i \/ k <= timer.read
      BY <2>1, <2>4, NothingPassedOver, CountersAre
    <3> QED
      BY <2>2, <2>4, <3>1 DEF CountersOK
  <2> QED
    BY <2>1, <2>3, <2>4 DEF CountersOK
<1>4. CASE LogRateMetrics
  <2>1. /\ SnapshotTaken /\ timer' = Idle /\ previous' = timer.snapshot /\ atomics' = atomics
        /\ reported' = [a \in Counters |->
                          reported[a] + SaturatingSubtract(timer.snapshot[a], previous[a])]
    BY <1>4, LogStep DEF Counted
  <2>2. ASSUME NEW a \in Counters
        PROVE  /\ reported'[a] = previous'[a] /\ previous'[a] <= atomics'[a]
               /\ timer'.snapshot[a] <= atomics'[a]
    <3>1. previous[a] <= timer.snapshot[a] /\ timer.snapshot[a] <= atomics[a]
          /\ reported[a] = previous[a]
      <4>1. PICK i \in 1..14 : AllLoads[i] = a
        BY AtomicsAre, CountersAre, Loads
      <4> QED
        BY <2>1, <4>1, AllLoaded, CountersAre DEF CountersOK
    <3>2. reported'[a] = reported[a] + (timer.snapshot[a] - previous[a])
      BY <2>1, <3>1, CounterTypes, SaturatingDifference
    <3>3. timer'.snapshot[a] = 0
      BY <2>1, CountersAre DEF Idle, NoSnapshot
    <3> QED
      BY <2>1, <3>1, <3>2, <3>3, CounterTypes
  <2>3. timer'.read = 0
    BY <2>1 DEF Idle
  <2> QED
    BY <2>1, <2>2, <2>3 DEF CountersOK
<1>5. CASE UNCHANGED vars
  BY <1>5 DEF vars, CountersOK
<1> QED
  BY <1>1, <1>2, <1>3, <1>4, <1>5, CountingStep DEF Next, Counting, Threads

-----------------------------------------------------------------------------
(* Publishes and their latencies.                                          *)

\* The worker's updates of an atomic that are not yet visible: one at most.
Coming(a) == {u \in pending["worker"] : u[1] = a}
Counts(a) == atomics[a] + IF Coming(a) = {} THEN 0 ELSE 1

Least(least) == least \in Latencies /\ \A l \in Latencies : least <= l

\* Each publish has its latency, once what the worker did is visible.
PublishesOK ==
    /\ worker = "image" => pending["worker"] = {}
    /\ \A u \in Coming("publish") \cup Coming("latency_count") : u[2] = 1
    /\ \A u \in Coming("latency_sum") : u[2] \in Latencies /\ Coming("latency_sum") = {u}
    /\ Counts("publish") = Counts("latency_count")
    /\ \A least : Least(least) =>
        /\ Coming("latency_sum") = {} => atomics["latency_sum"] >= Counts("publish") * least
        /\ \A u \in Coming("latency_sum") :
            atomics["latency_sum"] + u[2] >= Counts("publish") * least

\* A snapshot that has loaded a latency has loaded its publish before.
LoadedOK ==
    /\ 11 <= timer.read =>
        timer.snapshot["latency_count"] + 1 >= timer.snapshot["publish"]
    /\ 12 <= timer.read =>
        \A least, most \in Latencies :
            Latencies \subseteq least..most =>
                timer.snapshot["latency_sum"] + most >= timer.snapshot["publish"] * least

LatencyAtomics == {"publish", "latency_count", "latency_sum"}

LEMMA LatencyAtomicsAre ==
  /\ LatencyAtomics \subseteq Counters /\ LatencyAtomics \subseteq Observed
  /\ LatencyAtomics \subseteq Atomics /\ LatencyAtomics \cap DispatcherAtomics = {}
BY ObservedAssumption, AtomicsAre DEF LatencyAtomics, Counters, DispatcherAtomics

\* Arithmetic that the provers need to be told.
LEMMA Times ==
  /\ \A m, n, l \in Nat : m <= n => m * l <= n * l
  /\ \A m, l \in Nat : (m + 1) * l = m * l + l /\ m * l \in Nat
<1>1. ASSUME NEW m \in Nat, NEW n \in Nat, NEW l \in Nat, m <= n PROVE m * l <= n * l
  BY <1>1
<1>2. ASSUME NEW m \in Nat, NEW l \in Nat PROVE (m + 1) * l = m * l + l /\ m * l \in Nat
  OBVIOUS
<1> QED
  BY <1>1, <1>2

LEMMA CountsTypes ==
  ASSUME TypeOK, NEW a \in LatencyAtomics
  PROVE  atomics[a] \in Nat /\ Counts(a) \in Nat
BY LatencyAtomicsAre DEF TypeOK, Counts

\* What is left alone by all but the worker.
LEMMA PublishesStay ==
  ASSUME TypeOK, PublishesOK, pending'["worker"] = pending["worker"],
         \A a \in LatencyAtomics : atomics'[a] = atomics[a],
         worker' = "image" => worker = "image" \/ pending["worker"] = {}
  PROVE  PublishesOK'
<1>1. \A a : Coming(a)' = Coming(a)
  BY DEF Coming
<1>2. \A a \in LatencyAtomics : Counts(a)' = Counts(a)
  BY <1>1 DEF Counts
<1>3. "publish" \in LatencyAtomics /\ "latency_count" \in LatencyAtomics
      /\ "latency_sum" \in LatencyAtomics
  BY DEF LatencyAtomics
<1> QED
  BY <1>1, <1>2, <1>3 DEF PublishesOK, Least

LEMMA PublishImageKeeps ==
  ASSUME TypeOK, PublishesOK, PublishImage
  PROVE  PublishesOK'
<1>1. PICK latency_ns \in Latencies : Add("worker", RecordPublishSuccess(latency_ns))
  BY DEF PublishImage
<1> DEFINE updates == RecordPublishSuccess(latency_ns)
<1>2. /\ pending["worker"] = {} /\ worker' # "image"
  BY DEF PublishImage, PublishesOK
<1>3. /\ \A a \in Observed : atomics'[a] = atomics[a]
      /\ pending'["worker"] = pending["worker"] \cup {u \in updates : u[1] \in Observed}
  BY <1>1, PublishUpdates, AddGrows DEF Threads
<1>4. updates = {<<"publish", 1>>, <<"latency_count", 1>>, <<"latency_sum", latency_ns>>,
                 <<"latency_max", latency_ns>>}
  BY PublishUpdates
<1> HIDE DEF updates
<1>5. /\ Coming("publish")' = {<<"publish", 1>>}
      /\ Coming("latency_count")' = {<<"latency_count", 1>>}
      /\ Coming("latency_sum")' = {<<"latency_sum", latency_ns>>}
  BY <1>2, <1>3, <1>4, ObservedAssumption DEF Coming
<1>6. /\ \A a \in LatencyAtomics : Coming(a) = {} /\ Counts(a) = atomics[a]
      /\ \A a \in LatencyAtomics : atomics'[a] = atomics[a] /\ atomics[a] \in Nat
  BY <1>2, <1>3, LatencyAtomicsAre, CountsTypes DEF Coming, Counts, TypeOK
<1>7. /\ Counts("publish")' = Counts("publish") + 1
      /\ Counts("latency_count")' = Counts("latency_count") + 1
  BY <1>5, <1>6 DEF Counts, LatencyAtomics
<1>8. ASSUME NEW least, Least(least)
      PROVE  atomics'["latency_sum"] + latency_ns >= Counts("publish")' * least
  <2>1. least \in Nat /\ latency_ns \in Nat /\ least <= latency_ns
    BY <1>8, MeasuresAssumption DEF Least
  <2>2. Counts("publish") \in Nat /\ atomics["latency_sum"] >= Counts("publish") * least
        /\ atomics["latency_sum"] \in Nat /\ atomics'["latency_sum"] = atomics["latency_sum"]
    BY <1>6, <1>8, CountsTypes DEF PublishesOK, LatencyAtomics
  <2>3. (Counts("publish") + 1) * least = Counts("publish") * least + least
        /\ Counts("publish") * least \in Nat
    BY <2>1, <2>2, Times
  <2> QED
    BY <1>7, <2>1, <2>2, <2>3
<1>9. /\ <<"publish", 1>>[2] = 1 /\ <<"latency_count", 1>>[2] = 1
      /\ <<"latency_sum", latency_ns>>[2] = latency_ns
  OBVIOUS
<1>10. Counts("publish") = Counts("latency_count")
  BY DEF PublishesOK
<1> QED
  BY <1>2, <1>5, <1>7, <1>8, <1>9, <1>10 DEF PublishesOK, Least

\* An update of the worker becomes visible.
LEMMA WorkerVisibleKeeps ==
  ASSUME TypeOK, PublishesOK, NEW u \in pending["worker"],
         atomics' = [atomics EXCEPT ![u[1]] = Updated(@, u)],
         pending' = [pending EXCEPT !["worker"] = @ \ {u}], worker' = worker
  PROVE  PublishesOK'
<1>1. /\ u[1] \in Atomics /\ u[2] \in Nat /\ atomics'[u[1]] = Updated(atomics[u[1]], u)
      /\ \A a \in Atomics : a # u[1] => atomics'[a] = atomics[a]
  BY VisibleGrows DEF Threads
<1>2. pending'["worker"] = pending["worker"] \ {u}
  BY DEF TypeOK, Threads
<1>3. \A a : a # u[1] => Coming(a)' = Coming(a)
  BY <1>2 DEF Coming
<1>4. Coming(u[1])' = Coming(u[1]) \ {u} /\ u \in Coming(u[1])
  BY <1>2 DEF Coming
<1>5. "publish" \in LatencyAtomics /\ "latency_count" \in LatencyAtomics
      /\ "latency_sum" \in LatencyAtomics
  BY DEF LatencyAtomics
<1>6. \A a \in LatencyAtomics : atomics[a] \in Nat /\ a \in Atomics
  BY CountsTypes, LatencyAtomicsAre
<1>7. worker' # "image"
  BY DEF PublishesOK
<1>8. ASSUME NEW a \in LatencyAtomics, a # u[1]
      PROVE  Counts(a)' = Counts(a) /\ atomics'[a] = atomics[a] /\ Coming(a)' = Coming(a)
  BY <1>1, <1>3, <1>6, <1>8 DEF Counts
<1>9. CASE u[1] \in {"publish", "latency_count"}
  <2>1. u[2] = 1 /\ \A v \in Coming(u[1]) : v = u
    <3>1. \A v \in Coming(u[1]) : v[2] = 1 /\ v[1] = u[1] /\ v = <<v[1], v[2]>>
      <4>1. \A v \in Coming(u[1]) : v[2] = 1 /\ v[1] = u[1]
        BY <1>9 DEF PublishesOK, Coming
      <4>2. \A v \in Coming(u[1]) : v \in WorkerAtomics \X Nat
        BY DEF Coming, TypeOK
      <4> QED
        BY <4>1, <4>2, Pairs
    <3> QED
      BY <1>4, <3>1
  <2>2. Coming(u[1])' = {} /\ Coming(u[1]) # {}
    BY <1>4, <2>1
  <2>3. atomics'[u[1]] = atomics[u[1]] + 1
    BY <1>1, <1>9, <2>1 DEF Updated
  <2>4. Counts(u[1])' = Counts(u[1])
    BY <1>6, <1>9, <1>5, <2>2, <2>3 DEF Counts
  <2>5. \A a \in LatencyAtomics : Counts(a)' = Counts(a)
    BY <1>8, <2>4
  <2>6. /\ Coming("latency_sum")' = Coming("latency_sum")
        /\ atomics'["latency_sum"] = atomics["latency_sum"]
    BY <1>5, <1>8, <1>9
  <2>7. \A a \in LatencyAtomics : Coming(a)' \subseteq Coming(a)
    BY <1>4, <1>8
  <2> QED
    BY <1>5, <1>7, <2>5, <2>6, <2>7 DEF PublishesOK, Least
<1>10. CASE u[1] = "latency_sum"
  <2>1. u[2] \in Latencies /\ Coming("latency_sum") = {u} /\ Coming("latency_sum")' = {}
    BY <1>4, <1>10 DEF PublishesOK
  <2>2. atomics'["latency_sum"] = atomics["latency_sum"] + u[2]
    BY <1>1, <1>10 DEF Updated
  <2>3. \A a \in {"publish", "latency_count"} : Counts(a)' = Counts(a) /\ Coming(a)' = Coming(a)
    BY <1>5, <1>8, <1>10
  <2> QED
    BY <1>7, <2>1, <2>2, <2>3 DEF PublishesOK, Least
<1>11. CASE u[1] \notin LatencyAtomics
  BY <1>5, <1>7, <1>8, <1>11 DEF PublishesOK, Least
<1> QED
  BY <1>9, <1>10, <1>11 DEF LatencyAtomics

\* The worker's updates that are not of a latency.
LEMMA OtherUpdateKeeps ==
  ASSUME TypeOK, PublishesOK, NEW a \in {"auxiliary", "failure"}, Add("worker", Once({a})),
         worker' # "image"
  PROVE  PublishesOK'
<1>1. {<<a, 1>>} \subseteq WorkerAtomics \X Nat
  BY DEF WorkerAtomics
<1>2. /\ \A b \in Observed : atomics'[b] = atomics[b]
      /\ pending'["worker"] = pending["worker"] \cup {u \in {<<a, 1>>} : u[1] \in Observed}
  BY <1>1, OnceUpdates, AddGrows DEF Threads
<1>3. \A b \in LatencyAtomics : b # a /\ Coming(b)' = Coming(b)
  BY <1>2 DEF Coming, LatencyAtomics
<1>4. \A b \in LatencyAtomics : atomics'[b] = atomics[b] /\ Counts(b)' = Counts(b)
  BY <1>2, <1>3, LatencyAtomicsAre DEF Counts
<1>5. "publish" \in LatencyAtomics /\ "latency_count" \in LatencyAtomics
      /\ "latency_sum" \in LatencyAtomics
  BY DEF LatencyAtomics
<1> QED
  BY <1>3, <1>4, <1>5 DEF PublishesOK, Least

LEMMA PublishesKeep ==
  ASSUME TypeOK, PublishesOK, [Next]_vars
  PROVE  PublishesOK'
<1>1. CASE Tick \/ RetainThrows \/ Push \/ Pop
  <2>1. /\ UNCHANGED <<atomics, pending>>
        /\ worker' = "image" => worker = "image" \/ pending["worker"] = {}
    BY <1>1 DEF Tick, RetainThrows, Push, Pop, workerVars, Flushed
  <2> QED
    BY <2>1, PublishesStay
<1>2. CASE TakeTime \/ Snapshot \/ LogRateMetrics \/ UNCHANGED vars
  <2>1. UNCHANGED <<atomics, pending, worker>>
    BY <1>2, TimerStep DEF Counted, vars
  <2> QED
    BY <2>1, PublishesStay
<1>3. CASE Arrive \/ RecordDrop
  <2>1. worker' = worker
    BY <1>3 DEF Arrive, RecordDrop, workerVars
  <2>2. \E updates : updates \subseteq DispatcherAtomics \X Nat /\ Add("dispatcher", updates)
    <3>1. CASE Arrive
      BY <3>1, SourceUpdates DEF Arrive
    <3>2. CASE RecordDrop
      <4>1. {<<"drop", 1>>} \subseteq DispatcherAtomics \X Nat
        BY DEF DispatcherAtomics
      <4> QED
        BY <3>2, <4>1, OnceUpdates DEF RecordDrop
    <3> QED
      BY <1>3, <3>1, <3>2
  <2>3. /\ pending'["worker"] = pending["worker"]
        /\ \A a \in Observed : atomics'[a] = atomics[a]
    BY <2>2, AddGrows DEF Threads
  <2> QED
    BY <2>1, <2>3, PublishesStay, LatencyAtomicsAre
<1>4. ASSUME Visible("dispatcher") PROVE PublishesOK'
  <2>1. PICK u \in pending["dispatcher"] :
           /\ atomics' = [atomics EXCEPT ![u[1]] = Updated(@, u)]
           /\ pending' = [pending EXCEPT !["dispatcher"] = @ \ {u}]
    BY <1>4 DEF Visible
  <2>2. u[1] \in DispatcherAtomics
    BY Pairs DEF TypeOK
  <2>3. \A a \in LatencyAtomics : atomics'[a] = atomics[a]
    BY <2>1, <2>2, VisibleGrows, LatencyAtomicsAre DEF Threads
  <2>4. pending'["worker"] = pending["worker"] /\ worker' = worker
    BY <1>4, <2>1 DEF TypeOK, Threads, Visible, workerVars
  <2> QED
    BY <2>3, <2>4, PublishesStay
<1>5. ASSUME Visible("worker") PROVE PublishesOK'
  BY <1>5, WorkerVisibleKeeps DEF Visible, workerVars
<1>6. CASE PublishImage
  BY <1>6, PublishImageKeeps
<1>7. CASE PublishCameraInfo
  BY <1>7, OtherUpdateKeeps DEF PublishCameraInfo
<1>8. CASE PublishThrows
  <2>1. worker' = "ended" /\ (Add("worker", Once({"failure"})) \/ UNCHANGED <<pending, atomics>>)
    BY <1>8 DEF PublishThrows
  <2> QED
    BY <2>1, OtherUpdateKeeps, PublishesStay
<1> QED
  BY <1>1, <1>2, <1>3, <1>4, <1>5, <1>6, <1>7, <1>8 DEF Next

LEMMA LoadedKeep ==
  ASSUME TypeOK, CountersOK, PublishesOK, LoadedOK, [Next]_vars
  PROVE  LoadedOK'
<1>1. CASE UNCHANGED timer
  BY <1>1 DEF LoadedOK
<1>2. CASE timer'.read = 0
  BY <1>2 DEF LoadedOK
<1>3. CASE Snapshot
  <2>1. PICK i \in 1..14 :
           /\ i > timer.read /\ AllLoads[i] \in Observed /\ timer'.read = i
           /\ timer'.snapshot = [timer.snapshot EXCEPT ![AllLoads[i]] = atomics[AllLoads[i]]]
           /\ \A j \in ToLoad : i <= j
    BY <1>3, SnapshotStep
  <2>2. /\ \A a \in Counters :
              timer'.snapshot[a] = IF a = AllLoads[i] THEN atomics[a] ELSE timer.snapshot[a]
        /\ LatencyAtomics \subseteq Counters /\ timer.read \in Nat
    BY <2>1, CountersAre, LatencyAtomicsAre DEF TypeOK, Timers
  <2> DEFINE s == timer.snapshot
             t == timer'.snapshot
  <2>3. /\ \A a \in LatencyAtomics : s[a] \in Nat /\ atomics[a] \in Nat /\ s[a] <= atomics[a]
        /\ \A a \in LatencyAtomics : t[a] = IF a = AllLoads[i] THEN atomics[a] ELSE s[a]
    BY <2>2, CounterTypes DEF CountersOK
  <2> HIDE DEF s, t
  <2>4. 11 <= i => t["latency_count"] + 1 >= t["publish"]
    <3>1. CASE i = 11
      <4>1. t["latency_count"] = atomics["latency_count"] /\ t["publish"] = s["publish"]
        BY <2>3, <3>1, Loads DEF LatencyAtomics
      <4>2. atomics["latency_count"] + 1 >= atomics["publish"]
        BY <2>3 DEF PublishesOK, Counts, LatencyAtomics
      <4>3. s["publish"] <= atomics["publish"] /\ s["publish"] \in Nat
            /\ atomics["publish"] \in Nat /\ atomics["latency_count"] \in Nat
        BY <2>3 DEF LatencyAtomics
      <4> QED
        BY <4>1, <4>2, <4>3
    <3>2. CASE i > 11
      <4>1. 11 <= timer.read
        BY <2>1, <2>2, <3>2, Loads, ObservedAssumption DEF ToLoad
      <4>2. t["latency_count"] = s["latency_count"] /\ t["publish"] = s["publish"]
        <5>1. i \in {12, 13, 14}
          BY <3>2
        <5> QED
          BY <2>3, <5>1, Loads DEF LatencyAtomics
      <4> QED
        BY <4>1, <4>2 DEF LoadedOK, s
    <3> QED
      BY <3>1, <3>2
  <2>5. ASSUME 12 <= i, NEW least \in Latencies, NEW most \in Latencies,
               Latencies \subseteq least..most
        PROVE  t["latency_sum"] + most >= t["publish"] * least
    <3>1. least \in Nat /\ most \in Nat /\ Least(least) /\ \A l \in Latencies : l \in Nat /\ l <= most
      BY <2>5, MeasuresAssumption DEF Least
    <3>2. CASE i = 12
      <4>1. t["latency_sum"] = atomics["latency_sum"] /\ t["publish"] = s["publish"]
        BY <2>3, <3>2, Loads DEF LatencyAtomics
      <4>2. /\ s["publish"] \in Nat /\ s["publish"] <= Counts("publish") /\ Counts("publish") \in Nat
            /\ atomics["latency_sum"] \in Nat
        BY <2>3, CountsTypes DEF LatencyAtomics, Counts
      <4>3. s["publish"] * least <= Counts("publish") * least
            /\ s["publish"] * least \in Nat /\ Counts("publish") * least \in Nat
        BY <3>1, <4>2, Times
      <4>4. atomics["latency_sum"] + most >= Counts("publish") * least
        <5>1. CASE Coming("latency_sum") = {}
          BY <3>1, <4>2, <4>3, <5>1 DEF PublishesOK
        <5>2. ASSUME NEW u \in Coming("latency_sum")
              PROVE  atomics["latency_sum"] + most >= Counts("publish") * least
          <6>1. u[2] \in Latencies /\ atomics["latency_sum"] + u[2] >= Counts("publish") * least
            BY <3>1, <5>2 DEF PublishesOK
          <6>2. u[2] \in Nat /\ u[2] <= most /\ most \in Nat /\ atomics["latency_sum"] \in Nat
            BY <3>1, <4>2, <6>1
          <6> DEFINE product == Counts("publish") * least
          <6>3. product \in Nat /\ atomics["latency_sum"] + u[2] >= product
            BY <4>3, <6>1
          <6> HIDE DEF product
          <6>4. atomics["latency_sum"] + most >= product
            BY <6>2, <6>3
          <6> QED
            BY <6>4 DEF product
        <5> QED
          BY <5>1, <5>2
      <4> QED
        BY <3>1, <4>1, <4>2, <4>3, <4>4
    <3>3. CASE i > 12
      <4>1. 12 <= timer.read
        BY <2>1, <2>2, <3>3, Loads, ObservedAssumption DEF ToLoad
      <4>2. t["latency_sum"] = s["latency_sum"] /\ t["publish"] = s["publish"]
        <5>1. i \in {13, 14}
          BY <3>3
        <5> QED
          BY <2>3, <5>1, Loads DEF LatencyAtomics
      <4> QED
        BY <2>5, <4>1, <4>2 DEF LoadedOK, s
    <3> QED
      BY <2>5, <3>2, <3>3
  <2> QED
    BY <2>1, <2>4, <2>5 DEF LoadedOK, t
<1> QED
  BY <1>1, <1>2, <1>3, CountingStep, TakeTimeStep, LogStep
     DEF Next, Counting, Threads, timerVars, vars, Idle

-----------------------------------------------------------------------------
(* The start of the first window, and where the windows meet.              *)

First == atomics["first_monotonic"]
\* n is the arrival of the first frame, if it is known at all.
FirstArrival(n) == n # 0 => arrivals # << >> /\ n = arrivals[1].monotonic

\* Of the CAS from 0, the first frame's wins: the dispatcher's next frame comes when the
\* update is visible.
FirstOK ==
    /\ FirstArrival(First) /\ FirstArrival(timer.snapshot["first_monotonic"])
    /\ \A u \in pending["dispatcher"] :
        u[1] = "first_monotonic" /\ First = 0 => arrivals # << >> /\ u[2] = arrivals[1].monotonic
    /\ arrivals # << >> /\ First = 0 =>
        /\ hand \/ closed
        /\ \E u \in pending["dispatcher"] : u[1] = "first_monotonic"

WindowsOK ==
    /\ previous["end"] <= clock
    /\ ~timer.idle => /\ timer.snapshot["end"] \in 1..clock
                      /\ previous["end"] <= timer.snapshot["end"]
    /\ windows = << >> => previous["end"] = 0
    /\ windows # << >> => previous["end"] # 0 /\ previous["end"] = windows[Len(windows)].end
    /\ \A i \in 2..Len(windows) :
        windows[i].start = windows[i - 1].end /\ windows[i].start <= windows[i].end
    /\ windows # << >> => FirstArrival(windows[1].start)

LEMMA FirstFollowed ==
  /\ "first_monotonic" \in Observed /\ "first_monotonic" \in Atomics
  /\ "first_monotonic" \notin WorkerAtomics
BY ObservedAssumption DEF WorkerAtomics

LEMMA FrameTimes == \A f \in Frames : f.monotonic \in Nat /\ f.monotonic # 0
BY BoundsAssumption DEF Frames

LEMMA Appended ==
  ASSUME NEW S, NEW s \in Seq(S), NEW e \in S
  PROVE  /\ Append(s, e) \in Seq(S) /\ Append(s, e) # << >> /\ Len(Append(s, e)) = Len(s) + 1
         /\ s = << >> => Append(s, e)[1] = e
         /\ s # << >> => Append(s, e)[1] = s[1]
         /\ Append(s, e)[Len(s) + 1] = e
         /\ \A i \in 1..Len(s) : Append(s, e)[i] = s[i]
         /\ Len(s) \in Nat /\ (s # << >> <=> Len(s) > 0) /\ (s # << >> => s[1] \in S)
OBVIOUS

\* The start is left alone by all but the dispatcher and the timer.
LEMMA FirstStays ==
  ASSUME FirstOK, First' = First, pending'["dispatcher"] = pending["dispatcher"],
         UNCHANGED <<arrivals, hand>>, closed => closed',
         FirstArrival(timer'.snapshot["first_monotonic"])
  PROVE  FirstOK'
BY DEF FirstOK, FirstArrival

LEMMA ArriveKeepsFirst ==
  ASSUME TypeOK, FirstOK, Arrive
  PROVE  FirstOK'
<1>1. PICK f \in Frames : /\ Add("dispatcher", RecordSource(f))
                          /\ arrivals' = Append(arrivals, f)
  BY DEF Arrive
<1>2. ~hand /\ ~closed /\ hand' = TRUE /\ timer' = timer
  BY DEF Arrive, timerVars
<1>3. /\ First' = First
      /\ pending'["dispatcher"] =
           pending["dispatcher"] \cup {u \in RecordSource(f) : u[1] \in Observed}
  BY <1>1, SourceUpdates, AddGrows, FirstFollowed DEF Threads, First
<1>4. /\ <<"first_monotonic", f.monotonic>> \in pending'["dispatcher"]
      /\ \A u \in pending'["dispatcher"] \ pending["dispatcher"] :
           u[1] = "first_monotonic" => u[2] = f.monotonic
  BY <1>3, SourceUpdates, FirstFollowed
<1>5. arrivals \in Seq(Frames)
  BY DEF TypeOK
<1>6. arrivals' # << >> /\ (arrivals = << >> => arrivals'[1] = f)
      /\ (arrivals # << >> => arrivals'[1] = arrivals[1])
  BY <1>1, <1>5, Appended
<1>7. CASE arrivals = << >>
  <2>1. First = 0 /\ timer.snapshot["first_monotonic"] = 0
        /\ \A u \in pending["dispatcher"] : u[1] # "first_monotonic"
    BY <1>7 DEF FirstOK, FirstArrival
  <2>2. \A u \in pending'["dispatcher"] : u[1] = "first_monotonic" => u[2] = arrivals'[1].monotonic
    BY <1>4, <1>6, <1>7, <2>1
  <2>3. \E u \in pending'["dispatcher"] : u[1] = "first_monotonic"
    BY <1>4
  <2> QED
    BY <1>2, <1>3, <1>6, <2>1, <2>2, <2>3 DEF FirstOK, FirstArrival
<1>8. CASE arrivals # << >>
  <2>1. First # 0
    BY <1>2, <1>8 DEF FirstOK
  <2> QED
    BY <1>2, <1>3, <1>6, <1>8, <2>1 DEF FirstOK, FirstArrival
<1> QED
  BY <1>7, <1>8

LEMMA VisibleKeepsFirst ==
  ASSUME TypeOK, FirstOK, NEW t \in Threads, Visible(t)
  PROVE  FirstOK'
<1>1. PICK u \in pending[t] : /\ atomics' = [atomics EXCEPT ![u[1]] = Updated(@, u)]
                              /\ pending' = [pending EXCEPT ![t] = @ \ {u}]
  BY DEF Visible
<1>2. UNCHANGED <<arrivals, hand, closed, timer>>
  BY DEF Visible, dispatcherVars, timerVars
<1>3. /\ u[1] \in Atomics /\ u[2] \in Nat /\ atomics'[u[1]] = Updated(atomics[u[1]], u)
      /\ \A a \in Atomics : a # u[1] => atomics'[a] = atomics[a]
  BY <1>1, VisibleGrows
<1>4. CASE u[1] # "first_monotonic"
  <2>1. First' = First
    BY <1>3, <1>4, FirstFollowed DEF First
  <2>2. /\ pending'["dispatcher"] \subseteq pending["dispatcher"]
        /\ \A v \in pending["dispatcher"] : v[1] = "first_monotonic" => v \in pending'["dispatcher"]
    BY <1>1, <1>4 DEF TypeOK, Threads
  <2> QED
    BY <1>2, <2>1, <2>2 DEF FirstOK, FirstArrival
<1>5. CASE u[1] = "first_monotonic"
  <2>1. t = "dispatcher"
    <3>1. u \in pending["worker"] => u[1] \in WorkerAtomics
      BY Pairs DEF TypeOK
    <3> QED
      BY <1>5, <3>1, FirstFollowed DEF Threads
  <2>2. First' = IF First = 0 THEN u[2] ELSE First
    BY <1>3, <1>5 DEF Updated, First
  <2>3. pending'["dispatcher"] \subseteq pending["dispatcher"]
    BY <1>1, <2>1 DEF TypeOK, Threads
  <2>4. CASE First = 0
    <3>1. arrivals # << >> /\ u[2] = arrivals[1].monotonic
      BY <1>5, <2>1, <2>4 DEF FirstOK
    <3>2. u[2] # 0
      BY <3>1, FrameTimes, Appended DEF TypeOK
    <3> QED
      BY <1>2, <2>2, <2>4, <3>1, <3>2 DEF FirstOK, FirstArrival
  <2>5. CASE First # 0
    BY <1>2, <2>2, <2>5 DEF FirstOK, FirstArrival
  <2> QED
    BY <2>4, <2>5
<1> QED
  BY <1>4, <1>5

\* An update of another atomic.
LEMMA AddKeepsFirst ==
  ASSUME TypeOK, FirstOK, NEW t \in Threads, NEW updates, Add(t, updates),
         t = "dispatcher" => updates = {<<"drop", 1>>},
         t = "worker" => updates \subseteq WorkerAtomics \X Nat,
         UNCHANGED <<arrivals, timer>>, closed => closed',
         hand' = hand \/ pending["dispatcher"] = {}
  PROVE  FirstOK'
<1>1. {<<"drop", 1>>} \subseteq DispatcherAtomics \X Nat
  BY DEF DispatcherAtomics
<1>2. /\ First' = First
      /\ pending'[t] = pending[t] \cup {u \in updates : u[1] \in Observed}
      /\ \A s \in Threads : s # t => pending'[s] = pending[s]
  BY <1>1, AddGrows, FirstFollowed DEF First
<1>3. /\ pending["dispatcher"] \subseteq pending'["dispatcher"]
      /\ \A u \in pending'["dispatcher"] : u \in pending["dispatcher"] \/ u = <<"drop", 1>>
  BY <1>2 DEF Threads
<1>4. \A u \in pending'["dispatcher"] : u[1] = "first_monotonic" => u \in pending["dispatcher"]
  BY <1>3
<1> QED
  BY <1>2, <1>3, <1>4 DEF FirstOK, FirstArrival

LEMMA FirstKeeps ==
  ASSUME TypeOK, FirstOK, [Next]_vars
  PROVE  FirstOK'
<1>1. CASE Arrive
  BY <1>1, ArriveKeepsFirst
<1>2. CASE \E t \in {"dispatcher", "worker"} : Visible(t)
  BY <1>2, VisibleKeepsFirst DEF Threads
<1>3. CASE Tick \/ RetainThrows \/ Push \/ Pop \/ UNCHANGED vars
  <2>1. /\ UNCHANGED <<atomics, pending, arrivals, timer>> /\ (closed => closed')
        /\ hand' = hand \/ closed' \/ pending["dispatcher"] = {}
    BY <1>3 DEF Tick, RetainThrows, Push, Pop, vars, dispatcherVars, timerVars, Flushed
  <2> QED
    BY <2>1 DEF FirstOK, FirstArrival, First
<1>4. CASE RecordDrop
  BY <1>4, AddKeepsFirst, OnceUpdates DEF RecordDrop, Flushed, Threads, timerVars
<1>5. CASE PublishImage \/ PublishCameraInfo \/ PublishThrows
  <2>1. UNCHANGED <<arrivals, timer, hand>> /\ (closed => closed')
    BY <1>5 DEF PublishImage, PublishCameraInfo, PublishThrows, dispatcherVars, timerVars
  <2>2. {<<"auxiliary", 1>>} \subseteq WorkerAtomics \X Nat
        /\ {<<"failure", 1>>} \subseteq WorkerAtomics \X Nat
    BY DEF WorkerAtomics
  <2>3. \/ \E updates : updates \subseteq WorkerAtomics \X Nat /\ Add("worker", updates)
        \/ UNCHANGED <<pending, atomics>>
    BY <1>5, <2>2, PublishUpdates, OnceUpdates DEF PublishImage, PublishCameraInfo, PublishThrows
  <2>4. CASE UNCHANGED <<pending, atomics>>
    BY <2>1, <2>4 DEF FirstOK, FirstArrival, First
  <2>5. CASE \E updates : updates \subseteq WorkerAtomics \X Nat /\ Add("worker", updates)
    BY <2>1, <2>5, AddKeepsFirst DEF Threads
  <2> QED
    BY <2>3, <2>4, <2>5
<1>6. CASE TakeTime \/ Snapshot \/ LogRateMetrics
  <2>1. UNCHANGED <<atomics, pending, arrivals, hand, closed>>
    BY <1>6, TimerStep DEF Counted
  <2>2. FirstArrival(timer'.snapshot["first_monotonic"])
    <3>1. CASE TakeTime
      <4>1. timer'.snapshot["first_monotonic"] = 0
        BY <3>1, TakeTimeStep, FirstFollowed, AtomicsAre DEF NoSnapshot
      <4> QED
        BY <4>1 DEF FirstArrival
    <3>2. CASE LogRateMetrics
      <4>1. timer'.snapshot["first_monotonic"] = 0
        BY <3>2, LogStep, FirstFollowed DEF NoSnapshot, Idle
      <4> QED
        BY <4>1 DEF FirstArrival
    <3>3. CASE Snapshot
      <4>1. timer'.snapshot["first_monotonic"] \in {First, timer.snapshot["first_monotonic"]}
        BY <3>3, SnapshotStep, FirstFollowed DEF TypeOK, Timers, First
      <4> QED
        BY <4>1 DEF FirstOK
    <3> QED
      BY <1>6, <3>1, <3>2, <3>3
  <2> QED
    BY <2>1, <2>2, FirstStays DEF First
<1> QED
  BY <1>1, <1>2, <1>3, <1>4, <1>5, <1>6 DEF Next

LEMMA WindowsKeep ==
  ASSUME TypeOK, FirstOK, WindowsOK, [Next]_vars
  PROVE  WindowsOK'
<1>1. CASE UNCHANGED timerVars /\ Grows
  <2>1. /\ timer' = timer /\ previous' = previous /\ windows' = windows
        /\ clock' \in Nat /\ clock \in Nat /\ clock' >= clock
    BY <1>1, BoundsAssumption DEF timerVars, Grows, TypeOK
  <2>2. \A n : FirstArrival(n) => FirstArrival(n)'
    <3>1. arrivals' = arrivals \/ \E f \in Frames : arrivals' = Append(arrivals, f)
      BY DEF Next, vars, Tick, Visible, Arrive, RetainThrows, Push, RecordDrop, Pop, PublishImage,
         PublishCameraInfo, PublishThrows, TakeTime, Snapshot, LogRateMetrics, dispatcherVars
    <3>2. arrivals # << >> => arrivals' # << >> /\ arrivals'[1] = arrivals[1]
      BY <3>1, Appended DEF TypeOK
    <3> QED
      BY <3>2 DEF FirstArrival
  <2>3. previous["end"] \in Nat /\ timer.snapshot["end"] \in Nat
    BY DEF TypeOK, Timers
  <2> QED
    BY <2>1, <2>2, <2>3 DEF WindowsOK
<1>2. CASE TakeTime
  <2>1. /\ UNCHANGED <<previous, windows, arrivals, clock>>
        /\ ~timer'.idle /\ timer'.snapshot["end"] = clock
    BY <1>2, TakeTimeStep DEF Counted, NoSnapshot
  <2>2. clock \in 1..clock
    BY BoundsAssumption DEF TypeOK
  <2> QED
    BY <2>1, <2>2 DEF WindowsOK, FirstArrival
<1>3. CASE Snapshot
  <2>1. /\ UNCHANGED <<previous, windows, arrivals, clock>>
        /\ ~timer.idle /\ ~timer'.idle /\ timer'.snapshot["end"] = timer.snapshot["end"]
    <3>1. \A a \in Observed : a # "end"
      BY ObservedAssumption, AtomicsAre
    <3> QED
      BY <1>3, <3>1, SnapshotStep DEF Counted, TypeOK, Timers
  <2> QED
    BY <2>1 DEF WindowsOK, FirstArrival
<1>4. CASE LogRateMetrics
  <2> DEFINE w == [start |-> IF previous["end"] = 0 THEN timer.snapshot["first_monotonic"]
                             ELSE previous["end"],
                   end |-> timer.snapshot["end"]]
  <2>1. /\ ~timer.idle /\ timer' = Idle /\ previous' = timer.snapshot
        /\ windows' = Append(windows, w) /\ UNCHANGED <<arrivals, clock>>
    BY <1>4, LogStep DEF Counted, SnapshotTaken
  <2>2. /\ timer.snapshot["end"] \in Nat /\ timer.snapshot["first_monotonic"] \in Nat
        /\ previous["end"] \in Nat /\ clock \in Nat /\ windows \in Seq([start : Nat, end : Nat])
    BY FirstFollowed, BoundsAssumption DEF TypeOK, Timers
  <2>3. /\ timer.snapshot["end"] # 0 /\ timer.snapshot["end"] <= clock
        /\ previous["end"] <= timer.snapshot["end"]
    BY <2>1 DEF WindowsOK
  <2>4. /\ w.end = timer.snapshot["end"]
        /\ previous["end"] = 0 => w.start = timer.snapshot["first_monotonic"]
        /\ previous["end"] # 0 => w.start = previous["end"]
        /\ w \in [start : Nat, end : Nat]
    BY <2>2
  <2> HIDE DEF w
  <2>5. /\ windows' # << >> /\ Len(windows') = Len(windows) + 1 /\ Len(windows) \in Nat
        /\ windows'[Len(windows) + 1] = w /\ (windows # << >> <=> Len(windows) > 0)
        /\ \A i \in 1..Len(windows) : windows'[i] = windows[i]
        /\ windows = << >> => windows'[1] = w
        /\ windows # << >> => windows'[1] = windows[1]
    BY <2>1, <2>2, <2>4, Appended
  <2>6. ASSUME NEW i \in 2..Len(windows')
        PROVE  /\ windows'[i].start = windows'[i - 1].end
               /\ windows'[i].start <= windows'[i].end
    <3>1. CASE i = Len(windows) + 1
      <4>1. windows # << >> /\ windows'[i] = w /\ windows'[i - 1] = windows[Len(windows)]
        BY <2>5, <2>6, <3>1
      <4> QED
        BY <2>3, <2>4, <4>1 DEF WindowsOK
    <3>2. CASE i # Len(windows) + 1
      <4>1. i \in 2..Len(windows) /\ windows'[i] = windows[i] /\ windows'[i - 1] = windows[i - 1]
        BY <2>5, <2>6, <3>2
      <4> QED
        BY <4>1 DEF WindowsOK
    <3> QED
      BY <3>1, <3>2
  <2>7. FirstArrival(windows[1].start)'
    <3>1. FirstArrival(windows'[1].start)
      BY <2>4, <2>5 DEF WindowsOK, FirstOK
    <3> QED
      BY <2>1, <3>1 DEF FirstArrival
  <2>8. windows'[Len(windows')].end = timer.snapshot["end"]
    BY <2>4, <2>5
  <2>9. timer'.idle /\ previous'["end"] = timer.snapshot["end"] /\ clock' = clock
    BY <2>1 DEF Idle
  <2> QED
    BY <2>3, <2>5, <2>6, <2>7, <2>8, <2>9 DEF WindowsOK
<1>5. CASE UNCHANGED vars
  BY <1>5 DEF vars, WindowsOK, FirstArrival
<1> QED
  BY <1>1, <1>2, <1>3, <1>4, <1>5, CountingStep DEF Next, Counting, Threads

-----------------------------------------------------------------------------
(* The invariant.                                                          *)

IInv == TypeOK /\ CountersOK /\ PublishesOK /\ LoadedOK /\ FirstOK /\ WindowsOK

LEMMA TypeKeeps ==
  ASSUME TypeOK, [Next]_vars
  PROVE  TypeOK'
<1>1. CASE UNCHANGED vars
  BY <1>1 DEF vars, TypeOK
<1>2. CASE Counting
  BY <1>2, CountingStep
<1>3. CASE TakeTime \/ Snapshot \/ LogRateMetrics
  BY <1>3, TimerStep
<1> QED
  BY <1>1, <1>2, <1>3 DEF Next, Counting, Threads

LEMMA Initially == Init => IInv
<1> SUFFICES ASSUME Init PROVE IInv
  OBVIOUS
<1>1. /\ timer = Idle /\ previous = NoSnapshot /\ windows = << >> /\ arrivals = << >>
      /\ pending = [t \in Threads |-> {}] /\ clock = 1 /\ worker = "pop"
      /\ atomics = [a \in Atomics |-> 0] /\ reported = [a \in Counters |-> 0]
  BY DEF Init, Threads
<1>2. TypeOK
  <2>1. timer \in Timers /\ previous \in [Atomics \cup {"end"} -> Nat]
    BY <1>1, IdleIs
  <2>2. /\ pending \in [Threads -> SUBSET (Observed \X Nat)]
        /\ pending["dispatcher"] = {} /\ pending["worker"] = {}
    BY <1>1 DEF Threads
  <2>3. clock \in 1..MaxClock
    BY <1>1, BoundsAssumption
  <2>4. arrivals \in Seq(Frames) /\ windows \in Seq([start : Nat, end : Nat])
    BY <1>1
  <2>5. atomics \in [Atomics -> Nat] /\ reported \in [Counters -> Nat]
    BY <1>1
  <2>6. /\ last = {} /\ hand \in BOOLEAN /\ queued \in Nat /\ closed \in BOOLEAN
        /\ worker \in {"pop", "image", "camera_info", "ended"}
    BY DEF Init
  <2> QED
    BY <2>1, <2>2, <2>3, <2>4, <2>5, <2>6 DEF TypeOK
<1>3. /\ timer.idle /\ timer.read = 0
      /\ \A a \in Atomics \cup {"end"} : timer.snapshot[a] = 0 /\ previous[a] = 0
      /\ \A a \in Atomics : atomics[a] = 0
      /\ pending["dispatcher"] = {} /\ pending["worker"] = {}
  BY <1>1 DEF Idle, NoSnapshot, Threads
<1>4. CountersOK
  BY <1>1, <1>3, CountersAre DEF CountersOK
<1>5. PublishesOK
  <2>1. \A a : Coming(a) = {}
    BY <1>3 DEF Coming
  <2>2. Counts("publish") = 0 /\ Counts("latency_count") = 0 /\ atomics["latency_sum"] = 0
    BY <1>3, <2>1, AtomicsAre DEF Counts
  <2>3. \A least : Least(least) => 0 * least = 0
    <3>1. \A least : Least(least) => least \in Nat
      BY MeasuresAssumption DEF Least
    <3> QED
      BY <3>1
  <2> QED
    BY <1>1, <2>1, <2>2, <2>3 DEF PublishesOK
<1>6. LoadedOK
  BY <1>3 DEF LoadedOK
<1>7. FirstOK
  BY <1>1, <1>3, FirstFollowed DEF FirstOK, FirstArrival, First
<1>8. WindowsOK
  BY <1>1, <1>3 DEF WindowsOK
<1> QED
  BY <1>2, <1>4, <1>5, <1>6, <1>7, <1>8 DEF IInv

\* The strengthened invariant, for every number of frames, readings and latencies.
THEOREM Invariance == Spec => []IInv
<1>1. IInv /\ [Next]_vars => IInv'
  BY TypeKeeps, CountersKeep, PublishesKeep, LoadedKeep, FirstKeeps, WindowsKeep DEF IInv
<1> QED
  BY <1>1, Initially, PTL DEF Spec

\* Delta against the snapshot last kept (publication_rate_metrics.cpp, LogRateMetrics):
\* what has been logged adds up to a value that each counter had.
THEOREM LoggedOnce == Spec => []ReportedOnce
<1>1. IInv => ReportedOnce
  BY CounterTypes DEF IInv, CountersOK, ReportedOnce
<1> QED
  BY <1>1, Invariance, PTL

\* The windows that are logged follow one another without gap or overlap, from the
\* arrival of the first frame on (SetFirstMonotonic's CAS).
THEOREM TheWindowsTile == Spec => []WindowsTile
<1>1. IInv => WindowsTile
  <2> SUFFICES ASSUME IInv PROVE WindowsTile
    OBVIOUS
  <2>1. Len(windows) > 0 => windows # << >>
    BY Appended DEF IInv, TypeOK
  <2> QED
    BY <2>1 DEF IInv, WindowsOK, FirstArrival, WindowsTile
<1> QED
  BY <1>1, Invariance, PTL

\* The order of Snapshot's loads: a publish is never loaded without a latency but the
\* one that is being recorded.
THEOREM LatencyIsCovered == Spec => []LatencyCoversPublishes
<1>1. IInv => LatencyCoversPublishes
  <2> SUFFICES ASSUME IInv, SnapshotTaken PROVE LatencyCoversPublishes
    BY DEF LatencyCoversPublishes
  <2>1. 11 <= timer.read /\ 12 <= timer.read
    <3>1. AllLoads[11] \in Observed /\ AllLoads[12] \in Observed
      BY Loads, ObservedAssumption
    <3> QED
      BY <3>1, AllLoaded DEF IInv
  <2> QED
    BY <2>1 DEF IInv, LoadedOK, LatencyCoversPublishes
<1> QED
  BY <1>1, Invariance, PTL

-----------------------------------------------------------------------------
(* The classes of the arrivals.                                            *)

ClassNames == {"duplicate", "gap", "regression", "ts_duplicate", "ts_regression"}
Classes(f, g) ==
    SequenceClass(f.sequence, g.sequence) \cup TimestampClass(f.timestamp, g.timestamp)

\* The steps from one arrival to the next that are in class c.
StepsOf(c) ==
    {i \in 1..(Len(arrivals) - 1) : c \in Classes(arrivals[i], arrivals[i + 1])}

Incoming(c) == {u \in pending["dispatcher"] : u[1] = c}
Tally(c) == atomics[c] + IF Incoming(c) = {} THEN 0 ELSE 1

ClassesFlushed == \A c \in ClassNames : Incoming(c) = {}

\* What the dispatcher has counted in each class, visible or not, is what has arrived in
\* it; and it comes back for the next frame when the class of the last one is visible.
ClassesOK ==
    /\ arrivals = << >> => last = {}
    /\ arrivals # << >> => last = {arrivals[Len(arrivals)]}
    /\ ~hand /\ ~closed => ClassesFlushed
    /\ \A c \in ClassNames :
        /\ \A u \in Incoming(c) : u = <<c, 1>>
        /\ Tally(c) = Cardinality(StepsOf(c))

LEMMA ClassNamesAre ==
  /\ ClassNames \subseteq Atomics /\ ClassNames \cap WorkerAtomics = {}
  /\ \A c \in ClassNames : c \notin {"drop", "latency_max", "first_monotonic", "source"}
BY AtomicsAre DEF ClassNames, WorkerAtomics

LEMMA StepsFinite ==
  ASSUME TypeOK, NEW c
  PROVE  IsFiniteSet(StepsOf(c)) /\ Cardinality(StepsOf(c)) \in Nat
<1>1. Len(arrivals) \in Nat
  BY DEF TypeOK
<1>2. IsFiniteSet(1..(Len(arrivals) - 1))
  BY <1>1, FS_Interval
<1>3. StepsOf(c) \subseteq 1..(Len(arrivals) - 1)
  BY DEF StepsOf
<1> QED
  BY <1>2, <1>3, FS_Subset, FS_CardinalityType

\* What RecordSource adds to the classes.
LEMMA ClassUpdates ==
  ASSUME NEW f, NEW c \in ClassNames
  PROVE  /\ \A u \in RecordSource(f) : u[1] = c => u = <<c, 1>>
         /\ <<c, 1>> \in RecordSource(f) <=> \E l \in last : c \in Classes(l, f)
<1> DEFINE classes == UNION {SequenceClass(l.sequence, f.sequence)
                              \cup TimestampClass(l.timestamp, f.timestamp) : l \in last}
<1>1. RecordSource(f) = {<<"first_monotonic", f.monotonic>>} \cup ({"source"} \cup classes) \X {1}
  BY DEF RecordSource, Once
<1>2. c \in classes <=> \E l \in last : c \in Classes(l, f)
  BY DEF Classes
<1> HIDE DEF classes
<1>3. c # "first_monotonic" /\ c # "source"
  BY ClassNamesAre
<1>4. \A u \in ({"source"} \cup classes) \X {1} :
        u = <<u[1], 1>> /\ u[1] \in {"source"} \cup classes
  BY Pairs
<1>5. \A u \in RecordSource(f) : u[1] = c => u = <<c, 1>> /\ c \in classes
  <2>1. <<"first_monotonic", f.monotonic>>[1] = "first_monotonic"
    OBVIOUS
  <2> QED
    BY <1>1, <1>3, <1>4, <2>1
<1>6. c \in classes => <<c, 1>> \in RecordSource(f)
  BY <1>1, Pairs
<1> QED
  BY <1>2, <1>5, <1>6

\* An update of 1 at most counts once in each class, whether a snapshot follows it or not.
LEMMA AddTallies ==
  ASSUME TypeOK, ClassesOK, NEW updates, NEW c \in ClassNames, Incoming(c) = {},
         updates \subseteq DispatcherAtomics \X Nat, Add("dispatcher", updates),
         \A u \in updates : u[1] = c => u = <<c, 1>>
  PROVE  /\ \A u \in Incoming(c)' : u = <<c, 1>>
         /\ Tally(c)' = Tally(c) + IF <<c, 1>> \in updates THEN 1 ELSE 0
<1> DEFINE followed == {u \in updates : u[1] \in Observed}
           other(a) == {u \in updates \ followed : u[1] = a}
<1>1. /\ pending'["dispatcher"] = pending["dispatcher"] \cup followed
      /\ \A a \in Observed : atomics'[a] = atomics[a]
      /\ pending' \in [Threads -> SUBSET (Observed \X Nat)]
  BY AddGrows DEF Threads
<1>2. atomics' = [a \in Atomics |-> IF other(a) = {} THEN atomics[a]
                                    ELSE Updated(atomics[a], CHOOSE u \in other(a) : TRUE)]
  BY DEF Add
<1>3. c \in Atomics /\ atomics[c] \in Nat /\ c # "latency_max" /\ c # "first_monotonic"
  BY ClassNamesAre DEF TypeOK
<1>4. <<c, 1>>[1] = c /\ <<c, 1>>[2] = 1
  OBVIOUS
<1>5. Incoming(c)' = {u \in followed : u[1] = c}
  BY <1>1 DEF Incoming
<1>6. CASE c \in Observed
  <2>1. atomics'[c] = atomics[c]
    BY <1>1, <1>6
  <2>2. Incoming(c)' = IF <<c, 1>> \in updates THEN {<<c, 1>>} ELSE {}
    BY <1>4, <1>5, <1>6
  <2> QED
    BY <1>3, <2>1, <2>2 DEF Tally
<1>7. CASE c \notin Observed
  <2>1. Incoming(c)' = {}
    BY <1>5, <1>7
  <2>2. other(c) = IF <<c, 1>> \in updates THEN {<<c, 1>>} ELSE {}
    BY <1>4, <1>7
  <2> HIDE DEF other
  <2>3. CASE <<c, 1>> \in updates
    <3>1. atomics'[c] = Updated(atomics[c], <<c, 1>>)
      BY <1>2, <1>3, <2>2, <2>3
    <3>2. Updated(atomics[c], <<c, 1>>) = atomics[c] + 1
      BY <1>3, <1>4 DEF Updated
    <3> QED
      BY <1>3, <2>1, <2>3, <3>1, <3>2 DEF Tally
  <2>4. CASE <<c, 1>> \notin updates
    BY <1>2, <1>3, <2>1, <2>2, <2>4 DEF Tally
  <2> QED
    BY <2>3, <2>4
<1> QED
  BY <1>6, <1>7

\* The classes are left alone by all but the dispatcher and what becomes visible of it.
LEMMA ClassesStay ==
  ASSUME ClassesOK, UNCHANGED <<arrivals, last>>, hand' = hand \/ ClassesFlushed,
         \A c \in ClassNames : Incoming(c)' = Incoming(c) /\ atomics'[c] = atomics[c],
         closed => closed'
  PROVE  ClassesOK'
<1>1. \A c \in ClassNames : StepsOf(c)' = StepsOf(c) /\ Tally(c)' = Tally(c)
  BY DEF StepsOf, Tally
<1>2. ~hand' /\ ~closed' => \A c \in ClassNames : Incoming(c)' = {}
  BY DEF ClassesOK, ClassesFlushed
<1>3. \A c \in ClassNames : /\ \A u \in Incoming(c)' : u = <<c, 1>>
                            /\ Tally(c)' = Cardinality(StepsOf(c)')
  BY <1>1 DEF ClassesOK
<1> QED
  BY <1>2, <1>3 DEF ClassesOK, ClassesFlushed

LEMMA FlushedClasses == Flushed("dispatcher") => ClassesFlushed
BY DEF Flushed, ClassesFlushed, Incoming

\* A class that becomes visible is counted as before.
LEMMA VisibleKeepsClasses ==
  ASSUME TypeOK, ClassesOK, NEW t \in Threads, Visible(t)
  PROVE  ClassesOK'
<1>1. PICK u \in pending[t] : /\ atomics' = [atomics EXCEPT ![u[1]] = Updated(@, u)]
                              /\ pending' = [pending EXCEPT ![t] = @ \ {u}]
  BY DEF Visible
<1>2. UNCHANGED <<last, hand, closed, arrivals>>
  BY DEF Visible, dispatcherVars
<1>3. /\ u[1] \in Atomics /\ atomics'[u[1]] = Updated(atomics[u[1]], u)
      /\ \A a \in Atomics : a # u[1] => atomics'[a] = atomics[a]
  BY <1>1, VisibleGrows
<1>4. pending'[t] = pending[t] \ {u} /\ \A s \in Threads : s # t => pending'[s] = pending[s]
  BY <1>1 DEF TypeOK
<1>5. ASSUME NEW c \in ClassNames
      PROVE  /\ Incoming(c)' \subseteq Incoming(c)
             /\ Tally(c)' = Tally(c)
  <2>1. c \in Atomics /\ atomics[c] \in Nat /\ c # "latency_max" /\ c # "first_monotonic"
    BY ClassNamesAre DEF TypeOK
  <2>2. CASE t = "dispatcher" /\ u[1] = c
    <3>1. u \in Incoming(c)
      BY <1>1, <2>2 DEF Incoming
    <3>2. \A v \in Incoming(c) : v = <<c, 1>>
      BY DEF ClassesOK
    <3>3. u = <<c, 1>> /\ u[2] = 1
      BY <3>1, <3>2
    <3>4. Incoming(c) = {u}
      BY <3>1, <3>2
    <3>5. Incoming(c)' = {}
      BY <1>4, <2>2, <3>4 DEF Incoming
    <3>6. atomics'[c] = atomics[c] + 1
      BY <1>3, <2>1, <2>2, <3>3 DEF Updated
    <3> QED
      BY <2>1, <3>4, <3>5, <3>6 DEF Tally
  <2>3. CASE t = "dispatcher" /\ u[1] # c
    <3>1. Incoming(c)' = Incoming(c)
      BY <1>4, <2>3 DEF Incoming
    <3> QED
      BY <1>3, <2>1, <2>3, <3>1 DEF Tally
  <2>4. CASE t = "worker"
    <3>1. u[1] # c
      <4>1. u \in WorkerAtomics \X Nat
        BY <1>1, <2>4 DEF TypeOK
      <4>2. u[1] \in WorkerAtomics
        BY <4>1, Pairs
      <4> QED
        BY <4>2, ClassNamesAre
    <3>2. Incoming(c)' = Incoming(c)
      BY <1>4, <2>4 DEF Incoming, Threads
    <3> QED
      BY <1>3, <2>1, <3>1, <3>2 DEF Tally
  <2> QED
    BY <2>2, <2>3, <2>4 DEF Threads
<1>6. \A c : StepsOf(c)' = StepsOf(c)
  BY <1>2 DEF StepsOf
<1> QED
  BY <1>2, <1>5, <1>6 DEF ClassesOK, ClassesFlushed

\* The worker counts in no class.
LEMMA WorkerLeaves ==
  ASSUME TypeOK, NEW updates, updates \subseteq WorkerAtomics \X Nat, Add("worker", updates)
  PROVE  \A c \in ClassNames : Incoming(c)' = Incoming(c) /\ atomics'[c] = atomics[c]
<1> DEFINE followed == {u \in updates : u[1] \in Observed}
           other(a) == {u \in updates \ followed : u[1] = a}
<1>1. pending'["dispatcher"] = pending["dispatcher"]
  BY AddGrows DEF Threads
<1>2. atomics' = [a \in Atomics |-> IF other(a) = {} THEN atomics[a]
                                    ELSE Updated(atomics[a], CHOOSE u \in other(a) : TRUE)]
  BY DEF Add
<1>3. ASSUME NEW c \in ClassNames PROVE c \in Atomics /\ other(c) = {}
  <2>1. \A u \in updates : u[1] # c
    BY Pairs, ClassNamesAre
  <2> QED
    BY <2>1, ClassNamesAre
<1> HIDE DEF other
<1> QED
  BY <1>1, <1>2, <1>3 DEF Incoming

\* A new arrival makes a step from the last one, which is in the class it is counted in.
LEMMA ArriveKeepsClasses ==
  ASSUME TypeOK, ClassesOK, Arrive
  PROVE  ClassesOK'
<1>1. PICK f \in Frames : Add("dispatcher", RecordSource(f)) /\ last' = {f}
                          /\ arrivals' = Append(arrivals, f)
  BY DEF Arrive, Remember
<1>2. ~hand /\ ~closed /\ hand' = TRUE
  BY DEF Arrive
<1>3. RecordSource(f) \subseteq DispatcherAtomics \X Nat
  BY SourceUpdates
<1> DEFINE n == Len(arrivals)
<1>4. /\ n \in Nat /\ arrivals' # << >> /\ Len(arrivals') = n + 1 /\ arrivals'[n + 1] = f
      /\ \A i \in 1..n : arrivals'[i] = arrivals[i]
      /\ (arrivals # << >> <=> n > 0)
  <2>1. arrivals \in Seq(Frames)
    BY DEF TypeOK
  <2> QED
    BY <1>1, <2>1, Appended
<1> HIDE DEF n
<1>5. ASSUME NEW c \in ClassNames
      PROVE  /\ \A u \in Incoming(c)' : u = <<c, 1>>
             /\ Tally(c)' = Cardinality(StepsOf(c)')
  <2>1. Incoming(c) = {}
    BY <1>2 DEF ClassesOK, ClassesFlushed
  <2>2. /\ \A u \in Incoming(c)' : u = <<c, 1>>
        /\ Tally(c)' = Tally(c) + IF <<c, 1>> \in RecordSource(f) THEN 1 ELSE 0
    BY <1>1, <1>3, <2>1, ClassUpdates, AddTallies
  <2>3. Tally(c) = Cardinality(StepsOf(c)) /\ Cardinality(StepsOf(c)) \in Nat
        /\ IsFiniteSet(StepsOf(c))
    BY StepsFinite DEF ClassesOK
  <2>4. StepsOf(c)' = {i \in 1..n : c \in Classes(arrivals'[i], arrivals'[i + 1])}
    BY <1>4 DEF StepsOf
  <2>5. CASE n = 0
    <3>1. StepsOf(c)' = {} /\ StepsOf(c) = {}
      <4>1. \A i \in 1..n : FALSE
        BY <2>5
      <4>2. \A i \in 1..(n - 1) : FALSE
        BY <2>5
      <4> QED
        BY <2>4, <4>1, <4>2 DEF StepsOf, n
    <3>2. <<c, 1>> \notin RecordSource(f)
      BY <1>4, <2>5, ClassUpdates DEF ClassesOK
    <3> QED
      BY <2>2, <2>3, <3>1, <3>2
  <2>6. CASE n > 0
    <3>1. last = {arrivals[n]}
      BY <1>4, <2>6 DEF ClassesOK, n
    <3>2. <<c, 1>> \in RecordSource(f) <=> c \in Classes(arrivals[n], f)
      BY <3>1, ClassUpdates
    <3>3. n \notin StepsOf(c) /\ StepsOf(c) \subseteq 1..(n - 1)
      BY <1>4 DEF StepsOf, n
    <3>4. \A i \in 1..(n - 1) : i \in StepsOf(c)' <=> i \in StepsOf(c)
      <4>1. ASSUME NEW i \in 1..(n - 1)
            PROVE  i \in 1..n /\ i + 1 \in 1..n
        BY <1>4
      <4> QED
        BY <1>4, <2>4, <4>1 DEF StepsOf, n
    <3>5. n \in StepsOf(c)' <=> c \in Classes(arrivals[n], f)
      <4>1. n \in 1..n
        BY <1>4, <2>6
      <4> QED
        BY <1>4, <2>4, <4>1
    <3>6. StepsOf(c)' \subseteq (1..(n - 1)) \cup {n}
      BY <1>4, <2>4
    <3>7. StepsOf(c)' = IF c \in Classes(arrivals[n], f) THEN StepsOf(c) \cup {n} ELSE StepsOf(c)
      <4>1. StepsOf(c) \subseteq StepsOf(c)'
        BY <3>3, <3>4
      <4>2. StepsOf(c)' \subseteq StepsOf(c) \cup {n}
        BY <3>4, <3>6
      <4> QED
        BY <3>5, <4>1, <4>2
    <3>8. Cardinality(StepsOf(c) \cup {n}) = Cardinality(StepsOf(c)) + 1
      BY <2>3, <3>3, FS_AddElement
    <3> QED
      BY <2>2, <2>3, <3>2, <3>7, <3>8
  <2> QED
    BY <1>4, <2>5, <2>6
<1>6. arrivals' # << >> /\ last' = {arrivals'[Len(arrivals')]}
  BY <1>1, <1>4
<1> QED
  BY <1>2, <1>5, <1>6 DEF ClassesOK, ClassesFlushed

LEMMA DropKeepsClasses ==
  ASSUME TypeOK, ClassesOK, RecordDrop
  PROVE  ClassesOK'
<1>1. Add("dispatcher", {<<"drop", 1>>}) /\ hand' = FALSE /\ UNCHANGED <<last, closed, arrivals>>
  BY OnceUpdates DEF RecordDrop
<1>2. {<<"drop", 1>>} \subseteq DispatcherAtomics \X Nat
  BY DEF DispatcherAtomics
<1>3. \A c \in ClassNames : Incoming(c) = {}
  BY FlushedClasses DEF RecordDrop, ClassesFlushed
<1>4. ASSUME NEW c \in ClassNames
      PROVE  Incoming(c)' = {} /\ Tally(c)' = Tally(c)
  <2>1. <<"drop", 1>>[1] # c /\ <<c, 1>> \notin {<<"drop", 1>>}
    BY ClassNamesAre
  <2>2. /\ Tally(c)' = Tally(c) + 0
    BY <1>1, <1>2, <1>3, <2>1, AddTallies
  <2>3. Incoming(c)' = {}
    <3>1. pending'["dispatcher"] \subseteq pending["dispatcher"] \cup {<<"drop", 1>>}
      BY <1>1, <1>2, AddGrows DEF Threads
    <3> QED
      BY <1>3, <2>1, <3>1 DEF Incoming
  <2>4. Tally(c) \in Nat
    BY StepsFinite DEF ClassesOK
  <2> QED
    BY <2>2, <2>3, <2>4
<1>5. \A c : StepsOf(c)' = StepsOf(c)
  BY <1>1 DEF StepsOf
<1> QED
  BY <1>1, <1>4, <1>5 DEF ClassesOK, ClassesFlushed

LEMMA ClassesKeep ==
  ASSUME TypeOK, ClassesOK, [Next]_vars
  PROVE  ClassesOK'
<1>1. CASE \E t \in Threads : Visible(t)
  BY <1>1, VisibleKeepsClasses
<1>2. CASE Arrive
  BY <1>2, ArriveKeepsClasses
<1>3. CASE RecordDrop
  BY <1>3, DropKeepsClasses
<1>4. CASE PublishImage \/ PublishCameraInfo \/ PublishThrows
  <2>1. UNCHANGED <<arrivals, last, hand>> /\ (closed => closed')
    BY <1>4 DEF PublishImage, PublishCameraInfo, PublishThrows, dispatcherVars
  <2>2. {<<"auxiliary", 1>>} \subseteq WorkerAtomics \X Nat
        /\ {<<"failure", 1>>} \subseteq WorkerAtomics \X Nat
    BY DEF WorkerAtomics
  <2>3. \/ \E updates : updates \subseteq WorkerAtomics \X Nat /\ Add("worker", updates)
        \/ UNCHANGED <<pending, atomics>>
    BY <1>4, <2>2, PublishUpdates, OnceUpdates DEF PublishImage, PublishCameraInfo, PublishThrows
  <2>4. \A c \in ClassNames : Incoming(c)' = Incoming(c) /\ atomics'[c] = atomics[c]
    BY <2>3, WorkerLeaves DEF Incoming
  <2> QED
    BY <2>1, <2>4, ClassesStay
<1>5. CASE Push
  <2>1. UNCHANGED <<arrivals, last, closed, atomics, pending>> /\ Flushed("dispatcher")
    BY <1>5 DEF Push
  <2> QED
    BY <2>1, FlushedClasses, ClassesStay DEF Incoming
<1>6. CASE RetainThrows
  <2>1. UNCHANGED <<arrivals, last, atomics, pending>> /\ closed'
    BY <1>6 DEF RetainThrows
  <2> QED
    BY <2>1 DEF ClassesOK, Tally, Incoming, StepsOf
<1>7. CASE Tick \/ Pop \/ TakeTime \/ Snapshot \/ LogRateMetrics \/ UNCHANGED vars
  <2>1. UNCHANGED <<arrivals, last, hand, closed, atomics, pending>>
    BY <1>7 DEF Tick, Pop, TakeTime, Snapshot, LogRateMetrics, dispatcherVars, vars
  <2> QED
    BY <2>1, ClassesStay DEF Incoming
<1> QED
  BY <1>1, <1>2, <1>3, <1>4, <1>5, <1>6, <1>7 DEF Next, Threads

LEMMA NoClassesInitially == Init => ClassesOK
<1> SUFFICES ASSUME Init PROVE ClassesOK
  OBVIOUS
<1>1. last = {} /\ arrivals = << >> /\ pending["dispatcher"] = {}
      /\ atomics = [a \in Atomics |-> 0]
  BY DEF Init
<1>2. ASSUME NEW c \in ClassNames PROVE Incoming(c) = {} /\ Tally(c) = 0
  BY <1>1, ClassNamesAre DEF Incoming, Tally
<1>3. ASSUME NEW c \in ClassNames PROVE Cardinality(StepsOf(c)) = 0
  <2>1. Len(arrivals) = 0
    BY <1>1
  <2>2. \A i \in 1..(0 - 1) : FALSE
    OBVIOUS
  <2>3. StepsOf(c) = {}
    BY <2>1, <2>2 DEF StepsOf
  <2> QED
    BY <2>3, FS_EmptySet
<1> QED
  BY <1>1, <1>2, <1>3 DEF ClassesOK, ClassesFlushed

LEMMA SequenceClassOf ==
  ASSUME NEW f \in Frames, NEW g \in Frames
  PROVE  /\ "duplicate" \in Classes(f, g) <=> f.sequence = g.sequence
         /\ "gap" \in Classes(f, g) \/ "regression" \in Classes(f, g)
              <=> /\ g.sequence \notin {f.sequence, f.sequence + 1}
                  /\ ~(f.sequence = MaxU64 /\ g.sequence = 0)
         /\ ~("gap" \in Classes(f, g) /\ "regression" \in Classes(f, g))
         /\ "regression" \in Classes(f, g) =>
              /\ g.sequence < f.sequence /\ ~(f.sequence = MaxU64 /\ g.sequence = 0)
<1>1. /\ f.sequence \in 0..MaxU64 /\ g.sequence \in 0..MaxU64 /\ MaxU64 \in Nat \ {0}
  BY SequencesAssumption DEF Frames
<1> DEFINE class == SequenceClass(f.sequence, g.sequence)
<1>2. \A c \in {"duplicate", "gap", "regression"} : c \in Classes(f, g) <=> c \in class
  BY TimestampClassIs DEF Classes
<1>3. CASE g.sequence = f.sequence
  <2>1. class = {"duplicate"}
    <3>1. /\ f.sequence # ExpectedNext(f.sequence)
          /\ f.sequence > ExpectedNext(f.sequence) => f.sequence = MaxU64
      BY <1>1 DEF ExpectedNext
    <3>2. CASE f.sequence = MaxU64
      BY <1>1, <1>3, <3>1, <3>2 DEF SequenceClass, ExpectedNext
    <3>3. CASE f.sequence # MaxU64
      BY <1>1, <1>3, <3>1, <3>3 DEF SequenceClass
    <3> QED
      BY <3>2, <3>3
  <2> QED
    BY <1>1, <1>2, <1>3, <2>1
<1>4. CASE g.sequence # f.sequence /\ g.sequence = ExpectedNext(f.sequence)
  <2>1. class = {}
    BY <1>1, <1>4 DEF SequenceClass, ExpectedNext
  <2> QED
    BY <1>1, <1>2, <1>4, <2>1 DEF ExpectedNext
<1>5. CASE /\ g.sequence # f.sequence /\ g.sequence # ExpectedNext(f.sequence)
           /\ g.sequence > ExpectedNext(f.sequence)
  <2>1. class = {"gap"}
    BY <1>1, <1>5 DEF SequenceClass, ExpectedNext
  <2> QED
    BY <1>1, <1>2, <1>5, <2>1 DEF ExpectedNext
<1>6. CASE /\ g.sequence # f.sequence /\ g.sequence # ExpectedNext(f.sequence)
           /\ ~(g.sequence > ExpectedNext(f.sequence))
  <2>1. class = {"regression"}
    BY <1>1, <1>6 DEF SequenceClass, ExpectedNext
  <2> QED
    BY <1>1, <1>2, <1>6, <2>1 DEF ExpectedNext
<1> QED
  BY <1>3, <1>4, <1>5, <1>6

LEMMA TimestampClassOf ==
  ASSUME NEW f \in Frames, NEW g \in Frames
  PROVE  /\ "ts_duplicate" \in Classes(f, g) \/ "ts_regression" \in Classes(f, g)
              <=> g.timestamp <= f.timestamp
         /\ ~("ts_duplicate" \in Classes(f, g) /\ "ts_regression" \in Classes(f, g))
<1>1. f.timestamp \in Nat /\ g.timestamp \in Nat
  BY MeasuresAssumption DEF Frames
<1> DEFINE class == TimestampClass(f.timestamp, g.timestamp)
<1>2. \A c \in {"ts_duplicate", "ts_regression"} : c \in Classes(f, g) <=> c \in class
  BY SequenceClassIs DEF Classes
<1>3. CASE g.timestamp = f.timestamp
  <2>1. class = {"ts_duplicate"}
    BY <1>1, <1>3 DEF TimestampClass
  <2> QED
    BY <1>1, <1>2, <1>3, <2>1
<1>4. CASE g.timestamp < f.timestamp
  <2>1. class = {"ts_regression"}
    BY <1>1, <1>4 DEF TimestampClass
  <2> QED
    BY <1>1, <1>2, <1>4, <2>1
<1>5. CASE g.timestamp > f.timestamp
  <2>1. class = {}
    BY <1>1, <1>5 DEF TimestampClass
  <2> QED
    BY <1>1, <1>2, <1>5, <2>1
<1> QED
  BY <1>1, <1>3, <1>4, <1>5

\* Two classes that no step is both in count its steps in either.
LEMMA EitherClass ==
  ASSUME TypeOK, NEW c, NEW d, StepsOf(c) \cap StepsOf(d) = {}
  PROVE  Cardinality(StepsOf(c) \cup StepsOf(d)) = Cardinality(StepsOf(c)) + Cardinality(StepsOf(d))
<1>1. /\ IsFiniteSet(StepsOf(c)) /\ Cardinality(StepsOf(c)) \in Nat
      /\ IsFiniteSet(StepsOf(d)) /\ Cardinality(StepsOf(d)) \in Nat
  BY StepsFinite
<1>2. Cardinality(StepsOf(c) \cap StepsOf(d)) = 0
  BY FS_EmptySet
<1>3. Cardinality(StepsOf(c) \cup StepsOf(d))
        = Cardinality(StepsOf(c)) + Cardinality(StepsOf(d)) - Cardinality(StepsOf(c) \cap StepsOf(d))
  BY <1>1, FS_Union
<1> QED
  BY <1>1, <1>2, <1>3

LEMMA ClassesCount == TypeOK /\ ClassesOK => ArrivalsClassified
<1> SUFFICES ASSUME TypeOK, ClassesOK, Flushed("dispatcher") PROVE ArrivalsClassified
  BY DEF ArrivalsClassified
<1> DEFINE steps == 1..(Len(arrivals) - 1)
           duplicates == {i \in steps : arrivals[i].sequence = arrivals[i + 1].sequence}
           jumps == {i \in steps : /\ arrivals[i + 1].sequence
                                        \notin {arrivals[i].sequence, arrivals[i].sequence + 1}
                                   /\ ~(arrivals[i].sequence = MaxU64 /\ arrivals[i + 1].sequence = 0)}
           backwards == {i \in steps : /\ arrivals[i + 1].sequence < arrivals[i].sequence
                                       /\ ~(arrivals[i].sequence = MaxU64 /\ arrivals[i + 1].sequence = 0)}
           late == {i \in steps : arrivals[i + 1].timestamp <= arrivals[i].timestamp}
<1>1. \A i \in steps : arrivals[i] \in Frames /\ arrivals[i + 1] \in Frames
  <2>1. arrivals \in Seq(Frames)
    BY DEF TypeOK
  <2> QED
    BY <2>1
<1>2. \A c \in ClassNames : atomics[c] = Cardinality(StepsOf(c)) /\ Cardinality(StepsOf(c)) \in Nat
  <2> SUFFICES ASSUME NEW c \in ClassNames
               PROVE  atomics[c] = Cardinality(StepsOf(c)) /\ Cardinality(StepsOf(c)) \in Nat
    OBVIOUS
  <2>1. Incoming(c) = {} /\ atomics[c] \in Nat
    BY FlushedClasses, ClassNamesAre DEF ClassesFlushed, TypeOK
  <2>2. Tally(c) = atomics[c]
    BY <2>1 DEF Tally
  <2> QED
    BY <2>2, StepsFinite DEF ClassesOK
<1>3. \A c \in ClassNames : c \in {"duplicate", "gap", "regression", "ts_duplicate", "ts_regression"}
  BY DEF ClassNames
<1>4. duplicates = StepsOf("duplicate")
  BY <1>1, SequenceClassOf DEF StepsOf
<1>5. jumps = StepsOf("gap") \cup StepsOf("regression")
      /\ StepsOf("gap") \cap StepsOf("regression") = {}
  BY <1>1, SequenceClassOf DEF StepsOf
<1>6. StepsOf("regression") \subseteq backwards
  BY <1>1, SequenceClassOf DEF StepsOf
<1>7. late = StepsOf("ts_duplicate") \cup StepsOf("ts_regression")
      /\ StepsOf("ts_duplicate") \cap StepsOf("ts_regression") = {}
  BY <1>1, TimestampClassOf DEF StepsOf
<1>8. Cardinality(StepsOf("regression")) <= Cardinality(backwards)
  <2>1. IsFiniteSet(steps)
    BY FS_Interval DEF TypeOK
  <2>2. IsFiniteSet(backwards)
    BY <2>1, FS_Subset
  <2> QED
    BY <1>6, <2>2, FS_Subset
<1>9. /\ atomics["duplicate"] = Cardinality(duplicates)
      /\ atomics["gap"] + atomics["regression"] = Cardinality(jumps)
      /\ atomics["regression"] <= Cardinality(backwards)
      /\ atomics["ts_duplicate"] + atomics["ts_regression"] = Cardinality(late)
  <2>1. {"duplicate", "gap", "regression", "ts_duplicate", "ts_regression"} \subseteq ClassNames
    BY DEF ClassNames
  <2>2. /\ Cardinality(jumps) = Cardinality(StepsOf("gap")) + Cardinality(StepsOf("regression"))
        /\ Cardinality(late) = Cardinality(StepsOf("ts_duplicate")) + Cardinality(StepsOf("ts_regression"))
    BY <1>5, <1>7, EitherClass
  <2> HIDE DEF duplicates, jumps, backwards, late
  <2> QED
    BY <1>2, <1>4, <1>8, <2>1, <2>2
<1> QED
  BY <1>9 DEF ArrivalsClassified

\* RecordSource's classes (ObserveSequenceLocked, RecordTimestampLocked): once they are
\* visible they count each step from one frame to the next as its sequences call for.
THEOREM ClassesAreRight == Spec => []ArrivalsClassified
<1>1. Init => TypeOK /\ ClassesOK
  BY Initially, NoClassesInitially DEF IInv
<1>2. (TypeOK /\ ClassesOK) /\ [Next]_vars => (TypeOK /\ ClassesOK)'
  BY TypeKeeps, ClassesKeep
<1> QED
  BY <1>1, <1>2, ClassesCount, PTL DEF Spec
=============================================================================
