--------------------------- MODULE ImuRateProofs ---------------------------
(***************************************************************************)
(* Theorems about ImuRate: a snapshot of the IMU's metrics agrees with     *)
(* itself, although the samples go in and out between its loads, and the   *)
(* lines logged show no sample twice.                                      *)
(***************************************************************************)
EXTENDS ImuRate, TLAPS

LEMMA Loads ==
  /\ DOMAIN AllLoads = 1..5
  /\ AllLoads[1] = "publish" /\ AllLoads[2] = "auxiliary" /\ AllLoads[3] = "failure"
  /\ AllLoads[4] = "source" /\ AllLoads[5] = "first"
BY DEF AllLoads

Atomics == Metrics \cup {"source_count", "source_first_ns"}
Timers == [idle : BOOLEAN, read : 0..5, snapshot : [Fields -> Nat]]

TypeOK ==
    /\ clock \in Nat /\ first \in Nat /\ queued \in Nat
    /\ acquisition \in {"out", "first", "count", "admit"}
    /\ publisher \in {"loop", "imu", "temperature", "ended"}
    /\ admission \in BOOLEAN /\ failed \in BOOLEAN
    /\ atomics \in [Atomics -> Nat] /\ pending \subseteq Metrics
    /\ timer \in Timers

LEMMA AtomicsAre ==
  /\ {"own_source", "publish", "auxiliary", "failure", "source_count", "source_first_ns"} = Atomics
  /\ {"own_source", "publish", "auxiliary", "failure"} = Metrics
BY DEF Atomics, Metrics

-----------------------------------------------------------------------------
(* The invariant.                                                          *)

\* What is published, visible or not, and what is still on its way to be.
Published == atomics["publish"] + IF "publish" \in pending THEN 1 ELSE 0
OnTheWay ==
    (IF publisher = "imu" THEN 1 ELSE 0) + queued + (IF acquisition = "admit" THEN 1 ELSE 0)

\* Every sample that is published or on its way has been counted on its arrival.
FlowOK == Published + OnTheWay <= atomics["source_count"]

\* The first arrival is stored before a sample is counted, and never again.
FirstOK ==
    /\ acquisition = "first" => atomics["source_count"] = 0
    /\ acquisition = "count" \/ atomics["source_count"] > 0 => atomics["source_first_ns"] = first

\* What the snapshot has loaded so far, in the order of its loads.
LoadedOK ==
    /\ timer.snapshot["publish"] <= atomics["publish"]
    /\ timer.snapshot["source"] <= atomics["source_count"]
    /\ 4 <= timer.read => timer.snapshot["publish"] <= timer.snapshot["source"]
    /\ 5 <= timer.read /\ timer.snapshot["source"] > 0 => timer.snapshot["first"] = first

IInv == TypeOK /\ FlowOK /\ FirstOK /\ LoadedOK

LEMMA Counts ==
  ASSUME TypeOK
  PROVE  /\ atomics["publish"] \in Nat /\ atomics["source_count"] \in Nat
         /\ atomics["source_first_ns"] \in Nat
         /\ timer.snapshot["publish"] \in Nat /\ timer.snapshot["source"] \in Nat
         /\ timer.snapshot["first"] \in Nat /\ timer.read \in 0..5 /\ timer.idle \in BOOLEAN
         /\ Published \in Nat /\ OnTheWay \in Nat
<1>1. atomics["publish"] \in Nat /\ atomics["source_count"] \in Nat
      /\ atomics["source_first_ns"] \in Nat
  BY AtomicsAre DEF TypeOK
<1>2. Published \in Nat /\ OnTheWay \in Nat
  BY <1>1 DEF TypeOK, Published, OnTheWay
<1>3. /\ timer.snapshot["publish"] \in Nat /\ timer.snapshot["source"] \in Nat
      /\ timer.snapshot["first"] \in Nat /\ timer.read \in 0..5 /\ timer.idle \in BOOLEAN
  BY DEF TypeOK, Timers, Fields
<1> QED
  BY <1>1, <1>2, <1>3

LEMMA Initially == Init => IInv
<1> SUFFICES ASSUME Init PROVE IInv
  OBVIOUS
<1>1. /\ timer = Idle /\ pending = {} /\ publisher = "loop" /\ acquisition = "out" /\ queued = 0
      /\ atomics = [f \in Atomics |-> 0] /\ first = 0 /\ clock = 1
      /\ admission = TRUE /\ failed = FALSE
  BY DEF Init, Atomics
<1>2. Idle \in Timers /\ Idle.read = 0 /\ \A f \in Fields : Idle.snapshot[f] = 0
  BY DEF Idle, Zero, Timers
<1>3. TypeOK
  BY <1>1, <1>2 DEF TypeOK
<1>4. atomics["publish"] = 0 /\ atomics["source_count"] = 0
  BY <1>1, AtomicsAre
<1>5. FlowOK
  BY <1>1, <1>4 DEF FlowOK, Published, OnTheWay
<1>6. FirstOK
  BY <1>1, <1>4 DEF FirstOK
<1>7. LoadedOK
  BY <1>1, <1>2, <1>4 DEF LoadedOK, Fields
<1> QED
  BY <1>3, <1>5, <1>6, <1>7 DEF IInv

-----------------------------------------------------------------------------
(* The steps of the acquisition and of the publisher.                      *)

\* A step that leaves the timer alone keeps what it has loaded: the counts only grow,
\* and the first arrival stays once a sample is counted.
LEMMA LoadedStays ==
  ASSUME IInv, TypeOK', timer' = timer, atomics'["publish"] >= atomics["publish"],
         atomics'["source_count"] >= atomics["source_count"],
         atomics["source_count"] > 0 => first' = first
  PROVE  LoadedOK'
<1>1. TypeOK /\ LoadedOK
  BY DEF IInv
<1>2. /\ atomics'["publish"] \in Nat /\ atomics'["source_count"] \in Nat
  BY AtomicsAre DEF TypeOK
<1> QED
  BY <1>1, <1>2, Counts DEF LoadedOK

\* The acquisition thread.
LEMMA AcquisitionKeeps ==
  ASSUME IInv, Arrive \/ Malformed \/ Acquisition
  PROVE  IInv'
<1> USE DEF acquisitionVars, mainVars
<1>1. TypeOK /\ FlowOK /\ FirstOK /\ LoadedOK
  BY DEF IInv
<1>2. timer' = timer /\ pending' = pending /\ publisher' = publisher /\ clock' = clock
  BY DEF Arrive, Malformed, Acquisition, AcquisitionMoves, StoreFirst, CountSource, NotAdmitted,
     Admit, Overflow
<1>3. CASE Arrive
  <2>1. /\ acquisition = "out" /\ acquisition' \in {"first", "count"}
        /\ UNCHANGED <<admission, failed, queued, atomics>>
        /\ acquisition' = "first" => atomics["source_count"] = 0
        /\ acquisition' = "count" => atomics["source_count"] # 0
        /\ first' \in {clock, first} /\ (atomics["source_count"] # 0 => first' = first)
    BY <1>3 DEF Arrive
  <2>2. TypeOK'
    BY <1>1, <1>2, <2>1 DEF TypeOK
  <2>3. FlowOK'
    BY <1>1, <1>2, <2>1 DEF FlowOK, Published, OnTheWay
  <2>4. FirstOK'
    BY <1>1, <2>1, Counts DEF FirstOK
  <2>5. LoadedOK'
    BY <1>1, <1>2, <2>1, <2>2, Counts, LoadedStays
  <2> QED
    BY <2>2, <2>3, <2>4, <2>5 DEF IInv
<1>4. CASE StoreFirst
  <2>1. /\ acquisition = "first" /\ acquisition' = "count" /\ first' = first
        /\ UNCHANGED <<admission, failed, queued>>
        /\ atomics' = [atomics EXCEPT !["source_first_ns"] = first]
    BY <1>4 DEF StoreFirst, AcquisitionMoves
  <2>2. /\ atomics' \in [Atomics -> Nat] /\ atomics'["source_first_ns"] = first
        /\ atomics'["publish"] = atomics["publish"]
        /\ atomics'["source_count"] = atomics["source_count"]
    BY <1>1, <2>1, AtomicsAre DEF TypeOK
  <2>3. TypeOK'
    BY <1>1, <1>2, <2>1, <2>2 DEF TypeOK
  <2>4. FlowOK'
    BY <1>1, <1>2, <2>1, <2>2 DEF FlowOK, Published, OnTheWay
  <2>5. FirstOK'
    BY <1>1, <2>1, <2>2 DEF FirstOK
  <2>6. LoadedOK'
    BY <1>1, <1>2, <2>1, <2>2, <2>3, Counts, LoadedStays
  <2> QED
    BY <2>3, <2>4, <2>5, <2>6 DEF IInv
<1>5. CASE CountSource
  <2>1. /\ acquisition = "count" /\ acquisition' = "admit" /\ first' = first
        /\ UNCHANGED <<admission, failed, queued>>
        /\ atomics' = [atomics EXCEPT !["source_count"] = @ + 1]
    BY <1>5 DEF CountSource, AcquisitionMoves
  <2>2. /\ atomics' \in [Atomics -> Nat]
        /\ atomics'["source_first_ns"] = atomics["source_first_ns"]
        /\ atomics'["publish"] = atomics["publish"]
        /\ atomics'["source_count"] = atomics["source_count"] + 1
    BY <1>1, <2>1, AtomicsAre DEF TypeOK
  <2>3. TypeOK'
    BY <1>1, <1>2, <2>1, <2>2 DEF TypeOK
  <2>4. FlowOK'
    <3>1. Published' = Published /\ OnTheWay' = OnTheWay + 1
      BY <1>1, <1>2, <2>1, <2>2 DEF Published, OnTheWay, TypeOK
    <3> QED
      BY <1>1, <2>2, <3>1, Counts DEF FlowOK
  <2>5. FirstOK'
    BY <1>1, <2>1, <2>2 DEF FirstOK
  <2>6. LoadedOK'
    BY <1>1, <1>2, <2>1, <2>2, <2>3, Counts, LoadedStays
  <2> QED
    BY <2>3, <2>4, <2>5, <2>6 DEF IInv
<1>6. CASE NotAdmitted \/ Admit \/ Overflow \/ Malformed
  <2>1. /\ acquisition' = "out" /\ first' = first /\ atomics' = atomics
        /\ admission' \in BOOLEAN /\ failed' \in BOOLEAN
        /\ queued' = queued \/ (acquisition = "admit" /\ queued' = queued + 1)
    BY <1>1, <1>6 DEF NotAdmitted, Admit, Overflow, Malformed, AcquisitionMoves, TypeOK
  <2>2. TypeOK'
    BY <1>1, <1>2, <2>1 DEF TypeOK
  <2>3. FlowOK'
    <3>1. Published' = Published /\ OnTheWay' <= OnTheWay /\ OnTheWay' \in Nat
      BY <1>1, <1>2, <2>1 DEF Published, OnTheWay, TypeOK
    <3> QED
      BY <1>1, <2>1, <3>1, Counts DEF FlowOK
  <2>4. FirstOK'
    BY <1>1, <2>1 DEF FirstOK
  <2>5. LoadedOK'
    BY <1>1, <1>2, <2>1, <2>2, Counts, LoadedStays
  <2> QED
    BY <2>2, <2>3, <2>4, <2>5 DEF IInv
<1> QED
  BY <1>3, <1>4, <1>5, <1>6 DEF Acquisition

\* The publisher thread, and what becomes visible of it.
LEMMA PublisherKeeps ==
  ASSUME IInv, Publisher
  PROVE  IInv'
<1> USE DEF acquisitionVars, mainVars
<1>1. TypeOK /\ FlowOK /\ FirstOK /\ LoadedOK
  BY DEF IInv
<1>2. UNCHANGED <<clock, atomics, acquisition, first, timer>>
  BY DEF Publisher, PublisherMoves, Take, PublishImu, PublishTemperature, PublishThrows, SeeFailure
<1>3. /\ pending' \subseteq Metrics /\ publisher' \in {"loop", "imu", "temperature", "ended"}
      /\ queued' \in Nat /\ admission' \in BOOLEAN /\ failed' \in BOOLEAN
      /\ Published' + OnTheWay' <= Published + OnTheWay /\ OnTheWay' \in Nat
  <2>1. CASE Take
    <3>1. /\ publisher = "loop" /\ publisher' = "imu" /\ pending = {} /\ pending' = {"own_source"}
          /\ queued > 0 /\ queued' = queued - 1 /\ UNCHANGED <<admission, failed>>
      BY <2>1 DEF Take, PublisherMoves
    <3>2. Published' = Published /\ OnTheWay' = OnTheWay /\ queued' \in Nat
      BY <1>1, <1>2, <3>1 DEF Published, OnTheWay, TypeOK
    <3> QED
      BY <1>1, <3>1, <3>2, AtomicsAre, Counts DEF TypeOK
  <2>2. CASE PublishImu
    <3>1. /\ publisher = "imu" /\ publisher' \in {"temperature", "loop"}
          /\ pending' = pending \cup {"publish"} /\ UNCHANGED <<admission, failed, queued>>
      BY <2>2 DEF PublishImu, PublisherMoves
    <3>2. Published' <= Published + 1 /\ OnTheWay' = OnTheWay - 1 /\ Published' \in Nat
          /\ OnTheWay' \in Nat
      BY <1>1, <1>2, <3>1, Counts DEF Published, OnTheWay, TypeOK
    <3> QED
      BY <1>1, <3>1, <3>2, AtomicsAre, Counts DEF TypeOK
  <2>3. CASE PublishTemperature \/ PublishThrows \/ SeeFailure
    <3>1. /\ publisher' \in {"loop", "ended"} /\ queued' = queued
          /\ \E counted \in {{"auxiliary"}, {"failure"}, {}} : pending' = pending \cup counted
          /\ admission' \in BOOLEAN /\ failed' \in BOOLEAN
      BY <1>1, <2>3 DEF PublishTemperature, PublishThrows, SeeFailure, PublisherMoves, TypeOK
    <3>2. pending' \subseteq Metrics /\ ("publish" \in pending' <=> "publish" \in pending)
      BY <1>1, <3>1, AtomicsAre DEF TypeOK
    <3>3. Published' = Published /\ OnTheWay' <= OnTheWay /\ OnTheWay' \in Nat
      BY <1>1, <1>2, <3>1, <3>2 DEF Published, OnTheWay, TypeOK
    <3> QED
      BY <1>1, <3>1, <3>2, <3>3, Counts DEF TypeOK
  <2> QED
    BY <2>1, <2>2, <2>3 DEF Publisher
<1>4. TypeOK'
  BY <1>1, <1>2, <1>3 DEF TypeOK
<1>5. FlowOK'
  <2>1. Published' \in Nat /\ OnTheWay' \in Nat
    <3>1. atomics'["publish"] \in Nat /\ queued' \in Nat
      BY <1>1, <1>2, <1>3, Counts
    <3>2. Published' \in Nat
      BY <3>1 DEF Published
    <3> QED
      BY <1>3, <3>2
  <2> QED
    BY <1>1, <1>2, <1>3, <2>1, Counts DEF FlowOK
<1>6. FirstOK' /\ LoadedOK'
  BY <1>1, <1>2 DEF FirstOK, LoadedOK
<1> QED
  BY <1>4, <1>5, <1>6 DEF IInv

LEMMA VisibleKeeps ==
  ASSUME IInv, Visible
  PROVE  IInv'
<1> USE DEF acquisitionVars, mainVars
<1>1. TypeOK /\ FlowOK /\ FirstOK /\ LoadedOK
  BY DEF IInv
<1>2. PICK a \in pending : atomics' = [atomics EXCEPT ![a] = @ + 1] /\ pending' = pending \ {a}
  BY DEF Visible
<1>3. UNCHANGED <<clock, admission, failed, queued, publisher, acquisition, first, timer>>
  BY DEF Visible
<1>4. a \in Metrics /\ a \in Atomics /\ a # "source_count" /\ a # "source_first_ns"
      /\ atomics[a] \in Nat
  BY <1>1, AtomicsAre DEF TypeOK
<1>5. /\ atomics' \in [Atomics -> Nat] /\ atomics'[a] = atomics[a] + 1
      /\ \A b \in Atomics : b # a => atomics'[b] = atomics[b]
  BY <1>1, <1>2, <1>4 DEF TypeOK
<1>6. /\ atomics'["source_count"] = atomics["source_count"]
      /\ atomics'["source_first_ns"] = atomics["source_first_ns"]
      /\ atomics'["publish"] >= atomics["publish"] /\ Published' = Published
  BY <1>1, <1>2, <1>4, <1>5, AtomicsAre, Counts DEF Published
<1>7. TypeOK'
  BY <1>1, <1>2, <1>3, <1>5 DEF TypeOK
<1>8. FlowOK' /\ FirstOK'
  BY <1>1, <1>3, <1>6 DEF FlowOK, FirstOK, OnTheWay
<1>9. LoadedOK'
  BY <1>1, <1>3, <1>6, <1>7, Counts, LoadedStays
<1> QED
  BY <1>7, <1>8, <1>9 DEF IInv

-----------------------------------------------------------------------------
(* The steps of the main thread.                                           *)

\* What one load of Snapshot does; the first arrival is loaded behind the source count.
LEMMA SnapshotLoads ==
  ASSUME TypeOK, Snapshot
  PROVE  \E i \in 1..5 :
           /\ timer' \in Timers /\ timer'.read = i /\ (i = 5 => 4 <= timer.read)
           /\ timer'.snapshot["publish"] =
                IF i = 1 THEN atomics["publish"] ELSE timer.snapshot["publish"]
           /\ timer'.snapshot["source"] =
                IF i = 4 THEN atomics["source_count"] ELSE timer.snapshot["source"]
           /\ timer'.snapshot["first"] =
                IF i = 5 THEN atomics["source_first_ns"] ELSE timer.snapshot["first"]
<1>1. PICK i \in ToLoad :
        /\ \A j \in ToLoad : i <= j
        /\ timer' = [timer EXCEPT !.read = i, !.snapshot[AllLoads[i]] = Loaded(AllLoads[i])]
  BY DEF Snapshot
<1>2. i \in 1..5 /\ i > timer.read /\ timer.read \in 0..5
  BY <1>1, Loads, Counts DEF ToLoad
<1>3. AllLoads[i] \in Fields /\ Loaded(AllLoads[i]) \in Nat
  <2>1. i \in {1, 2, 3, 4, 5}
    BY <1>2
  <2>2. AllLoads[i] \in {"publish", "auxiliary", "failure", "source", "first"}
    BY <2>1, Loads
  <2> QED
    BY <2>2, AtomicsAre DEF Fields, Loaded, TypeOK
<1> DEFINE s == [timer.snapshot EXCEPT ![AllLoads[i]] = Loaded(AllLoads[i])]
<1>4. s \in [Fields -> Nat]
  BY <1>3 DEF TypeOK, Timers
<1>5. timer' = [timer EXCEPT !.read = i, !.snapshot = s]
  BY <1>1 DEF TypeOK, Timers
<1>6. \A f \in Fields : s[f] = IF f = AllLoads[i] THEN Loaded(f) ELSE timer.snapshot[f]
  BY <1>3 DEF TypeOK, Timers
<1> HIDE DEF s
<1>7. timer' \in Timers /\ timer'.read = i /\ timer'.snapshot = s
  <2>1. timer \in Timers /\ i \in 0..5
    BY <1>2 DEF TypeOK
  <2> QED
    BY <1>4, <1>5, <2>1 DEF Timers
<1>8. /\ s["publish"] = IF i = 1 THEN atomics["publish"] ELSE timer.snapshot["publish"]
      /\ s["source"] = IF i = 4 THEN atomics["source_count"] ELSE timer.snapshot["source"]
      /\ s["first"] = IF i = 5 THEN atomics["source_first_ns"] ELSE timer.snapshot["first"]
  <2>1. i \in {1, 2, 3, 4, 5}
    BY <1>2
  <2>2. "publish" \in Fields /\ "source" \in Fields /\ "first" \in Fields
    BY DEF Fields
  <2> QED
    BY <1>6, <2>1, <2>2, Loads DEF Loaded
<1>9. i = 5 => 4 <= timer.read
  <2>1. AllLoads[4] \in Observed
    BY Loads, ObservedAssumption
  <2> QED
    BY <1>1, <1>2, <2>1, Loads DEF ToLoad
<1> QED
  BY <1>2, <1>7, <1>8, <1>9

\* A snapshot is not taken before every load followed was made.
LEMMA TakenLoads ==
  ASSUME TypeOK, SnapshotTaken
  PROVE  5 <= timer.read
<1>1. AllLoads[5] \in Observed
  BY Loads, ObservedAssumption
<1> QED
  BY <1>1, Loads, Counts DEF SnapshotTaken, ToLoad

LEMMA SnapshotKeeps ==
  ASSUME IInv, Snapshot
  PROVE  IInv'
<1>1. TypeOK /\ FlowOK /\ FirstOK /\ LoadedOK
  BY DEF IInv
<1>2. UNCHANGED <<clock, admission, failed, queued, publisher, atomics, pending, acquisition, first>>
  BY DEF Snapshot, MainUnchanged, acquisitionVars
<1>3. PICK i \in 1..5 :
        /\ timer' \in Timers /\ timer'.read = i /\ (i = 5 => 4 <= timer.read)
        /\ timer'.snapshot["publish"] =
             IF i = 1 THEN atomics["publish"] ELSE timer.snapshot["publish"]
        /\ timer'.snapshot["source"] =
             IF i = 4 THEN atomics["source_count"] ELSE timer.snapshot["source"]
        /\ timer'.snapshot["first"] =
             IF i = 5 THEN atomics["source_first_ns"] ELSE timer.snapshot["first"]
  BY <1>1, SnapshotLoads
<1>4. TypeOK'
  BY <1>1, <1>2, <1>3 DEF TypeOK
<1>5. FlowOK' /\ FirstOK'
  BY <1>1, <1>2 DEF FlowOK, FirstOK, Published, OnTheWay
<1>6. LoadedOK'
  <2>1. atomics["publish"] <= atomics["source_count"]
    BY <1>1, Counts DEF FlowOK, Published
  <2>2. CASE i \in {1, 2, 3}
    BY <1>1, <1>2, <1>3, <2>2, Counts DEF LoadedOK
  <2>3. CASE i = 4
    BY <1>1, <1>2, <1>3, <2>1, <2>3, Counts DEF LoadedOK
  <2>4. CASE i = 5
    <3>1. timer'.snapshot["source"] > 0 => timer'.snapshot["first"] = first
      BY <1>1, <1>3, <2>4, Counts DEF LoadedOK, FirstOK
    <3> QED
      BY <1>1, <1>2, <1>3, <2>4, <3>1, Counts DEF LoadedOK
  <2> QED
    BY <1>3, <2>2, <2>3, <2>4
<1> QED
  BY <1>4, <1>5, <1>6 DEF IInv

\* A snapshot begins or is dropped.
LEMMA AgainKeeps ==
  ASSUME IInv, timer' \in Timers, timer'.read = 0,
         timer'.snapshot["publish"] = 0, timer'.snapshot["source"] = 0, MainUnchanged
  PROVE  IInv'
<1>1. TypeOK /\ FlowOK /\ FirstOK /\ LoadedOK
  BY DEF IInv
<1>2. UNCHANGED <<clock, admission, failed, queued, publisher, atomics, pending, acquisition, first>>
  BY DEF MainUnchanged, acquisitionVars
<1>3. TypeOK' /\ FlowOK' /\ FirstOK'
  BY <1>1, <1>2 DEF TypeOK, FlowOK, FirstOK, Published, OnTheWay
<1>4. LoadedOK'
  BY <1>1, <1>2, Counts DEF LoadedOK
<1> QED
  BY <1>3, <1>4 DEF IInv

LEMMA MainKeeps ==
  ASSUME IInv, TakeTime \/ StartReturns \/ LogRateMetrics
  PROVE  IInv'
<1>1. MainUnchanged
  BY DEF TakeTime, StartReturns, LogRateMetrics
<1>2. CASE TakeTime
  <2> DEFINE s == [Zero EXCEPT !["end"] = clock]
  <2>1. s \in [Fields -> Nat] /\ s["publish"] = 0 /\ s["source"] = 0
    BY DEF IInv, TypeOK, Zero, Fields
  <2>2. timer' = [idle |-> FALSE, read |-> 0, snapshot |-> s]
    BY <1>2 DEF TakeTime, Idle
  <2> HIDE DEF s
  <2> QED
    BY <1>1, <2>1, <2>2, AgainKeeps DEF Timers
<1>3. CASE timer' = Idle
  BY <1>1, <1>3, AgainKeeps DEF Timers, Idle, Zero, Fields
<1> QED
  BY <1>2, <1>3 DEF StartReturns, LogRateMetrics

LEMMA Step == IInv /\ [Next]_vars => IInv'
<1> SUFFICES ASSUME IInv, [Next]_vars PROVE IInv'
  OBVIOUS
<1>1. CASE Tick \/ LeaveLoop \/ Over \/ UNCHANGED vars
  <2>1. /\ UNCHANGED <<admission, failed, queued, publisher, atomics, pending, acquisition, first, timer>>
        /\ clock' = clock \/ clock' = clock + 1
    BY <1>1 DEF Tick, LeaveLoop, MainUnchanged, Over, vars, acquisitionVars, mainVars
  <2> QED
    BY <2>1 DEF IInv, TypeOK, FlowOK, FirstOK, LoadedOK, Published, OnTheWay
<1> QED
  BY <1>1, AcquisitionKeeps, PublisherKeeps, VisibleKeeps, SnapshotKeeps, MainKeeps DEF Next, Timer

\* The strengthened invariant, for every number of samples and whatever is followed.
THEOREM Invariance == Spec => []IInv
BY Initially, Step, PTL DEF Spec

\* The order of Snapshot's loads (imu_publisher.cpp): the metrics before source_count_,
\* and that before source_first_ns_.
THEOREM SnapshotIsConsistent == Spec => []SnapshotAgrees
<1>1. IInv => SnapshotAgrees
  <2> SUFFICES ASSUME IInv, SnapshotTaken
               PROVE  /\ timer.snapshot["source"] >= timer.snapshot["publish"]
                      /\ timer.snapshot["source"] > 0 => timer.snapshot["first"] = first
    BY DEF SnapshotAgrees
  <2>1. TypeOK /\ LoadedOK
    BY DEF IInv
  <2>2. 5 <= timer.read
    BY <2>1, TakenLoads
  <2> QED
    BY <2>1, <2>2, Counts DEF LoadedOK
<1> QED
  BY <1>1, Invariance, PTL

-----------------------------------------------------------------------------
(* What the lines logged add up to.                                        *)

\* The baseline and the lines together are the last snapshot, and the next one
\* shows no less.
LoggedOK ==
    /\ previous["source"] \in Nat /\ baseline \in Nat /\ logged \in Nat
    /\ baseline + logged = previous["source"]
    /\ previous["source"] <= atomics["source_count"]
    /\ 4 <= timer.read => previous["source"] <= timer.snapshot["source"]
    /\ main = "starting" => logged = 0

LEMMA InitLogged == Init => LoggedOK
<1> SUFFICES ASSUME Init PROVE LoggedOK
  OBVIOUS
<1>1. previous["source"] = 0 /\ timer.read = 0
  BY DEF Init, Zero, Fields, Idle
<1>2. atomics["source_count"] = 0
  BY DEF Init
<1> QED
  BY <1>1, <1>2 DEF Init, LoggedOK

\* The threads that run beside the main thread only add to the source count.
LEMMA OthersLog ==
  ASSUME IInv, LoggedOK, Tick \/ Arrive \/ Malformed \/ Acquisition \/ Publisher \/ Visible
  PROVE  LoggedOK'
<1>1. UNCHANGED <<main, timer, previous, baseline, logged>>
  BY DEF Tick, Arrive, Malformed, Acquisition, StoreFirst, CountSource, NotAdmitted, Admit,
     Overflow, AcquisitionMoves, Publisher, PublisherMoves, Take, PublishImu, PublishTemperature,
     PublishThrows, SeeFailure, Visible, mainVars, logVars
<1>2. TypeOK
  BY DEF IInv
<1>3. atomics'["source_count"] \in {atomics["source_count"], atomics["source_count"] + 1}
  <2>1. CASE Visible
    <3>1. PICK a \in pending : atomics' = [atomics EXCEPT ![a] = @ + 1]
      BY <2>1 DEF Visible
    <3> QED
      BY <1>2, <3>1, AtomicsAre DEF TypeOK
  <2>2. CASE Tick \/ Arrive \/ Malformed \/ Acquisition \/ Publisher
    BY <1>2, <2>2, AtomicsAre DEF TypeOK, Tick, Arrive, Malformed, Acquisition, StoreFirst,
       CountSource, NotAdmitted, Admit, Overflow, AcquisitionMoves, Publisher, PublisherMoves,
       Take, PublishImu, PublishTemperature, PublishThrows, SeeFailure
  <2> QED
    BY <2>1, <2>2
<1> QED
  BY <1>1, <1>2, <1>3, Counts DEF LoggedOK

LEMMA MainLogs ==
  ASSUME IInv, LoggedOK, Timer \/ LeaveLoop \/ Over
  PROVE  LoggedOK'
<1>1. TypeOK /\ LoadedOK
  BY DEF IInv
<1>2. UNCHANGED atomics
  BY DEF Timer, TakeTime, Snapshot, StartReturns, LogRateMetrics, LeaveLoop, Over, MainUnchanged,
     vars
<1>3. CASE TakeTime
  <2>1. timer'.read = 0 /\ UNCHANGED <<main, previous, baseline, logged>>
    BY <1>3 DEF TakeTime, Idle, logVars
  <2> QED
    BY <1>2, <2>1 DEF LoggedOK
<1>4. CASE Snapshot
  <2>1. UNCHANGED <<main, previous, baseline, logged>>
    BY <1>4 DEF Snapshot, logVars
  <2>2. PICK i \in 1..5 :
          /\ timer'.read = i /\ (i = 5 => 4 <= timer.read)
          /\ timer'.snapshot["source"] =
               IF i = 4 THEN atomics["source_count"] ELSE timer.snapshot["source"]
    BY <1>1, <1>4, SnapshotLoads
  <2> QED
    BY <1>2, <2>1, <2>2 DEF LoggedOK
<1>5. CASE StartReturns
  <2>1. /\ main' = "running" /\ timer'.read = 0 /\ previous' = timer.snapshot
        /\ baseline' = timer.snapshot["source"] /\ logged' = 0
    BY <1>5 DEF StartReturns, Idle, LoggedOK
  <2> QED
    BY <1>1, <1>2, <2>1, Counts DEF LoggedOK, LoadedOK
<1>6. CASE LogRateMetrics
  <2>1. /\ main' = "running" /\ timer'.read = 0 /\ previous' = timer.snapshot
        /\ baseline' = baseline
        /\ logged' = logged + SaturatingSubtract(timer.snapshot["source"], previous["source"])
    BY <1>6 DEF LogRateMetrics, Idle
  <2>2. 5 <= timer.read
    BY <1>1, <1>6, TakenLoads DEF LogRateMetrics
  <2>3. SaturatingSubtract(timer.snapshot["source"], previous["source"])
          = timer.snapshot["source"] - previous["source"]
    BY <1>1, <2>2, Counts DEF SaturatingSubtract, LoggedOK
  <2> QED
    BY <1>1, <1>2, <2>1, <2>2, <2>3, Counts DEF LoggedOK, LoadedOK
<1>7. CASE LeaveLoop \/ Over
  <2>1. UNCHANGED <<timer, previous, baseline, logged>> /\ (main' = "over")
    BY <1>7 DEF LeaveLoop, Over, vars, mainVars, logVars
  <2> QED
    BY <1>2, <2>1 DEF LoggedOK
<1> QED
  BY <1>3, <1>4, <1>5, <1>6, <1>7 DEF Timer

\* No sample is in two lines, or in a line before it was acquired: the baseline and the
\* lines never add up to more than the samples acquired, and no line's difference is cut
\* off at zero (LogRateMetrics keeps the snapshot that it has logged).
THEOREM LoggedOnce ==
  Spec => [](baseline + logged = previous["source"]
             /\ baseline + logged <= atomics["source_count"])
<1>1. IInv /\ LoggedOK /\ [Next]_vars => LoggedOK'
  <2> SUFFICES ASSUME IInv, LoggedOK, [Next]_vars PROVE LoggedOK'
    OBVIOUS
  <2>1. CASE UNCHANGED vars
    BY <2>1 DEF vars, mainVars, logVars, LoggedOK
  <2> QED
    BY <2>1, OthersLog, MainLogs DEF Next
<1>2. LoggedOK => /\ baseline + logged = previous["source"]
                  /\ baseline + logged <= atomics["source_count"]
  BY DEF LoggedOK
<1> QED
  BY <1>1, <1>2, InitLogged, Invariance, PTL DEF Spec
=============================================================================
