-------------------------- MODULE TimestampMapper --------------------------
(***************************************************************************)
(* The time base of the published messages: SensorTimestampMapper of       *)
(* src/timestamp_mapper.cpp, captured once when the SensorNode is built,   *)
(* and the stamps that the camera and the IMU publisher compute with it.   *)
(*                                                                         *)
(* Times are nanoseconds.  The widths of the machine's integers are        *)
(* constants, so that TLC checks them small and the proofs leave them      *)
(* open; arithmetic on uint64_t and the casts wrap as the machine's do.    *)
(***************************************************************************)
EXTENDS Integers

CONSTANTS
    MaxU64,               \* the largest uint64_t
    MaxI64,               \* the largest int64_t
    MaxI32,               \* the largest int32_t, for the seconds of a ROS stamp
    NanosecondsPerSecond,
    Sources,              \* the publishers that stamp messages
    Camera,               \* the one of them whose timestamps depend on the trigger mode
    MaxClock              \* bound: the last reading of either clock

ASSUME WidthsAssumption ==
    /\ MaxI64 \in Nat \ {0} /\ MaxU64 = 2 * MaxI64 + 1
    /\ MaxI32 \in Nat
    /\ NanosecondsPerSecond \in Nat \ {0}
ASSUME ClockAssumption == MaxClock \in Nat

U64 == 0..MaxU64
I64 == (-MaxI64 - 1)..MaxI64
\* A function that may throw or fail yields the set of what it returns.
Thrown == {}

-----------------------------------------------------------------------------
(* Machine arithmetic.                                                     *)

AddU64(a, b) == IF a + b > MaxU64 THEN a + b - MaxU64 - 1 ELSE a + b
SubU64(a, b) == IF a >= b THEN a - b ELSE a - b + MaxU64 + 1
\* static_cast<int64_t>, and the negation of an int64_t: -min is min.
ToI64(a) == IF a > MaxI64 THEN a - MaxU64 - 1 ELSE a
NegI64(i) == IF i = -MaxI64 - 1 THEN i ELSE -i

-----------------------------------------------------------------------------
(* timestamp_mapper.cpp.                                                   *)

\* ReadSystemClock of a clock that stands at t: a reading that does not fit fails.
ReadSystemClock(t) ==
    LET seconds == t \div NanosecondsPerSecond
        subsecond == t % NanosecondsPerSecond
    IN  IF \/ seconds > MaxU64 \div NanosecondsPerSecond
           \/ seconds * NanosecondsPerSecond > MaxU64 - subsecond
        THEN Thrown
        ELSE {seconds * NanosecondsPerSecond + subsecond}

\* Mutant: a realtime clock 2^63 behind is refused.
CheckedOffsetSymmetric(realtime_ns, monotonic_raw_ns) ==
    LET positive == SubU64(realtime_ns, monotonic_raw_ns)
        negative == SubU64(monotonic_raw_ns, realtime_ns)
    IN  IF realtime_ns >= monotonic_raw_ns
        THEN IF positive > MaxI64 THEN Thrown ELSE {ToI64(positive)}
        ELSE IF negative > MaxI64 THEN Thrown ELSE {NegI64(ToI64(negative))}

CheckedOffset(realtime_ns, monotonic_raw_ns) ==
    LET positive == SubU64(realtime_ns, monotonic_raw_ns)
        negative == SubU64(monotonic_raw_ns, realtime_ns)
    IN  IF realtime_ns >= monotonic_raw_ns
        THEN IF positive > MaxI64 THEN Thrown ELSE {ToI64(positive)}
        ELSE IF negative > MaxI64 + 1 THEN Thrown
        ELSE IF negative = MaxI64 + 1 THEN {-MaxI64 - 1}
        ELSE {NegI64(ToI64(negative))}

NegativeOffsetMagnitude(offset_ns) ==
    IF offset_ns = -MaxI64 - 1 THEN MaxI64 + 1 ELSE NegI64(offset_ns)

\* Mutants: the overflow test of the positive branch is left out; it refuses the
\* largest representable time.
MapWithoutOverflowTest(raw, offset_ns) ==
    IF offset_ns >= 0 THEN {AddU64(raw, offset_ns)}
    ELSE IF raw < NegativeOffsetMagnitude(offset_ns) THEN Thrown
    ELSE {SubU64(raw, NegativeOffsetMagnitude(offset_ns))}
MapRefusesLargest(raw, offset_ns) ==
    IF offset_ns >= 0
    THEN IF raw >= SubU64(MaxU64, offset_ns) THEN Thrown ELSE {AddU64(raw, offset_ns)}
    ELSE IF raw <= NegativeOffsetMagnitude(offset_ns) THEN Thrown
    ELSE {SubU64(raw, NegativeOffsetMagnitude(offset_ns))}

MapMonotonicRawToRealtimeNs(raw, offset_ns) ==
    IF offset_ns >= 0
    THEN IF raw > SubU64(MaxU64, offset_ns) THEN Thrown ELSE {AddU64(raw, offset_ns)}
    ELSE IF raw < NegativeOffsetMagnitude(offset_ns) THEN Thrown
    ELSE {SubU64(raw, NegativeOffsetMagnitude(offset_ns))}

ToRosStampParts(t) ==
    IF t \div NanosecondsPerSecond > MaxI32 THEN Thrown
    ELSE {[sec |-> t \div NanosecondsPerSecond, nanosec |-> t % NanosecondsPerSecond]}

Stamps == [sec : 0..MaxI32, nanosec : 0..(NanosecondsPerSecond - 1)]

-----------------------------------------------------------------------------
(* The clocks, the capture and the publishers.                             *)

VARIABLES
    trigger_mode, \* options.trigger_mode, as configured
    clock,     \* where CLOCK_REALTIME and CLOCK_MONOTONIC_RAW stand
    phase,     \* of the mapper's construction; "refused" when it threw
    snapshot,  \* SensorTimestampMapperSnapshot
    latest,    \* the last message of each source: its raw timestamp and stamp
    thrown     \* the source and timestamp of each stamp that threw

vars == <<trigger_mode, clock, phase, snapshot, latest, thrown>>

Snapshots == [realtime_start_ns : U64, monotonic_raw_start_ns : U64,
              realtime_minus_monotonic_raw_ns : I64]

TypeOK ==
    /\ trigger_mode \in {"software_gpio", "none"}
    /\ clock \in [realtime : 0..MaxClock, raw : 0..MaxClock]
    /\ phase \in {"realtime", "raw", "ready", "refused"}
    /\ snapshot \in Snapshots
    /\ latest \in [Sources -> SUBSET [raw : U64, stamp : Stamps]]
    /\ thrown \subseteq Sources \X U64

Init ==
    /\ trigger_mode \in {"software_gpio", "none"}
    /\ clock \in [realtime : 0..MaxClock, raw : 0..MaxClock]
    /\ phase = "realtime"
    /\ snapshot = [realtime_start_ns |-> 0, monotonic_raw_start_ns |-> 0,
                   realtime_minus_monotonic_raw_ns |-> 0]
    /\ latest = [s \in Sources |-> {}]
    /\ thrown = {}

\* Both clocks run; only CLOCK_REALTIME is ever set.
Tick ==
    /\ clock.realtime < MaxClock /\ clock.raw < MaxClock
    /\ clock' = [realtime |-> clock.realtime + 1, raw |-> clock.raw + 1]
    /\ UNCHANGED <<trigger_mode, phase, snapshot, latest, thrown>>
SetRealtime ==
    /\ \E t \in 0..MaxClock : clock' = [clock EXCEPT !.realtime = t]
    /\ UNCHANGED <<trigger_mode, phase, snapshot, latest, thrown>>

\* Capture reads the two clocks one after the other.
ReadRealtime ==
    /\ phase = "realtime" /\ phase' = "raw"
    /\ \E t \in ReadSystemClock(clock.realtime) :
        snapshot' = [snapshot EXCEPT !.realtime_start_ns = t]
    /\ UNCHANGED <<trigger_mode, clock, latest, thrown>>
ReadRaw ==
    /\ phase = "raw" /\ phase' = "ready"
    /\ \E t \in ReadSystemClock(clock.raw) :
        \E offset \in CheckedOffset(snapshot.realtime_start_ns, t) :
            snapshot' = [snapshot EXCEPT !.monotonic_raw_start_ns = t,
                                         !.realtime_minus_monotonic_raw_ns = offset]
    /\ UNCHANGED <<trigger_mode, clock, latest, thrown>>

\* A reading fails, or the offset does not fit: no SensorNode is built.
CaptureThrows ==
    /\ \/ phase = "realtime" /\ ReadSystemClock(clock.realtime) = Thrown
       \/ phase = "raw" /\ \A t \in ReadSystemClock(clock.raw) :
            CheckedOffset(snapshot.realtime_start_ns, t) = Thrown
    /\ phase' = "refused"
    /\ UNCHANGED <<trigger_mode, clock, snapshot, latest, thrown>>

\* The sources whose timestamps are in the CLOCK_MONOTONIC_RAW domain.
RawSources == IF trigger_mode = "software_gpio" THEN Sources ELSE Sources \ {Camera}

\* HeaderStampFromFrame and PublishSample: the stamp of a timestamp of source s.
HeaderStamp(s, timestamp) ==
    UNION {ToRosStampParts(t) : t \in
            IF s \in RawSources
            THEN MapMonotonicRawToRealtimeNs(timestamp, snapshot.realtime_minus_monotonic_raw_ns)
            ELSE {timestamp}}

\* Source s publishes a sample of the past; what throws ends the publisher.
Publish(s) ==
    /\ phase = "ready" /\ \A r \in thrown : r[1] # s
    /\ \E timestamp \in U64 :
        /\ timestamp <= clock.raw
        /\ \/ \E stamp \in HeaderStamp(s, timestamp) :
                /\ latest' = [latest EXCEPT ![s] = {[raw |-> timestamp, stamp |-> stamp]}]
                /\ UNCHANGED thrown
           \/ /\ HeaderStamp(s, timestamp) = Thrown
              /\ thrown' = thrown \cup {<<s, timestamp>>}
              /\ UNCHANGED latest
    /\ UNCHANGED <<trigger_mode, clock, phase, snapshot>>

Next ==
    \/ Tick \/ SetRealtime
    \/ ReadRealtime \/ ReadRaw \/ CaptureThrows
    \/ \E s \in Sources : Publish(s)

Spec == Init /\ [][Next]_vars

-----------------------------------------------------------------------------
(* Properties.                                                             *)

\* The time that a stamp denotes.
Nanoseconds(stamp) == stamp.sec * NanosecondsPerSecond + stamp.nanosec

\* Captured once, the offset as an integer, free of widths and casts.
Offset == snapshot.realtime_start_ns - snapshot.monotonic_raw_start_ns

\* The camera and the IMU share one time base: the stamps of two messages lie as
\* far apart as their acquisitions, whatever is done to the realtime clock in
\* between and whatever the widths (Map..., ToRosStampParts, one mapper per node).
CommonTimeBase ==
    \A s, t \in RawSources : \A a \in latest[s], b \in latest[t] :
        Nanoseconds(a.stamp) - Nanoseconds(b.stamp) = a.raw - b.raw

\* A publisher is ended by a stamp only if its realtime really fits neither uint64_t
\* nor the seconds of a ROS stamp.
ThrowsOnlyOutOfRange ==
    \A r \in thrown : r[1] \in RawSources =>
        r[2] + Offset \notin 0..MaxU64 \/ r[2] + Offset >= (MaxI32 + 1) * NanosecondsPerSecond

\* Every offset that an int64_t can hold is accepted, the smallest one included.
OffsetAcceptedIfItFits ==
    [][CaptureThrows =>
        IF phase = "realtime" THEN clock.realtime \notin U64
        ELSE clock.raw \notin U64 \/ snapshot.realtime_start_ns - clock.raw \notin I64]_vars

=============================================================================
