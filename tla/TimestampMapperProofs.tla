----------------------- MODULE TimestampMapperProofs -----------------------
(***************************************************************************)
(* Theorems about TimestampMapper for integers of any width.               *)
(***************************************************************************)
EXTENDS TimestampMapper, TLAPS

USE WidthsAssumption, ClockAssumption

-----------------------------------------------------------------------------
(* What the functions of timestamp_mapper.cpp compute.                     *)

\* CheckedOffset returns the difference whenever an int64_t can hold it, the
\* smallest one included, and throws otherwise; no step of it overflows.
THEOREM CheckedOffsetExact ==
  ASSUME NEW a \in U64, NEW b \in U64
  PROVE  CheckedOffset(a, b) = IF a - b \in I64 THEN {a - b} ELSE Thrown
<1>1. CASE a >= b
  <2>1. SubU64(a, b) = a - b
    BY <1>1 DEF SubU64
  <2> QED
    BY <1>1, <2>1 DEF CheckedOffset, ToI64, U64, I64
<1>2. CASE ~(a >= b)
  <2>1. SubU64(b, a) = b - a /\ b - a \in 1..MaxU64
    BY <1>2 DEF SubU64, U64
  <2>2. CASE b - a > MaxI64 + 1
    BY <1>2, <2>1, <2>2 DEF CheckedOffset, U64, I64
  <2>3. CASE b - a = MaxI64 + 1
    BY <1>2, <2>1, <2>3 DEF CheckedOffset, U64, I64
  <2>4. CASE b - a < MaxI64 + 1
    BY <1>2, <2>1, <2>4 DEF CheckedOffset, ToI64, NegI64, U64, I64
  <2> QED
    BY <2>1, <2>2, <2>3, <2>4
<1> QED
  BY <1>1, <1>2

\* MapMonotonicRawToRealtimeNs adds the offset exactly, and throws if and only if
\* the sum does not fit a uint64_t.
THEOREM MapExact ==
  ASSUME NEW raw \in U64, NEW offset \in I64
  PROVE  MapMonotonicRawToRealtimeNs(raw, offset) =
            IF raw + offset \in U64 THEN {raw + offset} ELSE Thrown
<1>1. CASE offset >= 0
  <2>1. SubU64(MaxU64, offset) = MaxU64 - offset
    BY <1>1 DEF SubU64, I64
  <2> QED
    BY <1>1, <2>1 DEF MapMonotonicRawToRealtimeNs, AddU64, U64, I64
<1>2. CASE ~(offset >= 0)
  <2>1. NegativeOffsetMagnitude(offset) = -offset /\ -offset \in 1..MaxU64
    BY <1>2 DEF NegativeOffsetMagnitude, NegI64, I64
  <2>2. CASE raw < -offset
    <3>1. raw + offset \notin U64
      BY <1>2, <2>2 DEF U64, I64
    <3> QED
      BY <1>2, <2>1, <2>2, <3>1 DEF MapMonotonicRawToRealtimeNs, U64, I64
  <2>3. CASE ~(raw < -offset)
    <3>1. raw + offset \in U64 /\ SubU64(raw, -offset) = raw + offset
      BY <1>2, <2>3 DEF SubU64, U64, I64
    <3> QED
      BY <1>2, <2>1, <2>3, <3>1 DEF MapMonotonicRawToRealtimeNs
  <2> QED
    BY <2>2, <2>3
<1> QED
  BY <1>1, <1>2

LEMMA Division ==
  ASSUME NEW t \in Nat
  PROVE  /\ t \div NanosecondsPerSecond \in Nat
         /\ t % NanosecondsPerSecond \in 0..(NanosecondsPerSecond - 1)
         /\ t = (t \div NanosecondsPerSecond) * NanosecondsPerSecond
                + (t % NanosecondsPerSecond)
<1>1. NanosecondsPerSecond \in Nat /\ NanosecondsPerSecond > 0
  OBVIOUS
<1>2. t % NanosecondsPerSecond \in 0..(NanosecondsPerSecond - 1)
  BY <1>1
<1>3. t \div NanosecondsPerSecond \in Nat
  BY <1>1
<1>4. t = (t \div NanosecondsPerSecond) * NanosecondsPerSecond + (t % NanosecondsPerSecond)
  BY <1>1
<1> QED
  BY <1>2, <1>3, <1>4

LEMMA MultiplicationIsMonotonic ==
  ASSUME NEW m \in Nat, NEW n \in Nat, m < n
  PROVE  m * NanosecondsPerSecond + NanosecondsPerSecond <= n * NanosecondsPerSecond
<1>1. NanosecondsPerSecond \in Nat
  OBVIOUS
<1>2. PICK k \in Nat : n = m + 1 + k
  <2>1. n - m - 1 \in Nat /\ n = m + 1 + (n - m - 1)
    OBVIOUS
  <2> QED
    BY <2>1
<1>3. k * NanosecondsPerSecond \in Nat /\ m * NanosecondsPerSecond \in Nat
  BY <1>1
<1>4. (m + 1 + k) * NanosecondsPerSecond =
        m * NanosecondsPerSecond + NanosecondsPerSecond + k * NanosecondsPerSecond
  BY <1>1
<1> QED
  BY <1>1, <1>2, <1>3, <1>4

\* ToRosStampParts refuses a time if and only if its seconds are beyond an int32_t, and
\* a stamp denotes exactly the time it was made from.
THEOREM StampExact ==
  ASSUME NEW t \in U64
  PROVE  IF t < (MaxI32 + 1) * NanosecondsPerSecond
         THEN \E stamp \in Stamps : ToRosStampParts(t) = {stamp} /\ Nanoseconds(stamp) = t
         ELSE ToRosStampParts(t) = Thrown
<1> DEFINE s == t \div NanosecondsPerSecond
           r == t % NanosecondsPerSecond
<1>1. /\ s \in Nat /\ r \in 0..(NanosecondsPerSecond - 1)
      /\ t = s * NanosecondsPerSecond + r /\ s * NanosecondsPerSecond \in Nat
  BY Division DEF U64
<1>2. MaxI32 * NanosecondsPerSecond \in Nat
      /\ (MaxI32 + 1) * NanosecondsPerSecond
           = MaxI32 * NanosecondsPerSecond + NanosecondsPerSecond
  OBVIOUS
<1>3. CASE s > MaxI32
  <2>1. MaxI32 * NanosecondsPerSecond + NanosecondsPerSecond <= s * NanosecondsPerSecond
    BY <1>1, <1>3, MultiplicationIsMonotonic
  <2>2. ToRosStampParts(t) = Thrown
    BY <1>3 DEF ToRosStampParts
  <2> HIDE DEF s, r
  <2>3. ~(t < (MaxI32 + 1) * NanosecondsPerSecond)
    BY <1>1, <1>2, <2>1
  <2> QED
    BY <2>2, <2>3
<1>4. CASE ~(s > MaxI32)
  <2> DEFINE stamp == [sec |-> s, nanosec |-> r]
  <2>1. ToRosStampParts(t) = {stamp}
    BY <1>4 DEF ToRosStampParts
  <2>2. stamp \in Stamps /\ Nanoseconds(stamp) = t
    BY <1>1, <1>4 DEF Stamps, Nanoseconds
  <2>3. s * NanosecondsPerSecond <= MaxI32 * NanosecondsPerSecond
    <3>1. s < MaxI32 => s * NanosecondsPerSecond + NanosecondsPerSecond
                          <= MaxI32 * NanosecondsPerSecond
      BY <1>1, MultiplicationIsMonotonic
    <3>2. s < MaxI32 \/ s = MaxI32
      BY <1>1, <1>4
    <3> HIDE DEF s, r
    <3> QED
      BY <1>1, <1>2, <3>1, <3>2
  <2>4. t < (MaxI32 + 1) * NanosecondsPerSecond
    <3> HIDE DEF s, r
    <3> QED
      BY <1>1, <1>2, <2>3
  <2> QED
    BY <2>1, <2>2, <2>4
<1> QED
  BY <1>3, <1>4

\* ReadSystemClock fails only for a time past the largest uint64_t, and never
\* returns one that was cut off.
THEOREM ReadExact ==
  ASSUME NEW t \in Nat
  PROVE  ReadSystemClock(t) = IF t \in U64 THEN {t} ELSE Thrown
<1> DEFINE s == t \div NanosecondsPerSecond
           r == t % NanosecondsPerSecond
           q == MaxU64 \div NanosecondsPerSecond
<1>1. /\ s \in Nat /\ r \in 0..(NanosecondsPerSecond - 1)
      /\ t = s * NanosecondsPerSecond + r /\ s * NanosecondsPerSecond \in Nat
  BY Division
<1>2. q \in Nat /\ MaxU64 < q * NanosecondsPerSecond + NanosecondsPerSecond
      /\ q * NanosecondsPerSecond \in Nat
  <2>1. MaxU64 \in Nat
    OBVIOUS
  <2> QED
    BY <2>1, Division
<1>3. s > q => t > MaxU64
  <2>1. SUFFICES ASSUME s > q PROVE t > MaxU64
    OBVIOUS
  <2>2. q * NanosecondsPerSecond + NanosecondsPerSecond <= s * NanosecondsPerSecond
    BY <1>1, <1>2, <2>1, MultiplicationIsMonotonic
  <2> HIDE DEF s, r, q
  <2> QED
    BY <1>1, <1>2, <2>2
<1>4. s * NanosecondsPerSecond > MaxU64 - r <=> t > MaxU64
  <2> HIDE DEF s, r
  <2> QED
    BY <1>1
<1>5. t \in U64 <=> ~(t > MaxU64)
  BY DEF U64
<1> QED
  BY <1>1, <1>3, <1>4, <1>5 DEF ReadSystemClock

-----------------------------------------------------------------------------
(* The inductive invariant: a stamp lies Offset away from its sample.      *)

CapturedOnce ==
    IF phase = "ready" THEN snapshot.realtime_minus_monotonic_raw_ns = Offset
    ELSE thrown = {} /\ \A s \in Sources : latest[s] = {}

StampsAreExact ==
    \A s \in RawSources : \A a \in latest[s] : Nanoseconds(a.stamp) = a.raw + Offset

IInv == TypeOK /\ CapturedOnce /\ StampsAreExact /\ ThrowsOnlyOutOfRange

LEMMA InitIInv == Init => IInv
<1> SUFFICES ASSUME Init PROVE IInv
  OBVIOUS
<1>1. snapshot \in Snapshots
  BY DEF Init, Snapshots, U64, I64
<1>2. TypeOK
  BY <1>1 DEF Init, TypeOK
<1> QED
  BY <1>2 DEF Init, IInv, CapturedOnce, StampsAreExact, ThrowsOnlyOutOfRange, RawSources

LEMMA ClockIInv ==
  ASSUME IInv, Tick \/ SetRealtime
  PROVE  IInv'
<1>1. UNCHANGED <<trigger_mode, phase, snapshot, latest, thrown>>
  BY DEF Tick, SetRealtime
<1>2. clock' \in [realtime : 0..MaxClock, raw : 0..MaxClock]
  <2>1. CASE Tick
    <3>1. clock.realtime + 1 \in 0..MaxClock /\ clock.raw + 1 \in 0..MaxClock
      BY <2>1 DEF Tick, IInv, TypeOK
    <3> QED
      BY <2>1, <3>1 DEF Tick
  <2>2. CASE SetRealtime
    BY <2>2 DEF SetRealtime, IInv, TypeOK
  <2> QED
    BY <2>1, <2>2
<1> QED
  BY <1>1, <1>2 DEF IInv, TypeOK, CapturedOnce, StampsAreExact, ThrowsOnlyOutOfRange, RawSources,
     Offset, Nanoseconds

LEMMA CaptureIInv ==
  ASSUME IInv, ReadRealtime \/ ReadRaw \/ CaptureThrows
  PROVE  IInv'
<1>1. phase \in {"realtime", "raw"} /\ UNCHANGED <<trigger_mode, clock, latest, thrown>>
  BY DEF ReadRealtime, ReadRaw, CaptureThrows
<1>2. thrown = {} /\ \A s \in Sources : latest[s] = {}
  BY <1>1 DEF IInv, CapturedOnce
<1>3. clock.realtime \in Nat /\ clock.raw \in Nat
  BY DEF IInv, TypeOK
<1>4. snapshot' \in Snapshots /\ phase' \in {"raw", "ready", "refused"}
      /\ (phase' = "ready" => snapshot'.realtime_minus_monotonic_raw_ns = Offset')
  <2>1. CASE ReadRealtime
    <3>1. PICK t \in ReadSystemClock(clock.realtime) :
            snapshot' = [snapshot EXCEPT !.realtime_start_ns = t]
      BY <2>1 DEF ReadRealtime
    <3>2. t \in U64
      BY <1>3, <3>1, ReadExact DEF Thrown
    <3> QED
      BY <2>1, <3>1, <3>2 DEF ReadRealtime, IInv, TypeOK, Snapshots
  <2>2. CASE ReadRaw
    <3>1. PICK t \in ReadSystemClock(clock.raw) :
            \E offset \in CheckedOffset(snapshot.realtime_start_ns, t) :
                snapshot' = [snapshot EXCEPT !.monotonic_raw_start_ns = t,
                                             !.realtime_minus_monotonic_raw_ns = offset]
      BY <2>2 DEF ReadRaw
    <3>2. PICK offset \in CheckedOffset(snapshot.realtime_start_ns, t) :
            snapshot' = [snapshot EXCEPT !.monotonic_raw_start_ns = t,
                                         !.realtime_minus_monotonic_raw_ns = offset]
      BY <3>1
    <3>3. t \in U64 /\ snapshot.realtime_start_ns \in U64
      BY <1>3, <3>1, ReadExact DEF Thrown, IInv, TypeOK, Snapshots
    <3>4. offset = snapshot.realtime_start_ns - t /\ offset \in I64
      BY <3>2, <3>3, CheckedOffsetExact DEF Thrown
    <3> QED
      BY <2>2, <3>2, <3>3, <3>4 DEF ReadRaw, IInv, TypeOK, Snapshots, Offset
  <2>3. CASE CaptureThrows
    BY <2>3 DEF CaptureThrows, IInv, TypeOK
  <2> QED
    BY <2>1, <2>2, <2>3 DEF ReadRealtime, ReadRaw, CaptureThrows
<1>5. TypeOK'
  BY <1>1, <1>4 DEF IInv, TypeOK
<1> QED
  BY <1>1, <1>2, <1>4, <1>5 DEF IInv, CapturedOnce, StampsAreExact, ThrowsOnlyOutOfRange,
     RawSources

\* What a stamp of a raw source denotes, and when it throws.
LEMMA HeaderStampExact ==
  ASSUME IInv, phase = "ready", NEW s \in Sources, NEW timestamp \in U64
  PROVE  /\ \A stamp \in HeaderStamp(s, timestamp) :
            /\ stamp \in Stamps
            /\ s \in RawSources => Nanoseconds(stamp) = timestamp + Offset
         /\ HeaderStamp(s, timestamp) = Thrown /\ s \in RawSources =>
                \/ timestamp + Offset \notin 0..MaxU64
                \/ timestamp + Offset >= (MaxI32 + 1) * NanosecondsPerSecond
<1> DEFINE o == snapshot.realtime_minus_monotonic_raw_ns
           times == IF s \in RawSources THEN MapMonotonicRawToRealtimeNs(timestamp, o)
                    ELSE {timestamp}
<1>1. o = Offset /\ o \in I64
  BY DEF IInv, CapturedOnce, TypeOK, Snapshots
<1>2. MapMonotonicRawToRealtimeNs(timestamp, o) =
        IF timestamp + o \in U64 THEN {timestamp + o} ELSE Thrown
  BY <1>1, MapExact
<1>3. \A t \in times : t \in U64 /\ (s \in RawSources => t = timestamp + Offset)
  BY <1>1, <1>2 DEF Thrown
<1>4. \A stamp \in HeaderStamp(s, timestamp) : \E t \in times : stamp \in ToRosStampParts(t)
  BY DEF HeaderStamp
<1>5. \A stamp \in HeaderStamp(s, timestamp) :
        stamp \in Stamps /\ (s \in RawSources => Nanoseconds(stamp) = timestamp + Offset)
  BY <1>3, <1>4, StampExact DEF Thrown
<1>6. ASSUME HeaderStamp(s, timestamp) = Thrown, s \in RawSources, timestamp + Offset \in 0..MaxU64
      PROVE  timestamp + Offset >= (MaxI32 + 1) * NanosecondsPerSecond
  <2>1. times = {timestamp + Offset} /\ timestamp + Offset \in U64
    BY <1>1, <1>2, <1>6 DEF U64
  <2>2. ToRosStampParts(timestamp + Offset) = Thrown
    BY <1>6, <2>1 DEF HeaderStamp, Thrown
  <2>3. ~(timestamp + Offset < (MaxI32 + 1) * NanosecondsPerSecond)
    BY <2>1, <2>2, StampExact DEF Thrown
  <2>4. timestamp + Offset \in Int /\ (MaxI32 + 1) * NanosecondsPerSecond \in Int
    BY <2>1 DEF U64
  <2> QED
    BY <2>3, <2>4
<1> QED
  BY <1>5, <1>6

LEMMA PublishIInv ==
  ASSUME IInv, NEW s \in Sources, Publish(s)
  PROVE  IInv'
<1>1. phase = "ready" /\ UNCHANGED <<trigger_mode, clock, phase, snapshot>>
  BY DEF Publish
<1>2. PICK timestamp \in U64 :
        \/ \E stamp \in HeaderStamp(s, timestamp) :
            /\ latest' = [latest EXCEPT ![s] = {[raw |-> timestamp, stamp |-> stamp]}]
            /\ UNCHANGED thrown
        \/ /\ HeaderStamp(s, timestamp) = Thrown
           /\ thrown' = thrown \cup {<<s, timestamp>>} /\ UNCHANGED latest
  BY DEF Publish
<1>3. RawSources' = RawSources /\ Offset' = Offset
  BY <1>1 DEF RawSources, Offset
<1>4. CapturedOnce'
  BY <1>1, <1>3 DEF IInv, CapturedOnce
<1>5. CASE HeaderStamp(s, timestamp) = Thrown /\ thrown' = thrown \cup {<<s, timestamp>>}
           /\ UNCHANGED latest
  <2>1. TypeOK'
    BY <1>1, <1>5 DEF IInv, TypeOK
  <2>2. StampsAreExact'
    BY <1>3, <1>5 DEF IInv, StampsAreExact, Nanoseconds
  <2>3. ThrowsOnlyOutOfRange'
    BY <1>1, <1>3, <1>5, HeaderStampExact DEF IInv, ThrowsOnlyOutOfRange
  <2> QED
    BY <1>4, <2>1, <2>2, <2>3 DEF IInv
<1>6. ASSUME NEW stamp \in HeaderStamp(s, timestamp),
             latest' = [latest EXCEPT ![s] = {[raw |-> timestamp, stamp |-> stamp]}],
             UNCHANGED thrown
      PROVE  IInv'
  <2>1. stamp \in Stamps /\ (s \in RawSources => Nanoseconds(stamp) = timestamp + Offset)
    BY <1>1, HeaderStampExact
  <2>2. TypeOK'
    BY <1>1, <1>6, <2>1 DEF IInv, TypeOK
  <2>3. latest'[s] = {[raw |-> timestamp, stamp |-> stamp]}
        /\ \A u \in Sources \ {s} : latest'[u] = latest[u]
    BY <1>6 DEF IInv, TypeOK
  <2>4. StampsAreExact'
    <3>1. RawSources \subseteq Sources
      BY DEF RawSources
    <3>2. ASSUME NEW u \in RawSources, NEW a \in latest'[u]
          PROVE  Nanoseconds(a.stamp) = a.raw + Offset
      <4>1. CASE u = s
        <5>1. a = [raw |-> timestamp, stamp |-> stamp]
          BY <2>3, <3>2, <4>1
        <5> QED
          BY <2>1, <4>1, <5>1
      <4>2. CASE u # s
        BY <2>3, <3>1, <4>2 DEF IInv, StampsAreExact
      <4> QED
        BY <4>1, <4>2
    <3> QED
      BY <1>3, <3>2 DEF StampsAreExact, Nanoseconds
  <2>5. ThrowsOnlyOutOfRange'
    BY <1>3, <1>6 DEF IInv, ThrowsOnlyOutOfRange
  <2> QED
    BY <1>4, <2>2, <2>4, <2>5 DEF IInv
<1> QED
  BY <1>2, <1>5, <1>6

LEMMA NextIInv ==
  ASSUME IInv, [Next]_vars
  PROVE  IInv'
<1>1. CASE UNCHANGED vars
  BY <1>1 DEF vars, IInv, TypeOK, CapturedOnce, StampsAreExact, ThrowsOnlyOutOfRange, RawSources,
     Offset, Nanoseconds
<1> QED
  BY <1>1, ClockIInv, CaptureIInv, PublishIInv DEF Next

LEMMA Invariance == Spec => []IInv
<1>1. Init => IInv
  BY InitIInv
<1>2. IInv /\ [Next]_vars => IInv'
  BY NextIInv
<1> QED
  BY <1>1, <1>2, PTL DEF Spec

-----------------------------------------------------------------------------
(* The theorems.                                                           *)

\* Whatever is done to the realtime clock, the messages of the camera and of the
\* IMU are stamped in one time base, for integers of any width.
THEOREM TimeBase == Spec => []CommonTimeBase
<1>1. IInv => CommonTimeBase
  <2> SUFFICES ASSUME IInv, NEW s \in RawSources, NEW t \in RawSources,
                      NEW a \in latest[s], NEW b \in latest[t]
               PROVE  Nanoseconds(a.stamp) - Nanoseconds(b.stamp) = a.raw - b.raw
    BY DEF CommonTimeBase
  <2>1. Nanoseconds(a.stamp) = a.raw + Offset /\ Nanoseconds(b.stamp) = b.raw + Offset
    BY DEF IInv, StampsAreExact
  <2>2. a.raw \in Int /\ b.raw \in Int /\ Offset \in Int
    BY DEF IInv, TypeOK, RawSources, Snapshots, Offset, U64
  <2> QED
    BY <2>1, <2>2
<1> QED
  BY <1>1, Invariance, PTL

\* A publisher never dies of a timestamp that could have been stamped.
THEOREM ThrowsInRange == Spec => []ThrowsOnlyOutOfRange
<1>1. IInv => ThrowsOnlyOutOfRange
  BY DEF IInv
<1> QED
  BY <1>1, Invariance, PTL

\* The node is refused only if a reading or the offset really does not fit.
THEOREM OffsetAccepted == Spec => OffsetAcceptedIfItFits
<1>1. IInv /\ [Next]_vars =>
        [CaptureThrows =>
            IF phase = "realtime" THEN clock.realtime \notin U64
            ELSE clock.raw \notin U64 \/ snapshot.realtime_start_ns - clock.raw \notin I64]_vars
  <2> SUFFICES ASSUME IInv, CaptureThrows
               PROVE  IF phase = "realtime" THEN clock.realtime \notin U64
                      ELSE \/ clock.raw \notin U64
                           \/ snapshot.realtime_start_ns - clock.raw \notin I64
    OBVIOUS
  <2>1. clock.realtime \in Nat /\ clock.raw \in Nat /\ snapshot.realtime_start_ns \in U64
    BY DEF IInv, TypeOK, Snapshots
  <2>2. CASE phase = "realtime"
    BY <2>1, <2>2, ReadExact DEF CaptureThrows, Thrown
  <2>3. CASE phase # "realtime"
    BY <2>1, <2>3, ReadExact, CheckedOffsetExact DEF CaptureThrows, Thrown
  <2> QED
    BY <2>2, <2>3
<1> QED
  BY <1>1, Invariance, PTL DEF Spec, OffsetAcceptedIfItFits

=============================================================================
