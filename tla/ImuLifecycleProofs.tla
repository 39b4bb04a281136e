------------------------- MODULE ImuLifecycleProofs -------------------------
(***************************************************************************)
(* Theorems about ImuLifecycle, for any capacity, any index width it       *)
(* divides, any faults and any value of the bounds.                        *)
(***************************************************************************)
EXTENDS ImuLifecycle, TLAPS

USE RingAssumption, BoundsAssumption

-----------------------------------------------------------------------------
(* The ring's arithmetic.                                                  *)

\* Used, of the indices it is computed from.
Span(w, r) == (w - r) % IndexModulus

LEMMA UsedIsSpan == Used = Span(write, read)
  BY DEF Used, Span

\* A quotient and a remainder below the divisor are the only ones.
LEMMA ModUnique ==
  ASSUME NEW b \in Nat \ {0}, NEW q \in Int, NEW r \in 0..(b - 1), NEW x \in Int,
         x = b * q + r
  PROVE  x % b = r
<1> DEFINE p == x \div b
           s == x % b
<1>1. p \in Int /\ s \in 0..(b - 1) /\ x = b * p + s
  OBVIOUS
<1> HIDE DEF p, s
<1>2. b * (q - p) = s - r
  BY <1>1
<1>3. CASE q - p >= 1
  <2>1. b * (q - p) >= b
    BY <1>1, <1>3
  <2> QED
    BY <1>1, <1>2, <2>1
<1>4. CASE q - p <= -1
  <2>1. b * (q - p) <= -b
    BY <1>1, <1>4
  <2> QED
    BY <1>1, <1>2, <2>1
<1>5. CASE q = p
  BY <1>1, <1>5 DEF s
<1> QED
  BY <1>1, <1>3, <1>4, <1>5

LEMMA SuccValue ==
  ASSUME NEW i \in Indices
  PROVE  /\ Succ(i) \in Indices
         /\ Succ(i) = IF i + 1 = IndexModulus THEN 0 ELSE i + 1
<1>1. CASE i + 1 = IndexModulus
  <2>1. (i + 1) % IndexModulus = 0
    BY <1>1, ModUnique, i + 1 = IndexModulus * 1 + 0 DEF Indices
  <2> QED
    BY <1>1, <2>1 DEF Succ, Indices
<1>2. CASE i + 1 # IndexModulus
  <2>1. (i + 1) % IndexModulus = i + 1
    BY <1>2, ModUnique, i + 1 = IndexModulus * 0 + (i + 1) DEF Indices
  <2> QED
    BY <1>2, <2>1 DEF Succ, Indices
<1> QED
  BY <1>1, <1>2

LEMMA SpanValue ==
  ASSUME NEW w \in Indices, NEW r \in Indices
  PROVE  Span(w, r) = IF w >= r THEN w - r ELSE w - r + IndexModulus
<1>1. CASE w >= r
  <2>1. w - r = IndexModulus * 0 + (w - r)
    BY DEF Indices
  <2> QED
    BY <1>1, <2>1, ModUnique DEF Span, Indices
<1>2. CASE ~(w >= r)
  <2>1. w - r = IndexModulus * (-1) + (w - r + IndexModulus)
    BY DEF Indices
  <2>2. w - r + IndexModulus \in 0..(IndexModulus - 1)
    BY <1>2 DEF Indices
  <2> QED
    BY <1>2, <2>1, <2>2, ModUnique DEF Span, Indices
<1> QED
  BY <1>1, <1>2

\* What the two index stores do to the number of samples in the ring.
LEMMA SpanSteps ==
  ASSUME NEW w \in Indices, NEW r \in Indices
  PROVE  /\ Span(w, r) \in 0..(IndexModulus - 1)
         /\ Span(w, r) = 0 <=> w = r
         /\ Span(w, r) < Capacity => Span(Succ(w), r) = Span(w, r) + 1
         /\ w # r => Span(w, Succ(r)) = Span(w, r) - 1
<1>1. Span(w, r) \in 0..(IndexModulus - 1) /\ (Span(w, r) = 0 <=> w = r)
  BY SpanValue DEF Indices
<1>2. ASSUME Span(w, r) < Capacity PROVE Span(Succ(w), r) = Span(w, r) + 1
  <2>1. Span(w, r) + 1 < IndexModulus
    BY <1>1, <1>2
  <2>2. Succ(w) \in Indices /\ Succ(w) = IF w + 1 = IndexModulus THEN 0 ELSE w + 1
    BY SuccValue
  <2>3. Span(Succ(w), r) = IF Succ(w) >= r THEN Succ(w) - r ELSE Succ(w) - r + IndexModulus
    BY <2>2, SpanValue
  <2>4. Span(w, r) = IF w >= r THEN w - r ELSE w - r + IndexModulus
    BY SpanValue
  <2> QED
    BY <2>1, <2>2, <2>3, <2>4 DEF Indices
<1>3. ASSUME w # r PROVE Span(w, Succ(r)) = Span(w, r) - 1
  <2>1. Succ(r) \in Indices /\ Succ(r) = IF r + 1 = IndexModulus THEN 0 ELSE r + 1
    BY SuccValue
  <2>2. Span(w, Succ(r)) = IF w >= Succ(r) THEN w - Succ(r) ELSE w - Succ(r) + IndexModulus
    BY <2>1, SpanValue
  <2>3. Span(w, r) = IF w >= r THEN w - r ELSE w - r + IndexModulus
    BY SpanValue
  <2> QED
    BY <1>3, <2>1, <2>2, <2>3 DEF Indices
<1> QED
  BY <1>1, <1>2, <1>3

\* Whole turns of the ring do not change the slot.
LEMMA SlotOfTurn ==
  ASSUME NEW i \in Int
  PROVE  /\ Slot(i) \in Slots
         /\ Slot(i + IndexModulus) = Slot(i)
<1> DEFINE turns == IndexModulus \div Capacity
           q == i \div Capacity
           s == i % Capacity
<1>1. turns \in Int /\ IndexModulus = Capacity * turns
  OBVIOUS
<1>2. q \in Int /\ s \in 0..(Capacity - 1) /\ i = Capacity * q + s
  OBVIOUS
<1> HIDE DEF turns, q, s
<1>3. i + IndexModulus = Capacity * (q + turns) + s
  BY <1>1, <1>2
<1>4. (i + IndexModulus) % Capacity = s
  BY <1>1, <1>2, <1>3, ModUnique
<1> QED
  BY <1>2, <1>4 DEF Slot, Slots, s

\* Fewer than Capacity consecutive indices have different slots.
LEMMA SlotsDiffer ==
  ASSUME NEW i \in Int, NEW d \in 1..(Capacity - 1)
  PROVE  Slot(i + d) # Slot(i)
<1> SUFFICES ASSUME Slot(i + d) = Slot(i) PROVE FALSE
  OBVIOUS
<1> DEFINE q == i \div Capacity
           p == (i + d) \div Capacity
           s == i % Capacity
<1>1. q \in Int /\ i = Capacity * q + s /\ s \in Int
  OBVIOUS
<1>2. p \in Int /\ i + d = Capacity * p + s
  BY DEF Slot
<1> HIDE DEF p, q, s
<1>3. Capacity * (p - q) = d
  BY <1>1, <1>2
<1>4. CASE p - q >= 1
  <2>1. Capacity * (p - q) >= Capacity
    BY <1>1, <1>2, <1>4
  <2> QED
    BY <1>3, <2>1
<1>5. CASE p - q <= 0
  <2>1. Capacity * (p - q) <= 0
    BY <1>1, <1>2, <1>5
  <2> QED
    BY <1>3, <2>1
<1> QED
  BY <1>1, <1>2, <1>4, <1>5

\* The producer's slot is the one behind the samples in the ring, and the
\* publisher's next slot the one its next index names, wrapped or not.
LEMMA SlotOfIndex ==
  ASSUME NEW w \in Indices, NEW r \in Indices, NEW k \in Nat
  PROVE  /\ Slot(w) = Slot(r + Span(w, r))
         /\ Slot(Succ(r) + k) = Slot(r + (k + 1))
<1>1. Slot(w) = Slot(r + Span(w, r))
  <2>1. r + Span(w, r) = w \/ r + Span(w, r) = w + IndexModulus
    BY SpanValue DEF Indices
  <2> QED
    BY <2>1, SlotOfTurn DEF Indices
<1>2. Slot(Succ(r) + k) = Slot(r + (k + 1))
  <2>1. CASE Succ(r) = r + 1
    <3>1. Succ(r) + k = r + (k + 1)
      BY <2>1 DEF Indices
    <3> QED
      BY <3>1
  <2>2. CASE Succ(r) = 0 /\ r + 1 = IndexModulus
    <3>1. r + (k + 1) = k + IndexModulus /\ Succ(r) + k = k
      BY <2>2 DEF Indices
    <3> QED
      BY <3>1, SlotOfTurn
  <2> QED
    BY <2>1, <2>2, SuccValue
<1> QED
  BY <1>1, <1>2
-----------------------------------------------------------------------------
(* The inductive invariant.  Control: who can be where, and with which     *)
(* flags.                                                                  *)

\* Samples come while the driver runs only, and none before the first start.
ProducerOK ==
    /\ producer # "idle" => driver = "running" /\ delivered # 0
    /\ producer = "fail" => ~core.admission

\* The publisher exists from StartPublisher on, and leaves for a failure or for a
\* stop that has seen the driver stopped, unless stopping it failed.
PublisherOK ==
    /\ publisher = "none" =>
         /\ driver \in {"none", "open"} /\ ~core.publisher_stop
         /\ delivered = 0 /\ copy = NoSample /\ write = read
    /\ driver = "none" => publisher \in {"none", "exited"}
    /\ publisher \in {"exchange", "notify"} => core.failed
    /\ publisher = "reload" => core.publisher_stop
    /\ publisher = "exited" =>
         \/ core.failed
         \/ core.publisher_stop /\ (core.stop_failed \/ (write = read /\ published = copy))
    /\ core.publisher_stop => driver # "running" \/ core.stop_failed

\* The owner's place determines the handle and the flags it alone sets.
OwnerOK ==
    /\ ~core.start_claimed =>
         /\ owner \in {"start", "stop", "stopped"} /\ driver = "none" /\ publisher = "none"
         /\ ~core.terminal /\ ~core.admission /\ ~core.failed /\ ~core.stop_failed
    /\ owner = "create" => driver = "none" /\ publisher = "none" /\ ~core.admission
    /\ owner \in {"set_callback", "spawn"} => driver = "open" /\ publisher = "none"
    /\ owner = "start_driver" => driver = "open" /\ publisher # "none"
    /\ owner \in {"starting", "run", "stop_driver"} => driver = "running"
    /\ owner \in {"create", "set_callback", "spawn", "start_driver", "starting", "run"} =>
         ~core.terminal /\ ~core.publisher_stop
    /\ owner = "run" => impl.started
    /\ owner = "stop" => driver = IF impl.started THEN "running" ELSE "none"
    /\ owner \in {"close", "stop_publisher", "join", "destroy"} =>
         driver = "stopped" \/ (driver = "running" /\ core.stop_failed)
    /\ owner = "destroy" => publisher = "exited"
    /\ owner \in {"start", "record", "exchange", "notify", "finish", "stopped"} =>
         driver = "none"
    /\ owner \in {"start", "stopped"} => ~impl.started
    /\ impl.started /\ impl.caller = "Start" => owner \in {"run", "stop"}
    /\ core.start_claimed /\ driver = "none" /\ owner # "create" => core.terminal

\* What FinishStop reports cannot change once the owner has stopped.
FailureOK == owner = "stopped" /\ core.failed => impl.process_failed

ControlOK == ProducerOK /\ PublisherOK /\ OwnerOK /\ FailureOK

(* The stream: the samples in the publisher's hands, those in the ring and *)
(* the one in the producer's hands are consecutive, until one is refused;  *)
(* none is admitted after that.                                            *)

PublishedOK ==
    /\ publisher \in {"none", "loop", "load", "copy", "check_stop", "reload"} =>
         published = copy
    /\ publisher \in {"advance", "sink", "close"} => published = copy - 1
    /\ publisher \in {"record", "exchange", "notify", "exited"} =>
         published \in {copy, copy - 1}

RingOK ==
    /\ Used <= Capacity
    /\ producer \in {"fill", "advance"} => Used < Capacity
    /\ publisher \in {"copy", "advance"} => read # write
    /\ producer = "advance" => pending[Slot(write)] = delivered
    /\ publisher = "advance" => pending[Slot(read)] = copy

UnderWay == IF producer = "idle" THEN 0 ELSE 1

StreamOK ==
    core.admission \/ producer \in {"validate", "space", "fill", "advance"} =>
        delivered = Taken + Used + UnderWay

IInv == TypeOK /\ ControlOK /\ PublishedOK /\ RingOK /\ RingHoldsTheStream /\ StreamOK

-----------------------------------------------------------------------------
(* Types.                                                                  *)

LEMMA ProducerTypes ==
  ASSUME TypeOK, ProducerOK, DeliverSample \/ SampleTrampoline
  PROVE  TypeOK'
<1>1. CASE DeliverSample
  BY <1>1 DEF TypeOK, DeliverSample, ProducerStep, ProducerLabels
<1>2. CASE LoadAdmission \/ ValidateSample \/ LoadRead
  BY <1>2 DEF TypeOK, LoadAdmission, ValidateSample, LoadRead, ProducerLooks, ProducerStep,
     ProducerLabels
<1>3. CASE FillSlot
  <2>1. delivered \in Samples /\ Slot(write) \in Slots
    BY <1>3, SlotOfTurn DEF TypeOK, ProducerOK, FillSlot, ProducerStep, Samples, Indices
  <2> QED
    BY <1>3, <2>1 DEF TypeOK, FillSlot, ProducerStep, ProducerLabels
<1>4. CASE StoreWrite
  BY <1>4, SuccValue DEF TypeOK, StoreWrite, ProducerStep, ProducerLabels
<1>5. CASE ProducerCloses \/ ProducerFails
  BY <1>5 DEF TypeOK, ProducerCloses, ProducerFails, ProducerStep, ProducerLabels, CoreFlags
<1> QED
  BY <1>1, <1>2, <1>3, <1>4, <1>5 DEF SampleTrampoline

LEMMA PublisherTypes ==
  ASSUME TypeOK, PublishLoop
  PROVE  TypeOK'
<1>1. CASE LoadFailed \/ LoadWrite \/ PublishThrows \/ LoadPublisherStop \/ ReloadWrite
  BY <1>1 DEF TypeOK, LoadFailed, LoadWrite, PublishThrows, LoadPublisherStop, ReloadWrite,
     PublisherLooks, PublisherStep, PublisherLabels
<1>2. CASE CopySlot
  <2>1. Slot(read) \in Slots
    BY SlotOfTurn DEF TypeOK, Indices
  <2> QED
    BY <1>2, <2>1 DEF TypeOK, CopySlot, PublisherStep, PublisherLabels
<1>3. CASE StoreRead
  BY <1>3, SuccValue DEF TypeOK, StoreRead, PublisherStep, PublisherLabels
<1>4. CASE PublishSample
  BY <1>4 DEF TypeOK, PublishSample, PublisherStep, PublisherLabels, Samples, NoSample
<1>5. CASE PublisherCloses
  BY <1>5 DEF TypeOK, PublisherCloses, PublisherStep, PublisherLabels, CoreFlags
<1>6. CASE PublisherRecordsFailure
  BY <1>6 DEF TypeOK, PublisherRecordsFailure, StoreFailed, ExchangeNotified,
     RecordProcessFailure, PublisherStep, PublisherLabels, CoreFlags, ImplStates
<1> QED
  BY <1>1, <1>2, <1>3, <1>4, <1>5, <1>6 DEF PublishLoop

LEMMA OwnerTypes ==
  ASSUME TypeOK,
         Start \/ SeeFailure \/ SeeStopSignal \/ Stop \/ OwnerRecordsFailure \/ StopAgain
           \/ StartAgain
  PROVE  TypeOK'
<1> USE DEF TypeOK, OwnerStep, OwnerLooks, OwnerLabels, CoreFlags, ImplStates, ring
<1>1. CASE RejectRestart \/ ClaimStart \/ CreateDriver \/ SetCallback
  BY <1>1 DEF RejectRestart, ClaimStart, CreateDriver, SetCallback
<1>2. CASE StartPublisher \/ StartGivesUp \/ StartDriver
  BY <1>2 DEF StartPublisher, StartGivesUp, StartDriver, PublisherLabels
<1>3. CASE StartReturnsOk \/ StartReturnsFailure \/ SeeFailure \/ SeeStopSignal
  BY <1>3 DEF StartReturnsOk, StartReturnsFailure, SeeFailure, SeeStopSignal
<1>4. CASE StopReturnsEarly \/ StopFindsTerminal \/ BeginStop
  BY <1>4 DEF StopReturnsEarly, StopFindsTerminal, BeginStop
<1>5. CASE StopDriver \/ StopDriverFails
  BY <1>5 DEF StopDriver, StopDriverFails, AfterDriverStop
<1>6. CASE CloseAdmission \/ StopPublisher \/ JoinPublisher
  BY <1>6 DEF CloseAdmission, StopPublisher, JoinPublisher
<1>7. CASE DestroyDriver \/ FinishStop
  BY <1>7 DEF DestroyDriver, FinishStop
<1>8. CASE OwnerRecordsFailure
  BY <1>8 DEF OwnerRecordsFailure, StoreFailed, ExchangeNotified, RecordProcessFailure,
     AfterRecord
<1>9. CASE StopAgain
  BY <1>9 DEF StopAgain
<1>10. CASE StartAgain
  <2>1. impl.starts + 1 \in 1..MaxStarts
    BY <1>10 DEF StartAgain
  <2> QED
    BY <1>10, <2>1 DEF StartAgain
<1> QED
  BY <1>1, <1>2, <1>3, <1>4, <1>5, <1>6, <1>7, <1>8, <1>9, <1>10 DEF Start, Stop

-----------------------------------------------------------------------------
(* Control.                                                                *)

LEMMA ProducerControl ==
  ASSUME TypeOK, ControlOK, DeliverSample \/ SampleTrampoline
  PROVE  ControlOK'
<1> USE DEF TypeOK, ControlOK, ProducerOK, PublisherOK, OwnerOK, FailureOK, ProducerStep,
     ProducerLooks, CoreFlags
<1>1. CASE DeliverSample
  BY <1>1 DEF DeliverSample
<1>2. CASE LoadAdmission \/ ValidateSample \/ LoadRead
  BY <1>2 DEF LoadAdmission, ValidateSample, LoadRead
<1>3. CASE FillSlot
  BY <1>3 DEF FillSlot
<1>4. CASE StoreWrite
  BY <1>4 DEF StoreWrite
<1>5. CASE ProducerCloses
  BY <1>5 DEF ProducerCloses
<1>6. CASE ProducerFails
  BY <1>6 DEF ProducerFails
<1> QED
  BY <1>1, <1>2, <1>3, <1>4, <1>5, <1>6 DEF SampleTrampoline

LEMMA PublisherControl ==
  ASSUME TypeOK, ControlOK, PublishedOK, PublishLoop
  PROVE  ControlOK'
<1> USE DEF TypeOK, ControlOK, ProducerOK, PublisherOK, OwnerOK, FailureOK, PublisherStep,
     PublisherLooks, CoreFlags, ImplStates
<1>1. CASE LoadFailed \/ LoadWrite \/ CopySlot
  BY <1>1 DEF LoadFailed, LoadWrite, CopySlot
<1>2. CASE StoreRead \/ PublishSample \/ PublishThrows
  BY <1>2 DEF StoreRead, PublishSample, PublishThrows
<1>3. CASE PublisherCloses \/ LoadPublisherStop
  BY <1>3 DEF PublisherCloses, LoadPublisherStop
<1>4. CASE ReloadWrite
  BY <1>4 DEF ReloadWrite, PublishedOK
<1>5. CASE PublisherRecordsFailure
  BY <1>5 DEF PublisherRecordsFailure, StoreFailed, ExchangeNotified, RecordProcessFailure
<1> QED
  BY <1>1, <1>2, <1>3, <1>4, <1>5 DEF PublishLoop

LEMMA OwnerControl ==
  ASSUME TypeOK, ControlOK,
         Start \/ SeeFailure \/ SeeStopSignal \/ Stop \/ OwnerRecordsFailure \/ StopAgain
           \/ StartAgain
  PROVE  ControlOK'
<1> USE DEF TypeOK, ControlOK, ProducerOK, PublisherOK, OwnerOK, FailureOK, OwnerStep,
     OwnerLooks, CoreFlags, ImplStates, ring
<1>1. CASE RejectRestart \/ ClaimStart
  BY <1>1 DEF RejectRestart, ClaimStart
<1>2. CASE CreateDriver \/ SetCallback \/ StartPublisher
  BY <1>2 DEF CreateDriver, SetCallback, StartPublisher
<1>3. CASE StartGivesUp
  BY <1>3 DEF StartGivesUp
<1>4. CASE StartDriver \/ StartReturnsOk \/ StartReturnsFailure
  BY <1>4 DEF StartDriver, StartReturnsOk, StartReturnsFailure
<1>5. CASE SeeFailure \/ SeeStopSignal \/ StopReturnsEarly \/ StopFindsTerminal
  BY <1>5 DEF SeeFailure, SeeStopSignal, StopReturnsEarly, StopFindsTerminal
<1>6. CASE BeginStop
  BY <1>6 DEF BeginStop
<1>7. CASE StopDriver \/ StopDriverFails
  BY <1>7 DEF StopDriver, StopDriverFails, AfterDriverStop
<1>8. CASE CloseAdmission \/ StopPublisher \/ JoinPublisher
  BY <1>8 DEF CloseAdmission, StopPublisher, JoinPublisher
<1>9. CASE DestroyDriver
  BY <1>9 DEF DestroyDriver
<1>10. CASE FinishStop \/ StopAgain \/ StartAgain
  BY <1>10 DEF FinishStop, StopAgain, StartAgain
<1>11. CASE OwnerRecordsFailure
  <2>1. CASE OwnerStep("record", "exchange") /\ StoreFailed
    BY <1>11, <2>1 DEF OwnerRecordsFailure, StoreFailed
  <2>2. CASE /\ OwnerStep("exchange",
                          IF core.failure_notified THEN AfterRecord ELSE "notify")
             /\ ExchangeNotified
    BY <1>11, <2>2 DEF OwnerRecordsFailure, ExchangeNotified, AfterRecord
  <2>3. CASE OwnerStep("notify", AfterRecord) /\ RecordProcessFailure
    BY <1>11, <2>3 DEF OwnerRecordsFailure, RecordProcessFailure, AfterRecord
  <2> QED
    BY <1>11, <2>1, <2>2, <2>3 DEF OwnerRecordsFailure
<1> QED
  BY <1>1, <1>2, <1>3, <1>4, <1>5, <1>6, <1>7, <1>8, <1>9, <1>10, <1>11 DEF Start, Stop

-----------------------------------------------------------------------------
(* The stream.                                                             *)

StreamInv == PublishedOK /\ RingOK /\ RingHoldsTheStream /\ StreamOK

LEMMA UsedFacts ==
  ASSUME TypeOK
  PROVE  /\ Used \in Nat
         /\ Used = 0 <=> read = write
         /\ Slot(write) = Slot(read + Used)
         /\ Slot(read) \in Slots /\ Slot(write) \in Slots
<1>1. write \in Indices /\ read \in Indices
  BY DEF TypeOK
<1>2. Slot(write) = Slot(read + Used)
  BY <1>1, SlotOfIndex, UsedIsSpan, 0 \in Nat
<1>3. Slot(read) \in Slots /\ Slot(write) \in Slots
  BY <1>1, SlotOfTurn DEF Indices
<1>4. Used \in 0..(IndexModulus - 1) /\ (Used = 0 <=> write = read)
  BY <1>1, SpanSteps, UsedIsSpan
<1> QED
  BY <1>2, <1>3, <1>4

\* Steps that move no sample.
LEMMA StreamStays ==
  ASSUME TypeOK, StreamInv, UNCHANGED ring, Taken' = Taken
  PROVE  RingHoldsTheStream' /\ Used' = Used
  BY DEF StreamInv, RingHoldsTheStream, Used, ring

LEMMA TakenInt ==
  ASSUME TypeOK
  PROVE  Taken \in Int
  BY DEF TypeOK, Taken, Samples, NoSample

LEMMA ProducerStream ==
  ASSUME TypeOK, ControlOK, StreamInv, DeliverSample \/ SampleTrampoline
  PROVE  StreamInv'
<1> USE DEF ProducerStep
<1>1. Taken' = Taken
  BY DEF Taken, DeliverSample, SampleTrampoline, LoadAdmission, ValidateSample, LoadRead,
     FillSlot, StoreWrite, ProducerCloses, ProducerFails, ProducerLooks
<1>2. PublishedOK'
  BY DEF StreamInv, PublishedOK, DeliverSample, SampleTrampoline, LoadAdmission,
     ValidateSample, LoadRead, FillSlot, StoreWrite, ProducerCloses, ProducerFails,
     ProducerLooks
<1>3. CASE DeliverSample
  <2>1. RingHoldsTheStream' /\ Used' = Used
    BY <1>1, <1>3, StreamStays DEF DeliverSample, ring
  <2>2. RingOK'
    BY <1>3, <2>1 DEF StreamInv, RingOK, DeliverSample
  <2>3. StreamOK'
    BY <1>1, <1>3, <2>1, UsedFacts, TakenInt
       DEF TypeOK, StreamInv, StreamOK, UnderWay, DeliverSample
  <2> QED
    BY <1>2, <2>1, <2>2, <2>3 DEF StreamInv
<1>4. CASE LoadAdmission \/ ValidateSample \/ LoadRead
  <2> USE DEF LoadAdmission, ValidateSample, LoadRead, ProducerLooks
  <2>1. RingHoldsTheStream' /\ Used' = Used
    BY <1>1, <1>4, StreamStays DEF ring
  <2>2. RingOK'
    BY <1>4, <2>1, UsedFacts DEF StreamInv, RingOK, RingFull
  <2>3. StreamOK'
    BY <1>1, <1>4, <2>1 DEF StreamInv, StreamOK, UnderWay
  <2> QED
    BY <1>2, <2>1, <2>2, <2>3 DEF StreamInv
<1>5. CASE FillSlot
  <2>1. Used' = Used /\ Used \in Nat /\ Used < Capacity
    BY <1>5, UsedFacts DEF Used, FillSlot, StreamInv, RingOK
  <2>2. \A k \in 0..(Used - 1) : Slot(read + k) # Slot(write)
    <3> SUFFICES ASSUME NEW k \in 0..(Used - 1) PROVE Slot(read + k) # Slot(write)
      OBVIOUS
    <3>1. Used - k \in 1..(Capacity - 1) /\ read + k \in Int
      BY <2>1 DEF TypeOK, Indices
    <3>2. read + Used = (read + k) + (Used - k)
      BY <2>1 DEF TypeOK, Indices
    <3> QED
      BY <3>1, <3>2, SlotsDiffer, UsedFacts
  <2>3. /\ pending'[Slot(write)] = delivered
        /\ \A s \in Slots \ {Slot(write)} : pending'[s] = pending[s]
    BY <1>5, UsedFacts DEF TypeOK, FillSlot
  <2>4. RingHoldsTheStream'
    <3> SUFFICES ASSUME NEW k \in 0..(Used - 1)
                 PROVE  pending'[Slot(read + k)] = Taken + 1 + k
      BY <1>1, <1>5, <2>1 DEF RingHoldsTheStream, FillSlot, Slot
    <3>1. Slot(read + k) \in Slots
      BY <2>1, SlotOfTurn DEF TypeOK, Indices
    <3> QED
      BY <2>2, <2>3, <3>1 DEF StreamInv, RingHoldsTheStream
  <2>5. RingOK'
    <3>1. publisher = "advance" => Slot(read) # Slot(write)
      <4>1. publisher = "advance" => Used # 0 /\ Slot(read + 0) = Slot(read)
        BY UsedFacts DEF StreamInv, RingOK, TypeOK, Indices
      <4> QED
        BY <2>1, <2>2, <4>1
    <3>2. publisher = "advance" => pending'[Slot(read)] = copy
      BY <2>3, <3>1, UsedFacts DEF StreamInv, RingOK
    <3> QED
      BY <1>5, <2>1, <2>3, <3>2 DEF StreamInv, RingOK, FillSlot, Slot
  <2>6. StreamOK'
    BY <1>1, <1>5, <2>1 DEF StreamInv, StreamOK, UnderWay, FillSlot
  <2> QED
    BY <1>2, <2>4, <2>5, <2>6 DEF StreamInv
<1>6. CASE StoreWrite
  <2>1. Used \in Nat /\ Used < Capacity /\ pending[Slot(write)] = delivered
    BY <1>6, UsedFacts DEF StoreWrite, StreamInv, RingOK
  <2>2. Used' = Used + 1
    BY <1>6, <2>1, SpanSteps, UsedIsSpan DEF TypeOK, Used, Span, StoreWrite
  <2>3. delivered = Taken + Used + 1
    BY <1>6 DEF StreamInv, StreamOK, UnderWay, StoreWrite
  <2>4. RingHoldsTheStream'
    <3> SUFFICES ASSUME NEW k \in 0..Used
                 PROVE  pending[Slot(read + k)] = Taken + 1 + k
      BY <1>1, <1>6, <2>1, <2>2 DEF RingHoldsTheStream, StoreWrite, Slot
    <3>1. CASE k = Used
      BY <2>1, <2>3, <3>1, UsedFacts, TakenInt
    <3>2. CASE k # Used
      BY <2>1, <3>2 DEF StreamInv, RingHoldsTheStream
    <3> QED
      BY <3>1, <3>2
  <2>5. RingOK'
    <3>1. write' # read
      <4>1. write' \in Indices
        BY <1>6, SuccValue DEF TypeOK, StoreWrite
      <4> QED
        BY <1>6, <2>1, <2>2, <4>1, SpanSteps DEF TypeOK, Used, Span, StoreWrite
    <3> QED
      BY <1>6, <2>1, <2>2, <3>1 DEF StreamInv, RingOK, StoreWrite, Slot
  <2>6. StreamOK'
    BY <1>1, <1>6, <2>1, <2>2, <2>3, TakenInt DEF StreamOK, UnderWay, StoreWrite
  <2> QED
    BY <1>2, <2>4, <2>5, <2>6 DEF StreamInv
<1>7. CASE ProducerCloses \/ ProducerFails
  <2> USE DEF ProducerCloses, ProducerFails
  <2>1. RingHoldsTheStream' /\ Used' = Used
    BY <1>1, <1>7, StreamStays DEF ring
  <2>2. RingOK'
    BY <1>7, <2>1 DEF StreamInv, RingOK
  <2>3. StreamOK'
    BY <1>7 DEF StreamOK, TypeOK, CoreFlags, ControlOK, ProducerOK
  <2> QED
    BY <1>2, <2>1, <2>2, <2>3 DEF StreamInv
<1> QED
  BY <1>3, <1>4, <1>5, <1>6, <1>7 DEF SampleTrampoline

LEMMA PublisherStream ==
  ASSUME TypeOK, ControlOK, StreamInv, PublishLoop
  PROVE  StreamInv'
<1> USE DEF PublisherStep, PublisherLooks
<1>1. CASE LoadFailed \/ LoadWrite \/ PublishThrows \/ LoadPublisherStop \/ ReloadWrite
           \/ PublishSample \/ PublisherCloses \/ PublisherRecordsFailure
  <2> USE DEF LoadFailed, LoadWrite, PublishThrows, LoadPublisherStop, ReloadWrite,
      PublishSample, PublisherCloses, PublisherRecordsFailure, StoreFailed,
      ExchangeNotified, RecordProcessFailure
  <2>1. Taken' = Taken
    BY <1>1 DEF Taken
  <2>2. RingHoldsTheStream' /\ Used' = Used
    BY <1>1, <2>1, StreamStays DEF ring
  <2>3. RingOK'
    BY <1>1, <2>2 DEF StreamInv, RingOK
  <2>4. StreamOK'
    BY <1>1, <2>1, <2>2 DEF StreamInv, StreamOK, UnderWay, TypeOK, CoreFlags
  <2>5. PublishedOK'
    BY <1>1 DEF StreamInv, PublishedOK
  <2> QED
    BY <2>2, <2>3, <2>4, <2>5 DEF StreamInv
<1>2. CASE CopySlot
  <2>1. Used # 0 /\ Used \in Nat /\ read + 0 = read
    BY <1>2, UsedFacts DEF CopySlot, StreamInv, RingOK, TypeOK, Indices
  <2>2. pending[Slot(read)] = copy + 1
    <3>1. pending[Slot(read + 0)] = Taken + 1 + 0
      BY <2>1 DEF StreamInv, RingHoldsTheStream
    <3> QED
      BY <1>2, <2>1, <3>1 DEF CopySlot, Taken, TypeOK, Samples, NoSample
  <2>3. Taken' = Taken
    BY <1>2, <2>2 DEF CopySlot, Taken, TypeOK, Samples, NoSample
  <2>4. RingHoldsTheStream' /\ Used' = Used
    BY <1>2, <2>3, StreamStays DEF ring, CopySlot
  <2>5. RingOK'
    BY <1>2, <2>4 DEF CopySlot, StreamInv, RingOK, Slot
  <2>6. StreamOK'
    BY <1>2, <2>3, <2>4 DEF StreamInv, StreamOK, UnderWay, CopySlot
  <2>7. PublishedOK'
    BY <1>2, <2>2 DEF StreamInv, PublishedOK, CopySlot, TypeOK, Samples, NoSample
  <2> QED
    BY <2>4, <2>5, <2>6, <2>7 DEF StreamInv
<1>3. CASE StoreRead
  <2>1. Used # 0 /\ Used \in Nat /\ Used <= Capacity /\ read # write
    BY <1>3, UsedFacts DEF StoreRead, StreamInv, RingOK
  <2>2. Used' = Used - 1
    BY <1>3, <2>1, SpanSteps, UsedIsSpan DEF TypeOK, Used, Span, StoreRead
  <2>3. Taken' = Taken + 1
    BY <1>3 DEF StoreRead, Taken, TypeOK, Samples, NoSample
  <2>4. RingHoldsTheStream'
    <3> SUFFICES ASSUME NEW k \in 0..(Used - 2)
                 PROVE  pending[Slot(Succ(read) + k)] = Taken + 2 + k
      BY <1>3, <2>1, <2>2, <2>3, TakenInt DEF RingHoldsTheStream, StoreRead, Slot, Succ
    <3>1. Slot(Succ(read) + k) = Slot(read + (k + 1))
      BY <2>1, SlotOfIndex DEF TypeOK
    <3>2. pending[Slot(read + (k + 1))] = Taken + 1 + (k + 1)
      BY <2>1 DEF StreamInv, RingHoldsTheStream
    <3> QED
      BY <2>1, <3>1, <3>2, TakenInt
  <2>5. RingOK'
    BY <1>3, <2>1, <2>2 DEF StoreRead, StreamInv, RingOK, Slot
  <2>6. StreamOK'
    <3>1. Taken' + Used' = Taken + Used
      BY <2>1, <2>2, <2>3, TakenInt
    <3> QED
      BY <1>3, <3>1 DEF StoreRead, StreamInv, StreamOK, UnderWay
  <2>7. PublishedOK'
    BY <1>3 DEF StreamInv, PublishedOK, StoreRead
  <2> QED
    BY <2>4, <2>5, <2>6, <2>7 DEF StreamInv
<1> QED
  BY <1>1, <1>2, <1>3 DEF PublishLoop

LEMMA OwnerStream ==
  ASSUME TypeOK, ControlOK, StreamInv,
         Start \/ SeeFailure \/ SeeStopSignal \/ Stop \/ OwnerRecordsFailure \/ StopAgain
           \/ StartAgain
  PROVE  StreamInv'
<1> USE DEF OwnerStep, OwnerLooks
<1>1. UNCHANGED <<producer, ring, copy, delivered, published>>
  BY DEF Start, RejectRestart, ClaimStart, CreateDriver, SetCallback, StartPublisher,
     StartGivesUp, StartDriver, StartReturnsOk, StartReturnsFailure, SeeFailure,
     SeeStopSignal, Stop, StopReturnsEarly, StopFindsTerminal, BeginStop, StopDriver,
     StopDriverFails, CloseAdmission, StopPublisher, JoinPublisher, DestroyDriver,
     FinishStop, OwnerRecordsFailure, StopAgain, StartAgain
<1>2. publisher' = publisher \/ (publisher = "none" /\ publisher' = "loop")
  BY DEF Start, RejectRestart, ClaimStart, CreateDriver, SetCallback, StartPublisher,
     StartGivesUp, StartDriver, StartReturnsOk, StartReturnsFailure, SeeFailure,
     SeeStopSignal, Stop, StopReturnsEarly, StopFindsTerminal, BeginStop, StopDriver,
     StopDriverFails, CloseAdmission, StopPublisher, JoinPublisher, DestroyDriver,
     FinishStop, OwnerRecordsFailure, StopAgain, StartAgain, ControlOK, OwnerOK
<1>3. core'.admission => core.admission \/ SetCallback
  BY DEF Start, RejectRestart, ClaimStart, CreateDriver, StartPublisher,
     StartGivesUp, StartDriver, StartReturnsOk, StartReturnsFailure, SeeFailure,
     SeeStopSignal, Stop, StopReturnsEarly, StopFindsTerminal, BeginStop, StopDriver,
     StopDriverFails, CloseAdmission, StopPublisher, JoinPublisher, DestroyDriver,
     FinishStop, OwnerRecordsFailure, StoreFailed, ExchangeNotified,
     RecordProcessFailure, StopAgain, StartAgain, TypeOK, CoreFlags
<1>4. Taken' = Taken
  BY <1>1, <1>2 DEF Taken
<1>5. RingHoldsTheStream' /\ Used' = Used
  BY <1>1, <1>4, StreamStays
<1>6. RingOK'
  BY <1>1, <1>2, <1>5 DEF StreamInv, RingOK, ring
<1>7. PublishedOK'
  BY <1>1, <1>2 DEF StreamInv, PublishedOK
<1>8. StreamOK'
  <2>1. CASE SetCallback
    <3>1. publisher = "none" /\ driver = "open" /\ producer = "idle"
      BY <2>1 DEF SetCallback, ControlOK, OwnerOK, ProducerOK
    <3>2. delivered = 0 /\ Taken = 0 /\ Used = 0
      BY <3>1, UsedFacts DEF ControlOK, PublisherOK, Taken, NoSample
    <3> QED
      BY <1>1, <1>4, <1>5, <3>1, <3>2 DEF StreamOK, UnderWay
  <2>2. CASE ~SetCallback
    BY <1>1, <1>3, <1>4, <1>5, <2>2 DEF StreamInv, StreamOK, UnderWay
  <2> QED
    BY <2>1, <2>2
<1> QED
  BY <1>5, <1>6, <1>7, <1>8 DEF StreamInv

-----------------------------------------------------------------------------
(* The theorems.                                                           *)

LEMMA Initially == Init => IInv
<1> SUFFICES ASSUME Init PROVE IInv
  OBVIOUS
<1>1. TypeOK
  BY DEF Init, TypeOK, OwnerLabels, ProducerLabels, PublisherLabels, CoreFlags,
     ImplStates, Samples, Indices
<1>2. ControlOK
  BY DEF Init, ControlOK, ProducerOK, PublisherOK, OwnerOK, FailureOK
<1>3. Used = 0
  BY <1>1, UsedFacts DEF Init
<1>4. PublishedOK /\ RingOK /\ RingHoldsTheStream /\ StreamOK
  BY <1>3 DEF Init, PublishedOK, RingOK, RingHoldsTheStream, StreamOK, NoSample
<1> QED
  BY <1>1, <1>2, <1>4 DEF IInv

\* The inductive invariant holds of every reachable state.
THEOREM Invariance == Spec => []IInv
<1>1. IInv /\ [Next]_vars => IInv'
  <2> SUFFICES ASSUME IInv, [Next]_vars PROVE IInv'
    OBVIOUS
  <2>1. TypeOK /\ ControlOK /\ StreamInv /\ ProducerOK /\ PublishedOK
    BY DEF IInv, StreamInv, ControlOK
  <2>2. CASE DeliverSample \/ SampleTrampoline
    BY <2>1, <2>2, ProducerTypes, ProducerControl, ProducerStream DEF IInv, StreamInv
  <2>3. CASE PublishLoop
    BY <2>1, <2>3, PublisherTypes, PublisherControl, PublisherStream DEF IInv, StreamInv
  <2>4. CASE Start \/ SeeFailure \/ SeeStopSignal \/ Stop \/ OwnerRecordsFailure
             \/ StopAgain \/ StartAgain
    BY <2>1, <2>4, OwnerTypes, OwnerControl, OwnerStream DEF IInv, StreamInv
  <2>5. CASE UNCHANGED vars
    BY <2>5 DEF IInv, TypeOK, ControlOK, ProducerOK, PublisherOK, OwnerOK, FailureOK,
       PublishedOK, RingOK, RingHoldsTheStream, StreamOK, UnderWay, Used, Taken, Slot,
       vars, ring
  <2> QED
    BY <2>2, <2>3, <2>4, <2>5 DEF Next, Environment
<1> QED
  BY <1>1, Initially, PTL DEF Spec

\* Every variable has its type.
THEOREM TypeCorrect == Spec => []TypeOK
<1>1. IInv => TypeOK
  BY DEF IInv
<1> QED
  BY <1>1, Invariance, PTL

\* No slot of the ring is copied while it is written, whatever the capacity: no
\* lock is needed between the two threads.
THEOREM SlotsNeverRace == Spec => []NoSlotRace
<1>1. IInv => NoSlotRace
  <2> SUFFICES ASSUME IInv, producer = "fill", publisher = "copy"
               PROVE  Slot(write) # Slot(read)
    BY DEF NoSlotRace
  <2>1. Used \in 1..(Capacity - 1) /\ Slot(write) = Slot(read + Used)
    BY UsedFacts DEF IInv, RingOK
  <2>2. read \in Int
    BY DEF IInv, TypeOK, Indices
  <2> QED
    BY <2>1, <2>2, SlotsDiffer
<1> QED
  BY <1>1, Invariance, PTL

\* The ring holds consecutive samples through any wrap of the indices: none is
\* overwritten, skipped or read before it is complete.
THEOREM RingIsTheStream == Spec => []RingHoldsTheStream
<1>1. IInv => RingHoldsTheStream
  BY DEF IInv
<1> QED
  BY <1>1, Invariance, PTL

\* When the core may be destroyed, no thread runs on it any more.
THEOREM DestroyIsQuiescent == Spec => []QuiescentDestroy
<1>1. IInv => QuiescentDestroy
  BY DEF IInv, QuiescentDestroy, ControlOK, ProducerOK, PublisherOK
<1> QED
  BY <1>1, Invariance, PTL

\* A failure found by any thread is in the exit status once the owner has stopped.
THEOREM FailureIsReported == Spec => []FailureReachesProcess
<1>1. IInv => FailureReachesProcess
  BY DEF IInv, ControlOK, FailureOK, FailureReachesProcess
<1> QED
  BY <1>1, Invariance, PTL

-----------------------------------------------------------------------------
(* The ring and its threads implement SampleStream, step by step.          *)

Admitted == Taken + Used
Closed == core.terminal /\ driver = "none"
Broken == core.failed \/ core.stop_failed
Phase == IF Closed THEN "closed" ELSE IF Broken THEN "failed" ELSE "open"

LEMMA PhaseIsMapped ==
  ASSUME IInv
  PROVE  Phase = IF core.terminal /\ driver = "none" /\ publisher \in {"none", "exited"}
                 THEN "closed"
                 ELSE IF core.failed \/ core.stop_failed THEN "failed" ELSE "open"
  BY DEF IInv, ControlOK, PublisherOK, Phase, Closed, Broken

\* The steps of SampleStream, in this module's terms.
AbstractNext ==
    \/ /\ Phase # "closed" /\ Admitted < MaxSamples /\ Admitted - published <= Capacity
       /\ Admitted' = Admitted + 1 /\ published' = published /\ Phase' = Phase
    \/ /\ Phase # "closed" /\ published < Admitted
       /\ published' = published + 1 /\ Admitted' = Admitted /\ Phase' = Phase
    \/ /\ Phase = "open" /\ Phase' = "failed"
       /\ published' = published /\ Admitted' = Admitted
    \/ /\ Phase = "failed" \/ (Phase = "open" /\ published = Admitted)
       /\ Phase' = "closed" /\ published' = published /\ Admitted' = Admitted
    \/ Phase' = Phase /\ published' = published /\ Admitted' = Admitted

LEMMA AbstractSteps ==
  ASSUME IInv, IInv', AbstractNext
  PROVE  [Stream!Next]_(Stream!vars)
<1>1. Phase = IF core.terminal /\ driver = "none" /\ publisher \in {"none", "exited"}
              THEN "closed"
              ELSE IF core.failed \/ core.stop_failed THEN "failed" ELSE "open"
  BY PhaseIsMapped
<1>2. Phase' = IF core'.terminal /\ driver' = "none" /\ publisher' \in {"none", "exited"}
               THEN "closed"
               ELSE IF core'.failed \/ core'.stop_failed THEN "failed" ELSE "open"
  BY DEF IInv, ControlOK, PublisherOK, Phase, Closed, Broken
<1> QED
  BY <1>1, <1>2 DEF AbstractNext, Admitted, Stream!Next, Stream!vars, Stream!Admit,
     Stream!Publish, Stream!Fail, Stream!Close

\* As long as a thread is in SampleTrampoline or PublishLoop the stream is not closed.
LEMMA BusyIsNotClosed ==
  ASSUME IInv, producer # "idle" \/ publisher \notin {"none", "exited"}
  PROVE  driver # "none" /\ Phase # "closed"
  BY DEF IInv, ControlOK, ProducerOK, PublisherOK, Phase, Closed

LEMMA ProducerImplements ==
  ASSUME IInv, IInv', DeliverSample \/ SampleTrampoline
  PROVE  AbstractNext
<1>1. TypeOK /\ TypeOK' /\ Taken \in Int /\ Used \in Nat /\ published \in Int
  BY UsedFacts, TakenInt DEF IInv, TypeOK
<1>2. CASE StoreWrite
  <2>1. Phase # "closed" /\ Phase' = Phase /\ published' = published /\ Taken' = Taken
    BY <1>2, BusyIsNotClosed DEF StoreWrite, ProducerStep, Phase, Closed, Broken, Taken
  <2>2. Used < Capacity /\ delivered = Taken + Used + 1 /\ delivered <= MaxSamples
    BY <1>2 DEF StoreWrite, ProducerStep, IInv, TypeOK, RingOK, StreamOK, UnderWay
  <2>3. Used' = Used + 1
    BY <1>1, <1>2, <2>2, SpanSteps, UsedIsSpan
       DEF TypeOK, Used, Span, StoreWrite, ProducerStep
  <2>4. Taken - published \in {0, 1}
    BY <1>1 DEF IInv, PublishedOK, Taken, TypeOK, PublisherLabels, Samples, NoSample
  <2> QED
    BY <1>1, <2>1, <2>2, <2>3, <2>4 DEF AbstractNext, Admitted
<1>3. CASE DeliverSample \/ LoadAdmission \/ ValidateSample \/ LoadRead \/ FillSlot
           \/ ProducerCloses
  <2>1. UNCHANGED <<publisher, copy, write, read, published, driver>>
        /\ Phase' = Phase
    BY <1>1, <1>3 DEF DeliverSample, LoadAdmission, ValidateSample, LoadRead, FillSlot,
       ProducerCloses, ProducerLooks, ProducerStep, Phase, Closed, Broken, TypeOK, CoreFlags
  <2> QED
    BY <2>1 DEF AbstractNext, Admitted, Taken, Used
<1>4. CASE ProducerFails
  <2>1. UNCHANGED <<publisher, copy, write, read, published, driver>>
        /\ Phase \in {"open", "failed"} /\ Phase' = "failed"
    BY <1>1, <1>4, BusyIsNotClosed
       DEF ProducerFails, ProducerStep, Phase, Closed, Broken, TypeOK, CoreFlags
  <2> QED
    BY <2>1 DEF AbstractNext, Admitted, Taken, Used
<1> QED
  BY <1>2, <1>3, <1>4 DEF SampleTrampoline

LEMMA PublisherImplements ==
  ASSUME IInv, IInv', PublishLoop
  PROVE  AbstractNext
<1> USE DEF PublisherStep, PublisherLooks
<1>1. TypeOK /\ TypeOK' /\ Taken \in Int /\ Used \in Nat /\ published \in Int
  BY UsedFacts, TakenInt DEF IInv, TypeOK
<1>2. driver # "none" /\ driver' = driver /\ Phase # "closed"
  BY BusyIsNotClosed DEF PublishLoop, LoadFailed, LoadWrite, CopySlot, StoreRead,
     PublishSample, PublishThrows, PublisherCloses, LoadPublisherStop, ReloadWrite,
     PublisherRecordsFailure
<1>3. CASE LoadFailed \/ LoadWrite \/ PublishThrows \/ LoadPublisherStop \/ ReloadWrite
           \/ PublisherCloses
  <2>1. UNCHANGED <<copy, write, read, published>> /\ Taken' = Taken /\ Phase' = Phase
    BY <1>1, <1>2, <1>3 DEF LoadFailed, LoadWrite, PublishThrows, LoadPublisherStop,
       ReloadWrite, PublisherCloses, Phase, Closed, Broken, Taken, TypeOK, CoreFlags
  <2> QED
    BY <2>1 DEF AbstractNext, Admitted, Used
<1>4. CASE CopySlot
  <2>1. Used # 0 /\ read + 0 = read
    BY <1>1, <1>4, UsedFacts DEF CopySlot, IInv, RingOK, TypeOK, Indices
  <2>2. pending[Slot(read + 0)] = copy + 1
    BY <1>1, <1>4, <2>1
       DEF CopySlot, IInv, RingHoldsTheStream, Taken, TypeOK, Samples, NoSample
  <2>3. Taken' = Taken /\ Used' = Used /\ published' = published /\ Phase' = Phase
    BY <1>4, <2>1, <2>2, <1>1
       DEF CopySlot, Taken, Used, Phase, Closed, Broken, TypeOK, Samples, NoSample
  <2> QED
    BY <2>3 DEF AbstractNext, Admitted
<1>5. CASE StoreRead
  <2>1. Taken' = Taken + 1 /\ published' = published /\ Phase' = Phase
    BY <1>1, <1>5
       DEF StoreRead, Taken, Phase, Closed, Broken, TypeOK, Samples, NoSample
  <2>2. Used' = Used - 1
    BY <1>1, <1>5, SpanSteps, UsedIsSpan DEF TypeOK, Used, Span, StoreRead, IInv, RingOK
  <2> QED
    BY <1>1, <2>1, <2>2 DEF AbstractNext, Admitted
<1>6. CASE PublishSample
  <2>1. published' = published + 1 /\ Taken = published + 1
    BY <1>1, <1>6
       DEF PublishSample, IInv, PublishedOK, Taken, TypeOK, Samples, NoSample
  <2>2. Taken' = Taken /\ Used' = Used /\ Phase' = Phase
    BY <1>6 DEF PublishSample, Taken, Used, Phase, Closed, Broken
  <2> QED
    BY <1>1, <1>2, <2>1, <2>2 DEF AbstractNext, Admitted
<1>7. CASE PublisherRecordsFailure
  <2>1. UNCHANGED <<copy, write, read, published>> /\ Taken' = Taken
    BY <1>7 DEF PublisherRecordsFailure, Taken
  <2>2. Phase' \in {Phase, "failed"} /\ Phase \in {"open", "failed"}
    BY <1>1, <1>2, <1>7 DEF PublisherRecordsFailure, StoreFailed, ExchangeNotified,
       RecordProcessFailure, Phase, Closed, Broken, TypeOK, CoreFlags
  <2> QED
    BY <2>1, <2>2 DEF AbstractNext, Admitted, Used
<1> QED
  BY <1>3, <1>4, <1>5, <1>6, <1>7 DEF PublishLoop

LEMMA OwnerImplements ==
  ASSUME IInv, IInv',
         Start \/ SeeFailure \/ SeeStopSignal \/ Stop \/ OwnerRecordsFailure \/ StopAgain
           \/ StartAgain
  PROVE  AbstractNext
<1> USE DEF OwnerStep, OwnerLooks
<1>1. TypeOK /\ ControlOK
  BY DEF IInv
<1>2. UNCHANGED <<ring, copy, published>>
  BY DEF Start, RejectRestart, ClaimStart, CreateDriver, SetCallback, StartPublisher,
     StartGivesUp, StartDriver, StartReturnsOk, StartReturnsFailure, SeeFailure,
     SeeStopSignal, Stop, StopReturnsEarly, StopFindsTerminal, BeginStop, StopDriver,
     StopDriverFails, CloseAdmission, StopPublisher, JoinPublisher, DestroyDriver,
     FinishStop, OwnerRecordsFailure, StopAgain, StartAgain
<1>3. publisher' = publisher \/ (publisher = "none" /\ publisher' = "loop")
  BY <1>1
     DEF Start, RejectRestart, ClaimStart, CreateDriver, SetCallback, StartPublisher,
     StartGivesUp, StartDriver, StartReturnsOk, StartReturnsFailure, SeeFailure,
     SeeStopSignal, Stop, StopReturnsEarly, StopFindsTerminal, BeginStop, StopDriver,
     StopDriverFails, CloseAdmission, StopPublisher, JoinPublisher, DestroyDriver,
     FinishStop, OwnerRecordsFailure, StopAgain, StartAgain, ControlOK, OwnerOK
<1>4. Admitted' = Admitted
  BY <1>2, <1>3 DEF Admitted, Taken, Used, ring
<1> USE DEF TypeOK, CoreFlags, Phase, Closed, Broken, ControlOK, OwnerOK
<1>5. CASE StartGivesUp \/ DestroyDriver
  <2>1. Phase' = "closed" /\ Phase # "closed"
    BY <1>1, <1>5 DEF StartGivesUp, DestroyDriver
  <2>2. Phase = "open" => published = Admitted
    <3>1. Phase = "open" => write = read /\ published = copy /\ publisher # "advance"
      BY <1>1, <1>5
         DEF StartGivesUp, DestroyDriver, PublisherOK, IInv, PublishedOK
    <3>2. write = read => Used = 0
      BY <1>1, UsedFacts
    <3> QED
      BY <1>1, <3>1, <3>2 DEF Admitted, Taken, Samples, NoSample
  <2> QED
    BY <1>2, <1>4, <2>1, <2>2 DEF AbstractNext
<1>6. CASE StopDriverFails
  <2>1. Phase' = "failed" /\ Phase \in {"open", "failed"}
    BY <1>1, <1>6 DEF StopDriverFails
  <2> QED
    BY <1>2, <1>4, <2>1 DEF AbstractNext
<1>7. ASSUME Start, ~StartGivesUp PROVE Phase' = Phase
  BY <1>1, <1>7
     DEF Start, RejectRestart, ClaimStart, CreateDriver, SetCallback, StartPublisher,
     StartDriver, StartReturnsOk, StartReturnsFailure
<1>8. CASE SeeFailure \/ SeeStopSignal \/ StopAgain \/ StartAgain
  <2>1. Phase' = Phase
    BY <1>8 DEF SeeFailure, SeeStopSignal, StopAgain, StartAgain
  <2> QED
    BY <1>2, <1>4, <2>1 DEF AbstractNext
<1>9. CASE BeginStop
  <2>1. driver # "none" /\ driver' = driver
    BY <1>1, <1>9 DEF BeginStop, ImplStates
  <2>2. Phase' = Phase
    BY <1>1, <1>9, <2>1 DEF BeginStop
  <2> QED
    BY <1>2, <1>4, <2>2 DEF AbstractNext
<1>10. CASE StopReturnsEarly \/ StopFindsTerminal \/ StopDriver \/ CloseAdmission
            \/ StopPublisher \/ JoinPublisher \/ FinishStop
  <2>1. Phase' = Phase
    BY <1>1, <1>10
       DEF StopReturnsEarly, StopFindsTerminal, StopDriver, CloseAdmission,
       StopPublisher, JoinPublisher, FinishStop
  <2> QED
    BY <1>2, <1>4, <2>1 DEF AbstractNext
<1>11. CASE OwnerRecordsFailure
  <2>1. Phase' = "closed" /\ Phase = "closed"
    BY <1>1, <1>11
       DEF OwnerRecordsFailure, StoreFailed, ExchangeNotified, RecordProcessFailure
  <2> QED
    BY <1>2, <1>4, <2>1 DEF AbstractNext
<1>12. ASSUME Phase' = Phase PROVE AbstractNext
  BY <1>2, <1>4, <1>12 DEF AbstractNext
<1> QED
  BY <1>5, <1>6, <1>7, <1>8, <1>9, <1>10, <1>11, <1>12 DEF Stop

\* Seen from outside, the ring and its threads take only the steps of SampleStream:
\* samples published in order and none twice, the backlog bounded by the ring and one
\* more, a close without a failure only when every admitted sample is published, and
\* nothing after the close.
THEOREM StepsOfTheStream == Spec => Stream!Init /\ [][Stream!Next]_(Stream!vars)
<1>1. Init => Stream!Init
  <2> SUFFICES ASSUME Init PROVE Stream!Init
    OBVIOUS
  <2>1. TypeOK
    BY Initially DEF IInv
  <2>2. Used = 0 /\ Taken = 0
    BY <2>1, UsedFacts DEF Init, Taken, NoSample
  <2> QED
    BY <2>2 DEF Init, Stream!Init
<1>2. IInv /\ IInv' /\ [Next]_vars => [Stream!Next]_(Stream!vars)
  <2> SUFFICES ASSUME IInv, IInv', [Next]_vars PROVE [Stream!Next]_(Stream!vars)
    OBVIOUS
  <2>1. CASE UNCHANGED vars
    BY <2>1 DEF vars, ring, AbstractNext, Stream!vars, Taken, Used
  <2>2. CASE Next
    <3>1. AbstractNext
      BY <2>2, ProducerImplements, PublisherImplements, OwnerImplements
         DEF Next, Environment
    <3> QED
      BY <3>1, AbstractSteps
  <2> QED
    BY <2>1, <2>2
<1> QED
  BY <1>1, <1>2, Invariance, PTL DEF Spec
=============================================================================
