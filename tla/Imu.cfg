\* Any operation may fail; the indices wrap.
CONSTANTS
    Capacity = 3
    IndexModulus = 6
    Faults = {"create", "set_callback", "spawn", "start", "stop", "sample", "sink"}
    MaxSamples = 9
    MaxStarts = 2
SPECIFICATION FairSpec
INVARIANTS
    TypeOK
    NoSlotRace
    RingHoldsTheStream
    QuiescentDestroy
    FailureReachesProcess
PROPERTIES
    StopEnds
    FailureShutsDown
    ImplementsSampleStream
