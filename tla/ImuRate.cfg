\* Three samples, a ring of one, and a publisher that may stall or fail.
CONSTANTS
    kPendingCapacity = 1
    publish_temperature = TRUE
    Observed = {"publish", "source", "first"}
    MaxArrivals = 3
    MaxClock = 2
SPECIFICATION FairSpec
INVARIANTS
    SnapshotAgrees
PROPERTIES
    AcquisitionReported
