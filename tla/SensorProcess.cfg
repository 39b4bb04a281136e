\* Any operation of either publisher may fail, and a thread may not be joined.
CONSTANTS
    Backlog = 2
    Faults = {"load", "ros", "start", "callback", "publish", "stop", "join"}
SPECIFICATION FairSpec
INVARIANTS
    RosValidWhileDraining
    SuccessIsComplete
    NoThreadOutlivesItsPublisher
PROPERTIES
    SignalEnds
    FailureEnds
