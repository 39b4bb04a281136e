\* The "block" policy: progress, and the abstract ledger, when an allocation
\* or a publish fails.
CONSTANTS
    front = front
    rear = rear
    Cameras = {front, rear}
    Owner = Owner
    Dispatcher = Dispatcher
    NoFrame = NoFrame
    Capacity = 1
    DropNewest = FALSE
    Faults = {"alloc", "sink"}
    MaxSets = 2
    MaxStarts = 1
    SdkJoinFailures = 0
SPECIFICATION FairSpec
PROPERTIES
    StopEnds
    FailureShutsDown
    ImplementsFrameLedger
