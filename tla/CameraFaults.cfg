\* The "drop_newest" policy; any operation may fail at any time, in any thread, and a
\* publish may never return.
CONSTANTS
    front = front
    rear = rear
    Cameras = {front, rear}
    Owner = Owner
    Dispatcher = Dispatcher
    NoFrame = NoFrame
    Capacity = 1
    DropNewest = TRUE
    Faults = {"options", "configure", "spawn", "start", "callback", "alloc", "sink", "join"}
    MaxSets = 2
    MaxStarts = 1
    SdkJoinFailures = 0
SPECIFICATION FairCallbackSpec
INVARIANTS
    QuiescentCleanup
    FailureIsNotified
PROPERTIES
    CallbackReturns
