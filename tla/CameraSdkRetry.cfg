\* The library fails to join its threads in both calls of sc132_stop.
CONSTANTS
    front = front
    rear = rear
    Cameras = {front, rear}
    Owner = Owner
    Dispatcher = Dispatcher
    NoFrame = NoFrame
    Capacity = 1
    DropNewest = FALSE
    Faults = {}
    MaxSets = 2
    MaxStarts = 1
    SdkJoinFailures = 2
SPECIFICATION Spec
INVARIANTS
    LibraryQuiesced
