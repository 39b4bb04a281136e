\* Shutdown at any time under the "block" policy, with the library slow to stop.
CONSTANTS
    front = front
    rear = rear
    Cameras = {front, rear}
    Owner = Owner
    Dispatcher = Dispatcher
    NoFrame = NoFrame
    Capacity = 2
    DropNewest = FALSE
    Faults = {}
    MaxSets = 4
    MaxStarts = 2
    SdkJoinFailures = 1
SPECIFICATION Spec
SYMMETRY CameraSymmetry
INVARIANTS
    TypeOK
    FrameCustody
    NoFrameBehindTheOwner
    BlockNeverDrops
    NoLostWakeup
PROPERTIES
    PublishedInOrder
