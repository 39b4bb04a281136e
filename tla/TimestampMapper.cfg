\* Integers of 3 bits, stamps of at most 5 ns: every boundary is crossed.
CONSTANTS
    MaxU64 = 7
    MaxI64 = 3
    MaxI32 = 2
    NanosecondsPerSecond = 2
    Sources = {camera, imu}
    Camera = camera
    MaxClock = 8
SPECIFICATION Spec
INVARIANTS
    CommonTimeBase
    ThrowsOnlyOutOfRange
PROPERTIES
    OffsetAcceptedIfItFits
