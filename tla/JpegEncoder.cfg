\* Integers of 4 and 8 bits in place of 32 and 64; any call of the codec may fail.
CONSTANTS
    MaxI32 = 7
    MaxU32 = 15
    MaxU64 = 255
    Page = 4
    Faults = {"initialize", "configure", "start", "dequeue_input", "queue_input", "dequeue_output", "find_end", "queue_output"}
    MaxImages = 3
    ImageFields = {0, 2, 3, 4, 6, 8}
    DataSizes = {5, 6, 11, 12, 17, 18, 24, 36, 128}
    FrameFields = {2, 3, 4, 6, 8}
    BufferFields = {0, 2, 3, 4}
    PlaneSizes = {2, 4, 8, 12}
SPECIFICATION Spec
INVARIANTS
    PictureOfThisImage
    CodecFitsImage
    NothingLost
    LayoutIsRespected
    ChromaFoundWhereItWasPut
