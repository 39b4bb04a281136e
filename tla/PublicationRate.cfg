\* Any two frames, the wrap of the sequence included, two windows, and counts that
\* change between any two loads.
CONSTANTS
    MaxU64 = 3
    Sequences = {0, 1, 3}
    publish_camera_info = TRUE
    queue_capacity = 1
    Observed = {"publish", "latency_count", "latency_sum", "first_monotonic"}
    Latencies = {1}
    Timestamps = {1, 2}
    MaxFrames = 2
    MaxReports = 2
    MaxClock = 2
SPECIFICATION Spec
INVARIANTS
    ReportedOnce
    WindowsTile
    LatencyCoversPublishes
    ArrivalsClassified
CHECK_DEADLOCK FALSE
