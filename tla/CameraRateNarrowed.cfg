\* A frame rate that is 30 modulo the width of an int.
CONSTANTS
    Modulus = 1024
    Masks = {1, 15}
    Rates = {24, 30, 1054}
    Rotations = {0}
    Timeouts = {1}
    Skews = {1}
    Capacities = {1}
    MaxStarts = 1
SPECIFICATION Spec
INVARIANTS
    RateAsConfigured
CHECK_DEADLOCK FALSE
