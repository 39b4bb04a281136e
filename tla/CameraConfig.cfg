\* An int of ten bits; parameters at, between and beyond the accepted values.
CONSTANTS
    Modulus = 1024
    Masks = {0, 1, 3, 15, 16, 1025}
    Rates = {24, 25, 30, 60}
    Rotations = {0, 90, 180, 270, 1114}
    Timeouts = {0, 1, 1024}
    Skews = {0, 1}
    Capacities = {0, 1}
    MaxStarts = 2
SPECIFICATION Spec
INVARIANTS
    LibraryFitsOptions
CHECK_DEADLOCK FALSE
