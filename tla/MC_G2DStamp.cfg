CONSTANTS
    c1 = c1
    c2 = c2
    W <- MC_W
    StampSize <- MC_StampSize
    CPUs <- MC_CPUs
    MaxStamps <- MC_MaxStamps
SYMMETRY Perms
SPECIFICATION Spec
INVARIANT LogChronological
CHECK_DEADLOCK FALSE
