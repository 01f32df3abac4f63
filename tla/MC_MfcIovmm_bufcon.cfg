CONSTANTS
    Dpbs <- MC_Dpbs
    NumPlanes <- MC_NumPlanes
    Batch <- MC_Batch
SPECIFICATION MemSpec
INVARIANT
    BufconMapsMaskedBuffers
