CONSTANTS
    Dpbs <- MC_Dpbs
    NumPlanes <- MC_NumPlanes
    Batch <- MC_Batch
SPECIFICATION MemSpec
INVARIANTS
    TypeOK
    TableMatchesObjects
    SpecialBufTypeOK
    SpecialBufMatchesObjects
