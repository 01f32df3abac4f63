CONSTANTS
    IOFail <- MC_IOFail
    FladcCodes <- MC_FladcCodes
SPECIFICATION ContamGsaSpec
INVARIANTS
    TypeOK
    ContaminatedMeansDry
    GsaTypeOK
    ChildrenSeeLiveMailbox
    TpuResultMeansAnswered
