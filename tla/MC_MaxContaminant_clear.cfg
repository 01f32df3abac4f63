CONSTANTS
    IOFail <- MC_NoIOFail
    FladcCodes <- MC_FladcCodes
SPECIFICATION ContamOnlySpec
INVARIANTS
    ClearMeansDetection
