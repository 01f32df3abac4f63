CONSTANTS
    MaxJobs <- MC_MaxJobs
    NoJob = NoJob
SPECIFICATION NoFaultFairSpec
PROPERTIES
    DrainCompletes
CHECK_DEADLOCK FALSE
