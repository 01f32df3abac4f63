CONSTANTS
    MaxJobs <- MC_MaxJobs
    NoJob = NoJob
SPECIFICATION Spec
INVARIANTS
    NoNullFaultDump
\* After g2d_shutdown nothing clears the suspend bit, so once every task is
\* on the prepared list the driver really has no step left.
CHECK_DEADLOCK FALSE
