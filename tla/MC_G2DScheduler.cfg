CONSTANTS
    MaxJobs <- MC_MaxJobs
    NoJob = NoJob
SPECIFICATION Spec
INVARIANTS
    TypeOK
    TaskOwnership
    HwJobsBelongToActive
    SuspendQuiescent
PROPERTY
    LifecycleRefined
\* A suspend drain can hang for good (see MC_G2DScheduler_drain.cfg), and
\* after g2d_shutdown nothing clears the suspend bit, so once every task is
\* on the prepared list the driver really has no step left.
CHECK_DEADLOCK FALSE
