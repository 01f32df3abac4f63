-------------------------- MODULE MC_G2DScheduler --------------------------
(* Model-checking instance of G2DScheduler: a pool of G2D_MAX_JOBS tasks. *)
EXTENDS G2DScheduler

\* Two tasks: enough for one job to run while another queues behind it,
\* for a flush to fail both, and for a reused task to meet its old timer.
MC_MaxJobs == 2

\* For the liveness runs the System MMU raises no fault.  The fault path
\* writes only faulting, faultJob and oops, which no other action reads,
\* so leaving it out removes no behaviour of the task lists, the hardware
\* queue or the PM notifier.
NoFaultNext == Next /\ faulting' = faulting

NoFaultFairSpec == Init /\ [][NoFaultNext]_vars /\ Fairness

=============================================================================
