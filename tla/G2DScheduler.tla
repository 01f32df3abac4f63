---------------------------- MODULE G2DScheduler ----------------------------
(***************************************************************************)
(* The job-submission control plane of the Exynos G2D driver              *)
(* (src/drivers/gpu/exynos/g2d/g2d_drv.c): the fixed task pool and its     *)
(* free/prepared/active lists, the push of a task to the hardware job      *)
(* queue, the completion/error interrupt handler, the per-task hardware    *)
(* timeout timer, the blocking and non-blocking ioctl paths and the PM     *)
(* notifier that drains the device before suspend.                         *)
(*                                                                         *)
(* Every handler that runs under g2d_dev->lock_task is one atomic action.  *)
(* The timeout callback is split in two: the timer expiring (the callback  *)
(* is entered and prints before it takes the lock, g2d_drv.c:45-48) and    *)
(* the locked body.  The IOMMU fault handler reads the current job without *)
(* the lock and looks the task up under it, so it is two actions too.      *)
(*                                                                         *)
(* Task i of the pool carries job id i (the pool has G2D_MAX_JOBS tasks),  *)
(* so a task and its hardware job id are the same value here.             *)
(***************************************************************************)
EXTENDS Integers, Sequences, FiniteSets, SequencesExt

CONSTANTS
    MaxJobs,   \* G2D_MAX_JOBS: size of the task pool = width of the job-id mask
    NoJob      \* the value g2d_hw_get_current_task returns when nothing runs

ASSUME MaxJobs \in Nat \ {0}

Tasks == 0 .. MaxJobs - 1

VARIABLES
    freeList,     \* g2d_dev->tasks_free, head first (list_add puts at the head)
    prepared,     \* g2d_dev->tasks_prepared, in list_add_tail order
    active,       \* g2d_dev->tasks_active
    state,        \* task->state: "free" "unprepared" "prepared" "active" "processed"
    killed,       \* G2D_TASKSTATE_KILLED bit
    error,        \* G2D_TASKSTATE_ERROR bit
    done,         \* task->completion has been completed
    nonblock,     \* G2D_FLAG_NONBLOCK of the request that owns the task
    caller,       \* who holds a task outside the lists:
                  \*   "none" "acquired" "waiting" "detached" "work"
    timerPending, \* task->timer is queued in the timer wheel
    timerCb,      \* the timeout callback has been entered but not yet locked:
                  \*   "none", "current" (armed for this submission) or
                  \*   "stale" (armed for an earlier submission of the task)
    hwq,          \* job ids pushed to the H/W, head is the RUNNING one
    intflags,     \* finished-job interrupt bits (g2d_hw_finished_job_ids)
    errstatus,    \* error interrupt status (g2d_hw_errint_status # 0)
    suspending,   \* G2D_DEVICE_STATE_SUSPEND bit of g2d_dev->state
    pm,           \* the PM notifier: "on", "draining" (in g2d_prepare_suspend),
                  \*   "suspended"; g2d_shutdown: "shutting" (draining),
                  \*   "shutdown" (returned)
    drainAwake,   \* the wait_event on freeze_wait will test its condition
                  \*   (FALSE: asleep until a wake_up(freeze_wait))
    faulting,     \* the System MMU fault: "idle", "raised" (handler not yet
                  \*   entered), "read" (job id read, lookup not yet locked)
    faultJob,     \* the job id it read (g2d_hw_get_current_task)
    oops,         \* a NULL task pointer was dereferenced
    iovmmDisabled,\* G2D_DEVICE_STATE_IOVMM_DISABLED bit of g2d_dev->state
    iovmmActive   \* the IOVMM is activated (iovmm_activate in g2d_probe)

vars == <<freeList, prepared, active, state, killed, error, done, nonblock,
          caller, timerPending, timerCb, hwq, intflags, errstatus, suspending,
          pm, drainAwake, faulting, faultJob, oops, iovmmDisabled, iovmmActive>>

taskVars == <<freeList, prepared, active, state, killed, error, done,
              nonblock, caller, timerPending, timerCb>>
hwVars == <<hwq, intflags, errstatus>>
iovmmVars == <<iovmmDisabled, iovmmActive>>

TypeOK ==
    /\ freeList \in Seq(Tasks)
    /\ prepared \in Seq(Tasks)
    /\ active \subseteq Tasks
    /\ state \in [Tasks -> {"free", "unprepared", "prepared", "active", "processed"}]
    /\ killed \in [Tasks -> BOOLEAN]
    /\ error \in [Tasks -> BOOLEAN]
    /\ done \in [Tasks -> BOOLEAN]
    /\ nonblock \in [Tasks -> BOOLEAN]
    /\ caller \in [Tasks -> {"none", "acquired", "waiting", "detached", "work"}]
    /\ timerPending \in [Tasks -> BOOLEAN]
    /\ timerCb \in [Tasks -> {"none", "current", "stale"}]
    /\ hwq \in Seq(Tasks)
    /\ intflags \subseteq Tasks
    /\ errstatus \in BOOLEAN
    /\ suspending \in BOOLEAN
    /\ pm \in {"on", "draining", "suspended", "shutting", "shutdown"}
    /\ drainAwake \in BOOLEAN
    /\ faulting \in {"idle", "raised", "read"}
    /\ faultJob \in Tasks \cup {NoJob}
    /\ oops \in BOOLEAN
    /\ iovmmDisabled \in BOOLEAN
    /\ iovmmActive \in BOOLEAN

(***************************************************************************)
(* Hardware interface (g2d_regs / g2d_hw helpers, not in this tree).      *)
(***************************************************************************)

\* g2d_hw_get_job_state: the head of the queue runs, the rest queue, a job
\* the hardware no longer holds reads as DONE (0).
g2d_hw_get_job_state(j) ==
    IF hwq # << >> /\ Head(hwq) = j THEN "RUNNING"
    ELSE IF j \in ToSet(hwq) THEN "QUEUEING"
    ELSE "DONE"

\* Mutant: the raw register convention, -1 when idle.
g2d_hw_get_current_task_raw == IF hwq = << >> THEN -1 ELSE Head(hwq)

\* g2d_hw_get_current_task
g2d_hw_get_current_task == IF hwq = << >> THEN NoJob ELSE Head(hwq)

\* g2d_hw_global_reset followed by clearing the interrupt: every job the
\* hardware held is gone and so are its pending finished and error bits.
g2d_hw_global_reset ==
    /\ hwq' = << >>
    /\ intflags' = {}
    /\ errstatus' = FALSE

(***************************************************************************)
(* Task helpers of g2d_task.c (not in this tree), all called under the     *)
(* lock.  They are written as functions of the set of tasks they apply to *)
(* so that a handler can compose several of them in one step.             *)
(***************************************************************************)

\* g2d_finish_task for every task of S: unlink from the active list,
\* del_timer (which does not wait for a callback already running), mark
\* processed/error, complete_all, and queue the completion work of a
\* non-blocking task.  Killed marks of the flushed set K are set too.
Finished(S, failed, K) ==
    /\ active' = active \ S
    /\ state' = [t \in Tasks |-> IF t \in S THEN "processed" ELSE state[t]]
    /\ error' = [t \in Tasks |-> error[t] \/ (t \in failed)]
    /\ killed' = [t \in Tasks |-> killed[t] \/ (t \in K)]
    /\ done' = [t \in Tasks |-> done[t] \/ (t \in S)]
    /\ timerPending' = [t \in Tasks |-> timerPending[t] /\ t \notin S]
    /\ caller' = [t \in Tasks |->
                    IF t \in S /\ nonblock[t] THEN "work" ELSE caller[t]]

\* g2d_flush_all_tasks: every active task is marked killed and finished
\* with failure.
g2d_flush_all_tasks == Finished(active, active, active)

\* g2d_device_run (g2d_drv.c:95-102): push the job to the H/W queue.
g2d_device_run(S) == hwq' = hwq \o S

\* g2d_execute_task for the tasks of the sequence S in order: move to the
\* active list, mark active, add_timer, and g2d_device_run.
g2d_execute_task(S) ==
    /\ active' = active \cup ToSet(S)
    /\ state' = [t \in Tasks |-> IF t \in ToSet(S) THEN "active" ELSE state[t]]
    /\ timerPending' = [t \in Tasks |-> timerPending[t] \/ t \in ToSet(S)]
    /\ g2d_device_run(S)

\* g2d_put_free_task: clear the state and list_add to the free list head.
g2d_put_free_task(t) ==
    /\ state' = [state EXCEPT ![t] = "free"]
    /\ freeList' = Cons(t, freeList)
    /\ caller' = [caller EXCEPT ![t] = "none"]

(***************************************************************************)
(* Submission: g2d_ioctl(G2D_IOC_PROCESS), g2d_drv.c:234-269.             *)
(***************************************************************************)

\* Mutant: the task is taken without list_del from the free list.
g2d_ioctl_get_task_no_unlink ==
    /\ freeList # << >>
    /\ LET t == Head(freeList) IN
       /\ state' = [state EXCEPT ![t] = "unprepared"]
       /\ killed' = [killed EXCEPT ![t] = FALSE]
       /\ error' = [error EXCEPT ![t] = FALSE]
       /\ done' = [done EXCEPT ![t] = FALSE]
       /\ caller' = [caller EXCEPT ![t] = "acquired"]
       /\ \E nb \in BOOLEAN : nonblock' = [nonblock EXCEPT ![t] = nb]
       /\ timerCb' = [timerCb EXCEPT ![t] =
                        IF @ = "current" THEN "stale" ELSE @]
    /\ UNCHANGED <<freeList, prepared, active, timerPending, hwVars, suspending,
                   pm, drainAwake, faulting, faultJob, oops, iovmmVars>>

\* copy_from_user, then g2d_get_free_task takes the head of the free list
\* (an empty list is -EBUSY and changes nothing).  The request's flags
\* decide whether it is blocking.  A timeout callback still in flight for
\* the task's previous submission now belongs to an earlier submission.
g2d_ioctl_get_task ==
    /\ freeList # << >>
    /\ LET t == Head(freeList) IN
       /\ freeList' = Tail(freeList)
       /\ state' = [state EXCEPT ![t] = "unprepared"]
       /\ killed' = [killed EXCEPT ![t] = FALSE]
       /\ error' = [error EXCEPT ![t] = FALSE]
       /\ done' = [done EXCEPT ![t] = FALSE]
       /\ caller' = [caller EXCEPT ![t] = "acquired"]
       /\ \E nb \in BOOLEAN : nonblock' = [nonblock EXCEPT ![t] = nb]
       /\ timerCb' = [timerCb EXCEPT ![t] =
                        IF @ = "current" THEN "stale" ELSE @]
    /\ UNCHANGED <<prepared, active, timerPending, hwVars, suspending, pm, drainAwake,
                   faulting, faultJob, oops, iovmmVars>>

\* g2d_schedule_task (reached through g2d_start_task, whose kref drops to
\* zero at once as no fence holds it): pm_runtime_get_sync or the clock
\* enable may fail, which finishes the task with an error outside every
\* list; else, under the lock, the task is added to the prepared list and
\* executed at once unless the device is suspending.  A blocking request
\* then waits.
\* Mutant: the task is executed even while the suspend bit is set.
g2d_schedule_task_no_gate(t) ==
    \/ /\ state' = [state EXCEPT ![t] = "processed"]
       /\ error' = [error EXCEPT ![t] = TRUE]
       /\ done' = [done EXCEPT ![t] = TRUE]
       /\ caller' = [caller EXCEPT ![t] = IF nonblock[t] THEN "work" ELSE "waiting"]
       /\ UNCHANGED <<freeList, prepared, active, killed, timerPending, hwVars>>
    \/ /\ caller' = [caller EXCEPT ![t] = IF nonblock[t] THEN "detached" ELSE "waiting"]
       /\ g2d_execute_task(<<t>>)
       /\ UNCHANGED <<prepared, freeList, killed, error, done, intflags, errstatus>>

g2d_schedule_task(t) ==
    \/ /\ state' = [state EXCEPT ![t] = "processed"]
       /\ error' = [error EXCEPT ![t] = TRUE]
       /\ done' = [done EXCEPT ![t] = TRUE]
       /\ caller' = [caller EXCEPT ![t] = IF nonblock[t] THEN "work" ELSE "waiting"]
       /\ UNCHANGED <<freeList, prepared, active, killed, timerPending, hwVars>>
    \/ /\ caller' = [caller EXCEPT ![t] = IF nonblock[t] THEN "detached" ELSE "waiting"]
       /\ IF suspending
            THEN /\ prepared' = Append(prepared, t)
                 /\ state' = [state EXCEPT ![t] = "prepared"]
                 /\ UNCHANGED <<active, timerPending, hwq>>
            ELSE /\ g2d_execute_task(<<t>>)
                 /\ UNCHANGED prepared
       /\ UNCHANGED <<freeList, killed, error, done, intflags, errstatus>>

\* g2d_get_userdata fails: the task goes back to the free list.  Otherwise
\* the BEGIN stamp and g2d_start_task.
g2d_ioctl_submit(t) ==
    /\ caller[t] = "acquired"
    /\ \/ /\ g2d_put_free_task(t)
          /\ UNCHANGED <<prepared, active, killed, error, done, timerPending,
                         hwVars>>
       \/ g2d_schedule_task(t)
    /\ UNCHANGED <<nonblock, timerCb, suspending, pm, drainAwake, faulting, faultJob, oops, iovmmVars>>

\* g2d_wait_put_user: a blocking request wakes when the task completes and
\* returns it to the pool.
g2d_wait_put_user(t) ==
    /\ caller[t] = "waiting"
    /\ done[t]
    /\ g2d_put_free_task(t)
    /\ UNCHANGED <<prepared, active, killed, error, done, nonblock,
                   timerPending, timerCb, hwVars, suspending, pm, drainAwake, faulting, faultJob, oops, iovmmVars>>

\* g2d_task_completion_work: the work queued for a finished non-blocking
\* task releases it.
g2d_task_completion_work(t) ==
    /\ caller[t] = "work"
    /\ g2d_put_free_task(t)
    /\ UNCHANGED <<prepared, active, killed, error, done, nonblock,
                   timerPending, timerCb, hwVars, suspending, pm, drainAwake, faulting, faultJob, oops, iovmmVars>>

(***************************************************************************)
(* g2d_irq_handler, g2d_drv.c:104-156.  The finished bits read once are   *)
(* retired (an id with no active task is ignored) and cleared; then a     *)
(* non-zero error status flushes every active task and resets the H/W.    *)
(***************************************************************************)
g2d_irq_handler ==
    /\ intflags # {} \/ errstatus
    /\ LET retired == intflags \cap active
           flushed == IF errstatus THEN active \ retired ELSE {}
       IN  /\ Finished(retired \cup flushed, flushed, flushed)
           /\ IF errstatus
                THEN g2d_hw_global_reset
                ELSE /\ intflags' = {}
                     /\ UNCHANGED <<hwq, errstatus>>
    /\ drainAwake' = (pm \in {"draining", "shutting"})   \* wake_up(&g2d_dev->freeze_wait)
    /\ UNCHANGED <<freeList, prepared, nonblock, timerCb, suspending, pm,
                   faulting, faultJob, oops, iovmmVars>>

(***************************************************************************)
(* The hardware timeout timer of a task.                                   *)
(***************************************************************************)

\* The timer expires: it leaves the timer wheel and the callback starts
\* (it logs before it takes the lock).  A timer does not fire again while
\* its callback runs.
timer_expire(t) ==
    /\ timerPending[t]
    /\ timerCb[t] = "none"
    /\ timerPending' = [timerPending EXCEPT ![t] = FALSE]
    /\ timerCb' = [timerCb EXCEPT ![t] = "current"]
    /\ UNCHANGED <<freeList, prepared, active, state, killed, error, done,
                   nonblock, caller, hwVars, suspending, pm, drainAwake, faulting, faultJob, oops, iovmmVars>>

\* A killed task that is still not dead after another timeout period
\* (g2d_drv.c:65-75): global reset, then flush every active task.
\* Mutant: the flush without the reset.
g2d_hw_timeout_escalate_no_reset(t) ==
    /\ g2d_flush_all_tasks
    /\ UNCHANGED hwVars

g2d_hw_timeout_escalate(t) ==
    /\ g2d_hw_global_reset
    /\ g2d_flush_all_tasks

\* g2d_drv.c:77-89: mod_timer re-arms the timer; only the job the H/W
\* reports RUNNING is marked killed and g2d_hw_kill_task'ed (a kill is a
\* request to the H/W, whose answer is a later HwComplete or nothing).
\* Mutant: the timer is not re-armed.
g2d_hw_timeout_kill_no_rearm(t, js) ==
    /\ killed' = [killed EXCEPT ![t] = (js = "RUNNING")]
    /\ UNCHANGED <<active, state, error, done, caller, timerPending, hwVars>>

g2d_hw_timeout_kill(t, js) ==
    /\ timerPending' = [timerPending EXCEPT ![t] = TRUE]
    /\ killed' = [killed EXCEPT ![t] = (js = "RUNNING")]
    /\ UNCHANGED <<active, state, error, done, caller, hwVars>>

\* g2d_hw_timeout_handler under the lock (g2d_drv.c:48-92).  A task that
\* is not active, or whose job the H/W reports DONE, is left to the IRQ.
g2d_hw_timeout_handler(t) ==
    /\ timerCb[t] # "none"
    /\ timerCb' = [timerCb EXCEPT ![t] = "none"]
    /\ LET js == g2d_hw_get_job_state(t) IN
       \/ /\ state[t] # "active" \/ js = "DONE"
          /\ UNCHANGED <<active, state, killed, error, done, caller,
                         timerPending, hwVars>>
       \/ /\ state[t] = "active" /\ js # "DONE" /\ killed[t]
          /\ g2d_hw_timeout_escalate(t)
       \/ /\ state[t] = "active" /\ js # "DONE" /\ ~killed[t]
          /\ g2d_hw_timeout_kill(t, js)
    /\ UNCHANGED <<freeList, prepared, nonblock, suspending, pm, drainAwake, faulting,
                   faultJob, oops, iovmmVars>>

(***************************************************************************)
(* g2d_iommu_fault_handler, g2d_drv.c:158-176: the current job is read    *)
(* without the lock, the task looked up under it, and the stamp of        *)
(* G2D_STAMP_STATE_MMUFAULT dumps the task (g2d_debug.c:179-183), which   *)
(* dereferences it even when the lookup found none.                       *)
(***************************************************************************)
\* The System MMU raises a fault for the DMA of the job the H/W runs; the
\* handler is entered later, by when that job may have finished.
SysmmuFault ==
    /\ faulting = "idle"
    /\ hwq # << >>
    /\ faulting' = "raised"
    /\ UNCHANGED <<taskVars, hwVars, suspending, pm, drainAwake, faultJob, oops, iovmmVars>>

\* Mutant: the raw register value is kept, -1 when the engine is idle.
g2d_iommu_fault_read_raw ==
    /\ faulting = "raised"
    /\ faulting' = "read"
    /\ faultJob' = g2d_hw_get_current_task_raw
    /\ UNCHANGED <<taskVars, hwVars, suspending, pm, drainAwake, oops, iovmmVars>>

g2d_iommu_fault_read ==
    /\ faulting = "raised"
    /\ faulting' = "read"
    /\ faultJob' = g2d_hw_get_current_task
    /\ UNCHANGED <<taskVars, hwVars, suspending, pm, drainAwake, oops, iovmmVars>>

g2d_iommu_fault_handler ==
    /\ faulting = "read"
    /\ faulting' = "idle"
    /\ oops' = (oops \/ faultJob \notin active)
    /\ UNCHANGED <<taskVars, hwVars, suspending, pm, drainAwake, faultJob, iovmmVars>>

(***************************************************************************)
(* g2d_notifier_event, g2d_drv.c:291-309.                                  *)
(***************************************************************************)

\* PM_SUSPEND_PREPARE -> g2d_prepare_suspend: set the suspend bit under the
\* lock, then wait_event(freeze_wait, list_empty(&tasks_active)).
\* Mutant: the drain starts without setting the suspend bit.
g2d_pm_suspend_prepare_no_bit ==
    /\ pm = "on"
    /\ pm' = "draining"
    /\ drainAwake' = TRUE
    /\ UNCHANGED <<suspending, taskVars, hwVars, faulting, faultJob, oops, iovmmVars>>

g2d_pm_suspend_prepare ==
    /\ pm = "on"
    /\ suspending' = TRUE
    /\ pm' = "draining"
    /\ drainAwake' = TRUE
    /\ UNCHANGED <<taskVars, hwVars, faulting, faultJob, oops, iovmmVars>>

\* The wait_event tests its condition: it returns when the active list is
\* empty, else it sleeps until the next wake_up(freeze_wait).  (The test
\* and the sleep are atomic with respect to a wake-up, as prepare_to_wait
\* precedes the test.)
g2d_prepare_suspend_drained ==
    /\ pm = "draining"
    /\ drainAwake
    /\ IF active = {}
         THEN pm' = "suspended"
         ELSE UNCHANGED pm
    /\ drainAwake' = FALSE
    /\ UNCHANGED <<taskVars, hwVars, suspending, faulting, faultJob, oops, iovmmVars>>

\* PM_POST_SUSPEND -> g2d_suspend_finish: clear the suspend bit and
\* execute every prepared task in order, under the lock.
g2d_pm_post_suspend ==
    /\ pm = "suspended"
    /\ suspending' = FALSE
    /\ pm' = "on"
    /\ g2d_execute_task(prepared)
    /\ prepared' = << >>
    /\ UNCHANGED <<freeList, killed, error, done, nonblock, caller, timerCb,
                   intflags, errstatus, drainAwake, faulting, faultJob, oops, iovmmVars>>

(***************************************************************************)
(* g2d_shutdown, g2d_drv.c:416-429 (also the first step of g2d_remove).    *)
(***************************************************************************)

\* The SHUTDOWN_S stamp, then g2d_prepare_suspend: the suspend bit is set
\* under the lock and the drain starts.  Nothing ever clears the bit again.
g2d_shutdown_begin ==
    /\ pm = "on"
    /\ suspending' = TRUE
    /\ pm' = "shutting"
    /\ drainAwake' = TRUE
    /\ UNCHANGED <<taskVars, hwVars, faulting, faultJob, oops, iovmmVars>>

\* g2d_prepare_suspend's wait_event, as for a suspend.  Once it returns,
\* g2d_shutdown's own wait_event on the same condition returns at once (no
\* task can become active while the suspend bit is set and no
\* PM_POST_SUSPEND comes), and test_and_set_bit sets IOVMM_DISABLED and
\* calls iovmm_deactivate when the bit was already set.
g2d_shutdown_drained ==
    /\ pm = "shutting"
    /\ drainAwake
    /\ IF active = {}
         THEN /\ pm' = "shutdown"
              /\ iovmmDisabled' = TRUE
              /\ iovmmActive' = (iovmmActive /\ ~iovmmDisabled)
         ELSE UNCHANGED <<pm, iovmmVars>>
    /\ drainAwake' = FALSE
    /\ UNCHANGED <<taskVars, hwVars, suspending, faulting, faultJob, oops>>

(***************************************************************************)
(* The hardware, an environment the driver does not control.  A job may  *)
(* complete (also after a kill request), raise an error, or never finish. *)
(***************************************************************************)
HwComplete ==
    /\ hwq # << >>
    /\ hwq' = Tail(hwq)
    /\ intflags' = intflags \cup {Head(hwq)}
    /\ UNCHANGED <<taskVars, errstatus, suspending, pm, drainAwake, faulting, faultJob, oops, iovmmVars>>

HwError ==
    /\ hwq # << >>
    /\ ~errstatus
    /\ errstatus' = TRUE
    /\ UNCHANGED <<taskVars, hwq, intflags, suspending, pm, drainAwake, faulting, faultJob, oops, iovmmVars>>

(***************************************************************************)
(* g2d_probe, g2d_drv.c:376-388: the lists are initialised and            *)
(* g2d_create_tasks puts every task (job id i) on the free list.          *)
(***************************************************************************)
Init ==
    /\ freeList \in {s \in [1 .. MaxJobs -> Tasks] : ToSet(s) = Tasks}
    /\ prepared = << >>
    /\ active = {}
    /\ state = [t \in Tasks |-> "free"]
    /\ killed = [t \in Tasks |-> FALSE]
    /\ error = [t \in Tasks |-> FALSE]
    /\ done = [t \in Tasks |-> FALSE]
    /\ nonblock = [t \in Tasks |-> FALSE]
    /\ caller = [t \in Tasks |-> "none"]
    /\ timerPending = [t \in Tasks |-> FALSE]
    /\ timerCb = [t \in Tasks |-> "none"]
    /\ hwq = << >>
    /\ intflags = {}
    /\ errstatus = FALSE
    /\ suspending = FALSE
    /\ pm = "on"
    /\ drainAwake = FALSE
    /\ faulting = "idle"
    /\ faultJob = NoJob
    /\ oops = FALSE
    /\ iovmmDisabled = FALSE
    /\ iovmmActive = TRUE

Next ==
    \/ g2d_ioctl_get_task
    \/ \E t \in Tasks :
          \/ g2d_ioctl_submit(t)
          \/ g2d_wait_put_user(t)
          \/ g2d_task_completion_work(t)
          \/ timer_expire(t)
          \/ g2d_hw_timeout_handler(t)
    \/ g2d_irq_handler
    \/ SysmmuFault
    \/ g2d_iommu_fault_read
    \/ g2d_iommu_fault_handler
    \/ g2d_pm_suspend_prepare
    \/ g2d_prepare_suspend_drained
    \/ g2d_pm_post_suspend
    \/ g2d_shutdown_begin
    \/ g2d_shutdown_drained
    \/ HwComplete
    \/ HwError

Spec == Init /\ [][Next]_vars

(***************************************************************************)
(* Fairness.  An asserted interrupt line is eventually serviced; a queued *)
(* timer eventually expires (jiffies advance) and its callback eventually *)
(* gets the lock; a request thread that can proceed does; queued work     *)
(* runs; the PM core always sends PM_POST_SUSPEND after a prepare that    *)
(* returned.  The hardware is not fair: a job may hang forever, and new   *)
(* requests, suspends and faults may never come.                          *)
(***************************************************************************)
Fairness ==
    /\ WF_vars(g2d_irq_handler)
    /\ WF_vars(g2d_prepare_suspend_drained)
    /\ WF_vars(g2d_pm_post_suspend)
    /\ WF_vars(g2d_shutdown_drained)
    /\ \A t \in Tasks :
          /\ WF_vars(g2d_ioctl_submit(t))
          /\ WF_vars(g2d_wait_put_user(t))
          /\ WF_vars(g2d_task_completion_work(t))
          /\ WF_vars(timer_expire(t))
          /\ WF_vars(g2d_hw_timeout_handler(t))

FairSpec == Spec /\ Fairness

(***************************************************************************)
(* Refinement of G2DTaskLifecycle: a task's phase is named by its state   *)
(* field, and the device is closed to new work while the suspend bit is   *)
(* set.  Timers, interrupt bits, the hardware queue, faults and the PM   *)
(* drain are invisible to the abstract specification (stuttering steps).  *)
(***************************************************************************)
PhaseName == [free |-> "free", unprepared |-> "held", prepared |-> "queued",
              active |-> "running", processed |-> "finished"]

Life == INSTANCE G2DTaskLifecycle
          WITH phase <- [t \in Tasks |-> PhaseName[state[t]]],
               gate  <- IF suspending THEN "closed" ELSE "open"

(***************************************************************************)
(* Properties                                                              *)
(***************************************************************************)

\* Every task has exactly one owner: a task is on the free list (once, and
\* held by no request) exactly when its state is free, on the prepared or
\* active list exactly when its state says so, and otherwise held by the
\* request or the completion work that must release it.  A double release
\* of a task by the IRQ path, the completion work and the waiter, or a
\* retire that leaves a task on the active list, breaks it.
TaskOwnership ==
    /\ IsInjective(freeList)
    /\ IsInjective(prepared)
    /\ \A t \in Tasks :
          /\ (t \in ToSet(freeList)) <=> (state[t] = "free")
          /\ (t \in ToSet(prepared)) <=> (state[t] = "prepared")
          /\ (t \in active) <=> (state[t] = "active")
          /\ (state[t] = "free") <=> (caller[t] = "none")

\* A job id the hardware still holds, or whose finished bit is pending, is
\* the job of an active task: the job-slot mapping is torn down only with
\* the hardware job.  Otherwise a late finished bit of a flushed job would
\* retire the next submission that reuses the id (g2d_irq_handler retires
\* whatever active task carries the id), before its job ever ran.
HwJobsBelongToActive ==
    ToSet(hwq) \cup intflags \subseteq active

\* Once g2d_prepare_suspend has returned, for a suspend or a shutdown, no
\* task is active and the hardware holds no job until PM_POST_SUSPEND (for
\* good after a shutdown): a request submitted while the suspend bit is set
\* waits on the prepared list.
SuspendQuiescent ==
    pm \in {"suspended", "shutdown"} => active = {} /\ hwq = << >>

\* Every behaviour of the driver is a behaviour of the abstract task life
\* cycle: a task is taken only from the pool, starts running only when
\* submitted to an open device or when PM_POST_SUSPEND opens it, finishes
\* only from running (or at a failed start), and returns to the pool only
\* before it was started or after it finished, never from the prepared or
\* active list.
LifecycleRefined == Life!Spec

\* Every task pushed to the hardware comes back to the pool, whatever the
\* hardware does: a hung job is killed by its timeout, a job that survives
\* the kill is flushed by the second timeout's global reset, a queued job's
\* timer is re-armed until one of those retires it, and the waiter or the
\* completion work then releases it.
ActiveTaskReturns ==
    \A t \in Tasks : state[t] \in {"active", "processed"} ~> state[t] = "free"

\* A suspend (or shutdown) drain ends: g2d_prepare_suspend returns once the
\* stragglers are retired, by their interrupts or by the timeout handler
\* killing them (the drain is "bounded by the timeout supervisor").
DrainCompletes ==
    /\ pm = "draining" ~> pm = "suspended"
    /\ pm = "shutting" ~> pm = "shutdown"

\* A timeout callback acts only on the submission its timer was armed for:
\* a callback that started before the task was retired and reused
\* (g2d_drv.c:45-50 checks only that the task is active) neither kills the
\* new submission's job nor resets the hardware.
TimeoutActsOnOwnSubmission ==
    [][\A t \in Tasks :
          timerCb[t] = "stale" /\ timerCb'[t] = "none"
             => killed' = killed /\ hwq' = hwq]_vars

\* The IOMMU fault handler never dumps a task it did not find: the stamp of
\* G2D_STAMP_STATE_MMUFAULT dereferences the task pointer.
NoNullFaultDump == ~oops

=============================================================================
