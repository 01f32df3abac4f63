------------------------------ MODULE G2DProbe ------------------------------
(***************************************************************************)
(* g2d_probe (src/drivers/gpu/exynos/g2d/g2d_drv.c) and get_hw_version.   *)
(*                                                                         *)
(* Probe acquires, in order: the devm resources (the register window, the *)
(* IRQ, the clock), the IOVMM, runtime PM, the misc device /dev/g2d, the  *)
(* task pool, the PM notifier and the debugfs files.  The devm resources  *)
(* are released by the driver core when probe fails; the others are held  *)
(* (held) until the error labels err_pm, err_task and err release them.   *)
(* One action per stretch of code between two calls that may fail; the   *)
(* first of them may run again after a failure (deferred probe or a new    *)
(* bind), at most MaxProbes times.                                         *)
(*                                                                         *)
(* pmUsage is the runtime-PM usage count of the device, which             *)
(* pm_runtime_get_sync raises even when it fails.  listsInit says whether  *)
(* lock_task and the three task lists have been initialised; earlyIoctl    *)
(* records an ioctl reaching them through /dev/g2d before that.            *)
(***************************************************************************)
EXTENDS Naturals

CONSTANT MaxProbes

Resources == {"iovmm", "rpm", "misc", "tasks", "notifier", "debug"}

Pcs == {"setup", "iovmm", "hw_version", "misc", "tasks", "notifier",
        "finish", "failed", "probed"}

\* Mutant: err_task is placed below misc_deregister, so a failed
\* g2d_create_tasks leaves /dev/g2d registered.
Unwind_task_keeps_misc ==
    [err      |-> {"rpm", "iovmm"},
     err_task |-> {"rpm", "iovmm"},
     err_pm   |-> {"tasks", "misc", "rpm", "iovmm"}]

\* What each error label releases, falling through to the labels below it.
Unwind == [err      |-> {"rpm", "iovmm"},
           err_task |-> {"misc", "rpm", "iovmm"},
           err_pm   |-> {"tasks", "misc", "rpm", "iovmm"}]

VARIABLES
    ppc,         \* where g2d_probe is
    held,        \* the non-devm resources probe holds
    probeRet,    \* "none" before probe returns, then "ok" or "err"
    attempts,    \* probes started
    pmUsage,     \* runtime-PM usage count
    listsInit,   \* lock_task and the task lists are initialised
    earlyIoctl   \* an ioctl used them uninitialised (ghost)

probeVars == <<ppc, held, probeRet, attempts, pmUsage, listsInit, earlyIoctl>>

TypeOK ==
    /\ ppc \in Pcs
    /\ held \subseteq Resources
    /\ probeRet \in {"none", "ok", "err"}
    /\ attempts \in 1 .. MaxProbes
    /\ pmUsage \in Nat
    /\ listsInit \in BOOLEAN
    /\ earlyIoctl \in BOOLEAN

Init ==
    /\ ppc = "setup"
    /\ held = {}
    /\ probeRet = "none"
    /\ attempts = 1
    /\ pmUsage = 0
    /\ listsInit = FALSE
    /\ earlyIoctl = FALSE

\* Probe returns an error before it holds anything the labels release.
ReturnErr ==
    /\ ppc' = "failed"
    /\ probeRet' = "err"

\* goto label: release what the label and those below it undo.
GotoErr(label) ==
    /\ held' = held \ Unwind[label]
    /\ ReturnErr

\* Go on to step next having acquired the resources in got.
Acquired(got, next) ==
    /\ held' = held \cup got
    /\ ppc' = next
    /\ UNCHANGED probeRet

\* devm_kzalloc, platform_set_drvdata, devm_ioremap_resource, the IRQ
\* resource, devm_request_irq and devm_clk_get: any may fail with a plain
\* return.
g2d_probe_setup ==
    /\ ppc = "setup"
    /\ \/ Acquired({}, "iovmm")
       \/ ReturnErr /\ UNCHANGED held
    /\ UNCHANGED <<attempts, pmUsage, listsInit, earlyIoctl>>

\* iovmm_set_fault_handler; iovmm_activate may fail with a plain return.
g2d_probe_iovmm ==
    /\ ppc = "iovmm"
    /\ \/ Acquired({"iovmm"}, "hw_version")
       \/ ReturnErr /\ UNCHANGED held
    /\ UNCHANGED <<attempts, pmUsage, listsInit, earlyIoctl>>

\* pm_runtime_enable, then get_hw_version: pm_runtime_get_sync (which
\* raises the usage count even when it fails, and then returns without
\* pm_runtime_put), clk_prepare_enable and the version read, and
\* pm_runtime_put.  A failure goes to err.
g2d_probe_hw_version ==
    /\ ppc = "hw_version"
    /\ \/ /\ pmUsage' = pmUsage + 1
          /\ GotoErr("err")
       \/ /\ UNCHANGED pmUsage
          /\ GotoErr("err")
       \/ /\ UNCHANGED pmUsage
          /\ Acquired({"rpm"}, "misc")
    /\ UNCHANGED <<attempts, listsInit, earlyIoctl>>

\* misc_register publishes /dev/g2d; a failure goes to err.
g2d_probe_misc ==
    /\ ppc = "misc"
    /\ \/ Acquired({"misc"}, "tasks")
       \/ GotoErr("err")
    /\ UNCHANGED <<attempts, pmUsage, listsInit, earlyIoctl>>

\* spin_lock_init and INIT_LIST_HEAD of the three lists, then
\* g2d_create_tasks; a failure goes to err_task.
g2d_probe_tasks ==
    /\ ppc = "tasks"
    /\ listsInit' = TRUE
    /\ \/ Acquired({"tasks"}, "notifier")
       \/ GotoErr("err_task")
    /\ UNCHANGED <<attempts, pmUsage, earlyIoctl>>

\* init_waitqueue_head, register_pm_notifier; a failure goes to err_pm.
g2d_probe_notifier ==
    /\ ppc = "notifier"
    /\ \/ Acquired({"notifier"}, "finish")
       \/ GotoErr("err_pm")
    /\ UNCHANGED <<attempts, pmUsage, listsInit, earlyIoctl>>

\* The fence context, g2d_init_debug, return 0.
g2d_probe_finish ==
    /\ ppc = "finish"
    /\ held' = held \cup {"debug"}
    /\ ppc' = "probed"
    /\ probeRet' = "ok"
    /\ UNCHANGED <<attempts, pmUsage, listsInit, earlyIoctl>>

\* The driver core probes the device again after a failure.  devm_kzalloc
\* gives a new, zeroed g2d_device; pmUsage belongs to the struct device
\* and survives.
g2d_probe_again ==
    /\ ppc = "failed"
    /\ attempts < MaxProbes
    /\ ppc' = "setup"
    /\ probeRet' = "none"
    /\ attempts' = attempts + 1
    /\ listsInit' = FALSE
    /\ UNCHANGED <<held, pmUsage, earlyIoctl>>

\* A process opens /dev/g2d while probe is still running and issues an
\* ioctl: g2d_open needs only the g2d_device, g2d_ioctl takes lock_task
\* and the task lists.
g2d_ioctl_during_probe ==
    /\ "misc" \in held
    /\ probeRet = "none"
    /\ earlyIoctl' = (earlyIoctl \/ ~listsInit)
    /\ UNCHANGED <<ppc, held, probeRet, attempts, pmUsage, listsInit>>

Next ==
    \/ g2d_probe_setup
    \/ g2d_probe_iovmm
    \/ g2d_probe_hw_version
    \/ g2d_probe_misc
    \/ g2d_probe_tasks
    \/ g2d_probe_notifier
    \/ g2d_probe_finish
    \/ g2d_probe_again
    \/ g2d_ioctl_during_probe

Spec == Init /\ [][Next]_probeVars

-----------------------------------------------------------------------------

\* Whatever call of g2d_probe fails, once it has returned the driver holds
\* either every resource (it returned 0) or none of the IOVMM, runtime PM,
\* /dev/g2d, the task pool and the PM notifier (it returned an error): the
\* error labels err_pm, err_task and err undo exactly what the steps
\* before the failure acquired, in reverse.
ProbeReturnsBalanced ==
    /\ probeRet = "ok"  => held = Resources
    /\ probeRet = "err" => held = {}

=============================================================================
