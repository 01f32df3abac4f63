# TLA+ models of the raviole device drivers

This directory holds TLA+ specifications of the drivers under `src/`, the
TLC configurations that check them, and `PROJECT.json`, which records, for
every definition, the source lines it models, every run and what it is
expected to show, the mutants that show each property can fail, and the
hazards of the code.

## The system

| Part | Source | What it is |
|---|---|---|
| G2D scheduler | `src/drivers/gpu/exynos/g2d/g2d_drv.c` | The 2D accelerator's job control plane: a fixed pool of `G2D_MAX_JOBS` tasks on free/prepared/active lists under one spin lock `lock_task`, pushed to a hardware job queue, retired by an interrupt handler, watched by a per-task timeout timer, and drained by a PM notifier before suspend. |
| G2D debug | `src/drivers/gpu/exynos/g2d/g2d_debug.c` | A global ring of 1024 stamps indexed by an `atomic_t`, its debugfs reader, and a register/command dump that is taken on error stamps. |
| Contaminant detection | `src/drivers/usb/typec/tcpm/max77759_contaminant.c` | A USB-C port state machine (NOT_DETECTED, DETECTED, FLOATING_CABLE, SINK) driven by CC-status alerts, which switches the TCPC between contaminant detection and dry detection. |
| MFC memory | `src/drivers/media/platform/exynos/mfc/mfc_mem.c` | ION allocation and the decoder picture buffer (DPB) table of IOVMM mappings, with per-plane buffer-container addresses. |
| S2MPG10 regulator | `src/drivers/regulator/s2mpg10-regulator.c` | PMIC regulator ops (mode, enable, ramp delay, voltage selection), OCP warning interrupts, DT parsing and a register sysfs. |
| GSA core | `src/drivers/soc/google/gsa/gsa_core.c` | The platform driver of the security core: probe sets up the mailbox and creates the child devices (the TPU driver among them), which call its command wrappers through the parent's drvdata. |
| Power domain, meters | `exynos-pd_el3.c`, `exynos-pd.h`, meter headers | Two SMC calls, declarations and stub inlines. |

How the G2D parts interact.
- A user thread calls `G2D_IOC_PROCESS` (`g2d_ioctl`). It takes a task from the free list and schedules it. If the suspend bit is set, the task waits on the prepared list. Otherwise it is executed: moved to the active list, given a timer, and pushed to the hardware.
- A blocking caller then waits for the task's completion and returns the task to the pool. For a non-blocking caller, a work item releases it.
- The hardware raises the interrupt with a mask of finished job ids and an error status.
  - `g2d_irq_handler` retires the finished tasks.
  - On an error it flushes every active task and resets the hardware.
  - It then wakes `freeze_wait`.
- Each task's timer calls `g2d_hw_timeout_handler`:
  - if the task is inactive or its job is done, nothing happens;
  - if the task was already killed, the handler does a global reset and a flush;
  - otherwise it re-arms the timer and kills the job if that job is the one running.
- The IOMMU fault handler reads the running job and stamps it, which dumps the task.
- The PM notifier's `PM_SUSPEND_PREPARE` sets the suspend bit and waits on `freeze_wait` until the active list is empty. `PM_POST_SUSPEND` runs the prepared tasks.
- `g2d_shutdown` does the same drain, but nothing clears the suspend bit
  afterwards. It then tests and sets `G2D_DEVICE_STATE_IOVMM_DISABLED` and
  calls `iovmm_deactivate` only when the bit was already set.

The helpers of `g2d_task.c` and the register layer are not in this tree:
`g2d_get_free_task`, `g2d_put_free_task`, `g2d_finish_task`,
`g2d_flush_all_tasks`, `g2d_execute_task`, `g2d_schedule_task`,
`g2d_prepare_suspend`, `g2d_wait_put_user` and the `g2d_hw_*` helpers. They
are modelled from `spec.md` and marked `spec_modelled` in the map.

## Modules

### `G2DScheduler.tla` (with `MC_G2DScheduler.tla`)

**State.** Each variable corresponds to a field of `struct g2d_device` or
`struct g2d_task`. The three lists are `freeList`, `prepared` and `active`.
`state` is the task state, and `killed`, `error` and `done` are its flag
bits. `timerPending` means the task's timer is queued. `hwq` is the
hardware's job queue, whose head is RUNNING. `intflags` and `errstatus` are
the interrupt status. `suspending` is the suspend bit of `g2d_dev->state`.
`pm` is where the PM notifier or `g2d_shutdown` is, and `drainAwake` says
whether the `wait_event` on `freeze_wait` will re-test its condition.
`iovmmDisabled` is the `G2D_DEVICE_STATE_IOVMM_DISABLED` bit, and
`iovmmActive` says whether the IOVMM is still activated (since probe).

Two ghost variables record what happened in the middle of an unlocked
sequence:
- `timerCb` records that a timeout callback has been entered but has not yet
  taken the lock, and whether the task has since been reused ("stale");
- `faulting` and `faultJob` record the IOMMU fault handler's unlocked read.

`caller` says who holds a task that is on no list:
- the ioctl that took it ("acquired");
- a blocked waiter ("waiting");
- nobody, for a non-blocking request in flight ("detached");
- the completion work ("work").

The job id of task *i* is *i*: the pool has exactly `G2D_MAX_JOBS` tasks, one
per hardware job slot.

**Actions.** There is one action per handler. A handler that runs entirely
under `lock_task` is one atomic step.

| Action | Code |
|---|---|
| `g2d_ioctl_get_task` | `g2d_ioctl`: `copy_from_user`, `g2d_get_free_task` |
| `g2d_ioctl_submit(t)` | `g2d_ioctl`: `g2d_get_userdata` (may fail), stamp, `g2d_start_task` → `g2d_schedule_task` |
| `g2d_wait_put_user(t)` | the blocking caller's wait and release |
| `g2d_task_completion_work(t)` | the non-blocking release |
| `g2d_irq_handler` | `g2d_irq_handler`, with its `wake_up(freeze_wait)` |
| `timer_expire(t)` | the timer firing and the callback's unlocked prologue |
| `g2d_hw_timeout_handler(t)` | the callback's locked body, three branches |
| `SysmmuFault`, `g2d_iommu_fault_read`, `g2d_iommu_fault_handler` | a fault raised by the running job's DMA, the unlocked read of the current job, and the locked lookup followed by the stamp |
| `g2d_pm_suspend_prepare`, `g2d_prepare_suspend_drained`, `g2d_pm_post_suspend` | `g2d_notifier_event`; the second is the test of the `wait_event` |
| `g2d_shutdown_begin`, `g2d_shutdown_drained` | `g2d_shutdown`: `g2d_prepare_suspend`'s bit and drain; then the second `wait_event`, which passes at once, and `test_and_set_bit` with the `iovmm_deactivate` it guards |
| `HwComplete`, `HwError` | the hardware finishing a job or raising an error (environment) |

**Fairness** (`Fairness`) is weak fairness on the following, each justified by the code's scheduling:
- **The IRQ handler.** An asserted interrupt is serviced.
- **Timer expiry and the callback.** Jiffies advance, and the lock is short-held.
- **The waiter and the completion work.** A woken thread runs, and queued work runs.
- **The submit step of a request that holds a task.**
- **The drain test.** A woken `wait_event` re-tests its condition.
- **`PM_POST_SUSPEND`.** The PM core always sends it after a prepare that returned.
- **The shutdown drain test**, like the suspend one.

The hardware has no fairness. A job may never finish, an error may never
come, and users may never submit.

**Refinement.** `G2DScheduler` instantiates `G2DTaskLifecycle` as `Life`:
- the phase of task *t* is `PhaseName[state[t]]`: free, held (unprepared),
  queued (prepared), running (active) or finished (processed);
- the device's gate is closed exactly while the suspend bit is set.

`LifecycleRefined == Life!Spec` is checked as a `PROPERTY` of the
`g2d_safety` run. Timer, interrupt-bit, hardware-queue, fault and drain
steps are stuttering steps of the abstract specification.

### `G2DProbe.tla` (composed with the scheduler in `MC_G2DProbed.tla`)

`g2d_probe` and `get_hw_version`, one action per stretch of code between
two calls that may fail.
- `held` is the set of non-devm resources probe holds: the IOVMM, runtime
  PM, `/dev/g2d`, the task pool, the PM notifier and debugfs.
- `Unwind` maps each error label (`err_pm`, `err_task`, `err`) to what it
  and the labels below it release.
- `g2d_probe_again` is the driver core probing again after a failure,
  at most `MaxProbes` times.
- `pmUsage` is the runtime-PM usage count, raised by
  `pm_runtime_get_sync` even when it fails.
- `g2d_ioctl_during_probe` is an open and ioctl of `/dev/g2d` after
  `misc_register` and before probe returns. The ghost `earlyIoctl`
  records one that found the task lists uninitialised.

`MC_G2DProbed` runs the probe first and the scheduler only after probe
returned 0: the scheduler's actions are reachable only through the
device node that probe registers.

### `Gsa.tla` (beside the contaminant model in `MC_MaxContaminant.tla`)

`gsa_probe` one call per step, the unbind after `gsa_remove`, and the
child devices' calls into the command interface.
- `pc` is the probe step or the unbind phase. `sAlive`, `drvdata` and
  `mb` are the state the children reach.
- A failed probe and an unbind release the devres in reverse order of
  registration: the children, then the state, then `drvdata` is cleared.
  This is the driver core's code, so `ReleaseDevres`, `ReleaseChildren`
  and `ReleaseState` are `spec_modelled`.
- `gsa_send_cmd(c)` stands for `gsa_send_cmd` and its four wrappers. The
  mailbox itself is not in this tree: its result is a timeout or success.
- `gsa_send_tpu_cmd(c)` records the mailbox's answer (a ghost) beside the
  int it returns. `TpuResult` is the code's result selection and `ToInt`
  its u32-to-int conversion.
- A failed `devm_of_platform_populate` fails before it creates any
  child, so it leaves none bound.

The two drivers share no state. `ContamGsaSpec` checks them in one run as
two separate sets of behaviours: the initial state picks which component
moves.

### `G2DTaskLifecycle.tla`

This is the abstract life cycle of a task, i.e. what the scheduler
promises, with no lists, timers or hardware.
- `Acquire` takes a free task. `Abandon` gives back a held one.
- `Submit` runs a held task on an open device and queues it on a closed
  one. `FailStart` finishes it at once.
- `Retire(S)` finishes any set of running tasks in one step.
- `Release` returns a finished task to the pool.
- `Close` closes the device to new work. `Open` reopens it and runs every
  queued task.

It has no run of its own. Its `Spec` is the property that `G2DScheduler`
is checked against.

### `G2DStamp.tla` (with `MC_G2DStamp.tla`)

`g2d_stamp_task` records every task state change in a global ring of
`G2D_MAX_STAMP_SIZE` records. It claims a slot with
`atomic_inc_return(&p_stamp) & (G2D_MAX_STAMP_SIZE - 1)` and then fills the
record without a lock. It runs on several CPUs at once: the ioctl, the
IRQ, the timer and the IOMMU fault handler. `g2d_stamp_show`, the debugfs
reader, reads `p_stamp` once and prints the ring from the slot after the
newest one.

- **State.** `p_stamp` is a W-bit two's complement integer (`Wrap`,
  `IntW`), 32 bits in the build and 4 in the model. `slot` maps each slot
  to the sequence number of the stamp it holds. `pc`, `mine` and `seqOf`
  hold each CPU's claim. The reader's loop is `rd`, `rptr`, `ri` and `out`.
  `rBusy` records whether a stamp overlapped the read.
- **Actions.**
  - `g2d_stamp_claim(c)` is the `atomic_inc_return` and the mask.
  - `g2d_stamp_fill(c)` is the rest of `g2d_stamp_task`.
  - `g2d_stamp_show_begin`, `g2d_stamp_show_step` and
    `g2d_stamp_show_reopen` are the reader.
- **Property.** `LogChronological`: a read of the log that no stamp
  overlapped prints the stamps oldest first, as the comment at
  `g2d_debug.c:49` promises. The stamp_ring run finds it violated (see
  Runs).
- **Bounds.** A 4-slot ring with a 4-bit counter. 18 stamps take the counter
  through its negative half and out of it again. Two CPUs, with symmetry.
  The violation needs one CPU delayed over a lap of the ring, i.e. five
  stamps.

### `MaxContaminant.tla` and `ContaminantDetect.tla` (with `MC_MaxContaminant.tla`)

`process_contaminant_alert` runs on every CC-status alert.
- In NOT_DETECTED or SINK, a status that may be wet (Rp with a CC at the
  water level) is re-checked by `detect_contaminant`. The result is
  stored, and the chip is reprogrammed: dry detection if the port is wet,
  contaminant detection otherwise.
- In DETECTED or FLOATING_CABLE, a status with both CCs open is re-checked
  in the same way. Any other status re-enables dry detection.

`ContaminantDetect` models the measurement:
- `detect_contaminant` is a pure classifier over a measurement: the two
  comparator bits and the four resistance reads. The code's sink condition
  is kept literally.
- A read returns one of two things:
  - the kOhm value that `adc_to_mv` gives for a FLADC code read with the
    1uA source, or
  - `-EIO`.
- The classifier compares this int with the 1000 kOhm thresholds exactly
  as the code does, errno included.
- The codes are bounded by `FladcCodes`. The runs use codes 6 and 7, which
  give 900 and 1000 kOhm, one on each side of the threshold. 1000 kOhm is
  not below it.
- The side effects of `read_resistance_kohm` on the two OVP-disable bits are
  modelled, including every early return on a failed register access
  (`AfterDetect`, `OvpAfter`).

`MaxContaminant` is the state machine:
- The chip is abstracted to the register fields the three sequences set: the
  CCCONNDRY dry bit, the low-power mode, whether the last LOOK4CONNECTION
  command went out, and the OVP bits.
- Each sequence (`enable_dry_detection`, `enable_contaminant_detection`,
  `disable_contaminant_detection`) is a function of how many of its register
  accesses succeeded (`Reached`), because every access may fail when
  `IOFail` holds.
- The TCPC driver's calls of enable and disable are environment actions.

The MaxQ path is dead code: `contaminant_detect_maxq` is a file-static that
is never set. Nothing ever stores DISABLED.

### `MfcIovmm.tla` and `MfcSpecialBuf.tla` (composed in `MC_MfcIovmm.tla`)

**The DPB table.** Each entry holds, per memory plane, a dma-buf
reference, an attachment, an sg table and a device address. A plane is
modelled by which of these are non-NULL. The ghost `held` counts the kernel
objects the driver really holds for that plane.
- `mfc_get_iovmm(d)` maps the planes in order. Any plane may fail at any of
  its four steps; the error path raises `mapcnt` and undoes
  `mem_get_count` planes with `mfc_put_iovmm`.
- `mfc_put_iovmm`, `mfc_clear_iovmm`, `mfc_cleanup_iovmm` and
  `mfc_cleanup_iovmm_except_used` are one action each. The callers hold
  `dpb_mutex`.
- The decoder's marking of used entries is an environment action.
- The callers are not in this tree. They are assumed to keep the protocol
  the functions check: get on `mapcnt` 0, put and clear on `mapcnt` 1.

**Buffer containers.** One plane of `mfc_bufcon_get_daddr`'s loop is
modelled, one action per iteration, with the container's `dmabufs`,
`attachments` and `addr` arrays. A failure is possible at each of the three
calls. `mfc_bufcon_put_daddr` is modelled as well. The ghost `oops`
records a dereference of a NULL or error pointer.

**Special buffer and shared handle** (`MfcSpecialBuf`). Each field of
`struct mfc_special_buf` (dma-buf, attachment, sg table, device address,
kernel mapping) is NULL, a valid pointer or an error pointer, and the ghost
`sheld` counts the kernel objects held for it.
- `mfc_mem_ion_alloc` picks the heap from the buffer type. A secure heap
  that `__mfc_mem_ion_get_heapmask_by_name` does not find, a secure type
  without `CONFIG_EXYNOS_CONTENT_PATH_PROTECTION`, or an unknown type
  return -EINVAL. Any of the five steps may then fail, and the error labels
  fall through to `err_ion_alloc`. A NULL from `dma_buf_vmap` passes the
  `IS_ERR` test, so success may leave `vaddr` NULL.
- `mfc_mem_ion_free` releases every non-NULL field and NULLs them all.
- `mfc_mem_get_user_shared_handle` and
  `mfc_mem_cleanup_user_shared_handle` fill and empty the shared handle.

`MC_MfcIovmm` composes the two modules: it instances `MfcSpecialBuf` as
`SB` and interleaves the steps of both (`MemSpec`). The two share no
variables, and their callers are different paths of the driver.

**Bounds.** One DPB entry: entries never interact, because every function
either touches one index or applies the same per-entry rule to each. Two
planes, so a failure can follow a fully mapped plane. A batch of two, so
mask 0b10 has a clear bit below a set one. Content protection is on, so every heap-selection branch is reachable. The mfc_dpb run takes about 2.5 minutes.

### `S2mpg10Regulator.tla` (with `MC_S2mpg10Regulator.tla`)

**State.** The PMIC is modelled as a file of 8-bit registers (`reg`).
Beside it the model keeps:
- the driver's `opmode` cache;
- probe progress (`nreg`, `probed`) and `suspended`;
- the regulator core's view of each rail: `want` (after enable or disable),
  `want_sel` (after set_voltage_sel), `ramp_req` (the rate passed to
  set_ramp_delay) and `settle` (the old and new selector of the last
  voltage change and the time `s2m_set_voltage_time_sel` returned for it,
  which `_regulator_do_set_voltage` asks for after each change).

Each op is one call of `s2mpg10_update_reg`, which is in the MFD core and
not in this tree. It is modelled as an atomic masked write (`UpdateReg`,
with `Bitwise`), because it holds the MFD's i2c lock. Ops of different
regulators take different rdev locks, so they interleave freely.

**Actions.**

| Action | Code |
|---|---|
| `ProbeRegister` | one iteration of probe's registration loop: `opmode[id] = enable_mask`, `regulator_register` |
| `ProbeFinish` | the rest of probe: IRQ requests (they only log), the seven writes of `s2mpg10_smpl_warn` and `s2mpg10_ocp_warn` (`WarnWrites`) and the `DCTRLSEL7` update, each of which may fail while probe still returns 0 |
| `SetMode(r)` | `s2m_set_mode` with a DT mode through `s2mpg10_of_map_mode`; `EnableShift` is its bit-scan loop |
| `s2m_enable`, `s2m_disable` | the masked write of the enable field |
| `s2m_set_voltage_sel` | the masked write of the vsel field. `apply_bit` is 0 in every descriptor. |
| `s2m_set_ramp_delay` | `get_ramp_delay`, the shift and address switches, and the masked write |
| `s2mpg10_pmic_suspend`, `s2mpg10_pmic_resume` | the `DCTRLSEL7` writes |

**Operators.**
- `IsEnabled` and `GetVoltageSel` model the read-back functions.
- `s2m_set_voltage_time_sel` is pure.
- `RampFieldsKept` checks each buck's field against `RampCodeRef`, a
  reference definition of `get_ramp_delay` (the fastest rate 6 * 2^c mV/us
  not above the request), so one property covers both the halving loop and
  the shared-register writes.
- `SettleRoundsUp` checks the time in the state against the least whole
  number of microseconds that covers the step.

**DT parsing.** `s2mpg10_pmic_dt_parse_pdata` runs once, before anything
else, and is a function of the device tree, so it is modelled as operators
over constants:
- `DtChildren` is the children of the `regulators` node.
  `RData` is the rdata array that probe registers. It holds the
  known children in order, then one zeroed entry (id 0, `FirstReg`) for each
  unknown child, because `num_regulators` counts every child.
- `Dt` holds the u32 properties of the pmic node that are present.
  `DtU32` is the `ret ? 0 : val` each of them goes through.
- `SmplWarnVal` and `OcpWarnVal` are the u8 values that the two warn
  functions pack from those properties.
- `OcpSrc` records which property fills each field. It includes the
  B10M_SOFT_OCP_WARN line that takes `b10_ocp_warn_en`.

The field shifts come from a register header that is not in this tree, so
they are constants (`OcpShift`, `SmplShift`).

A failing `update_reg` in a regulator op writes nothing, the op returns
the error, and the core keeps its view. It is therefore a stuttering step
and is left out. The writes at the end of probe are different: their
failures are only logged or ignored, so `ProbeFinish` chooses which of
them took effect.

No property reads the warn registers. Probe may leave any of them at the
reset value, so what they hold is not something the code promises.

**Bounds.**
- LDO11M and LDO12M share `LDO_CTRL2` (masks 0x03 and 0x0C).
- LDO3M keeps its selector (bits 5-0) and its enable field (0xC0) in
  `L3M_CTRL`, as most LDOs do.
- BUCK1M and BUCK2M share `DVS_RAMP1` (shifts 0 and 2).
- Modes MIF and ON.
- Ramp requests 12.5 and 50 mV/us, codes 1 and 3. Halving first and
  testing first disagree on 12.5, and the two bucks may hold different
  codes side by side.
- LDO3M is moved between selectors 0 and 63, both up and down, with
  constraints->ramp_delay 7 mV/us, which divides no step of 12.5 mV.
- `CoreCalls`: the core switches the LDOs and sets their mode, and only
  sets the ramp rate of the bucks. A buck's enable register is its own,
  so its enable and mode ops add states and no new case.
- The pmic node's DT has no warn properties, so every warn write writes
  the reset value 0 and its failure changes nothing. A DT that sets them
  multiplies the states by the outcomes of each write.
- The field layout is the one that the order of the `s2mpg10_ocp_warn`
  fields suggests:
  - EN, CNT and DVS_MASK are one bit each, from bit 7 down.
  - LVL is the low five bits.

`min_uV` and `uV_step` come from a header that is not in this tree. They
are kept as illustrative values. Only `SettleRoundsUp` reads them, and it
holds for any step and ramp. This run has
82k distinct states and takes under a minute with two workers. The
violation configuration uses LDO1M alone, whose enable field is the single
bit 7.

## Runs

| Run | Config | Expect | What it shows |
|---|---|---|---|
| g2d_safety | `MC_G2DScheduler.cfg` | pass | `TaskOwnership`, `HwJobsBelongToActive` and `SuspendQuiescent` hold over every interleaving of submission, completion, error, hung job, timeout, IOMMU fault, suspend and shutdown. `LifecycleRefined`: every behaviour is one of `G2DTaskLifecycle`, so no task is released while queued or running and none runs while the suspend bit is set. |
| g2d_liveness | `MC_G2DProbed_live.cfg` | pass | `ProbeReturnsBalanced`: whichever call of `g2d_probe` fails, over two probe attempts, probe returns holding every resource or none. `ActiveTaskReturns`, after a successful probe: every dispatched task comes back to the pool, even if its job hangs forever. The timeout kill and the escalation's reset guarantee it. |
| g2d_stale_timeout | `MC_G2DScheduler_stale_timeout.cfg` | violation | `TimeoutActsOnOwnSubmission` fails. A callback entered before the IRQ retired its task takes the lock after the task was reused, and kills the new job. |
| g2d_fault_dump | `MC_G2DScheduler_fault_dump.cfg` | violation | `NoNullFaultDump` fails. The fault handler's job has finished by the time it looks the job up, so `g2d_dump_task(NULL)` runs. |
| g2d_drain | `MC_G2DScheduler_drain.cfg` | violation | `DrainCompletes` fails. If the last active task is flushed by the double-timeout escalation, nothing wakes `freeze_wait`, and the suspend never completes. |
| stamp_ring | `MC_G2DStamp.cfg` | violation | `LogChronological` fails. CPU 1 claims slot 0 and is delayed before it fills it; CPU 2 stamps four times, laps the ring and fills slot 0 with stamp 5; CPU 1 then writes stamp 1 over it. A read that no stamp overlaps prints stamp 1 after stamps 2-4, against the "chronological order" of `g2d_debug.c:49`. |
| contam_safety | `MC_MaxContaminant.cfg` | pass | `ContaminatedMeansDry`: with any register access allowed to fail, an alert resolved as contaminated with every access succeeding leaves the chip in dry detection, looking for a connection. In the same run, as separate behaviours: `ChildrenSeeLiveMailbox`, a bound GSA child always reaches a live state with an initialised mailbox, through every probe failure and unbind; `TpuResultMeansAnswered`, `gsa_send_tpu_cmd` returns a non-negative value exactly when the GSA filled the response word, and that value is a firmware state. |
| contam_clear | `MC_MaxContaminant_clear.cfg` | violation | `ClearMeansDetection` fails, even without I/O errors. The dry check stores NOT_DETECTED before it tests the result, so a port that is still wet is NOT_DETECTED while the chip is in dry detection. |
| mfc_dpb | `MC_MfcIovmm.cfg` | pass | `TableMatchesObjects`: whatever plane and step of `mfc_get_iovmm` fails, and in any order of puts, clears and cleanups, the entry's handles are exactly the objects the driver holds. An entry with `mapcnt` 0 holds nothing. `SpecialBufMatchesObjects`: whatever step of `mfc_mem_ion_alloc` fails, interleaved with frees and shared-handle calls, no error pointer is left in a field and one object is held per valid field. |
| mfc_bufcon | `MC_MfcIovmm_bufcon.cfg` | violation | `BufconMapsMaskedBuffers` fails. With container mask 0b10, results are stored at slot *j* but checked and used at slot *i*, so `ion_iovmm_map` receives a NULL attachment. |
| pmic_regs | `MC_S2mpg10Regulator.cfg` | pass | `EnabledMatchesCore` and `VselMatchesCore`: under every interleaving of the ops of two LDOs that share an enable register and of LDO3M, whose selector and enable field share a register, each rail reads back the enable state and selector the core last asked of it. `RampFieldsKept`: each buck's field of the shared ramp register holds the reference code of its requested rate. `SettleRoundsUp`: the settling time returned for a voltage change, up or down, is the least that covers it. |
| pmic_mif_mode | `MC_S2mpg10Regulator_mif.cfg` | violation | `EnabledMatchesCore` fails in three steps: probe, `set_mode(MIF)`, `s2m_enable`. On a one-bit enable field (LDO1M, LDO2M, LDO21M-31M), `(2 << 7) & 0x80` is 0, so enable writes 0 and returns success. |


Every property of every passing run has a mutant in `PROJECT.json`: a
plausible bug in the mapped code that TLC shows the property catches.

`CHECK_DEADLOCK FALSE` in the G2D configurations has two reasons. Both
are real states with no enabled step:
- **The drain hang above.** The drain waits forever while the new requests
  wait on the prepared list. Checking for deadlock would report the same
  defect that `g2d_drain` reports as a liveness violation.
- **After `g2d_shutdown`.** Nothing clears the suspend bit, so once every
  task has been submitted to the prepared list the driver has no step
  left. This is the intended end of a shutdown.

The liveness run uses `ProbedNoFaultFairSpec`, that is, `NoFaultFairSpec` from the MC module. It forbids only
the fault path, whose variables (`faulting`, `faultJob`, `oops`) no other
action reads. This keeps the liveness graph small enough for TLC.

**Bounds.** Two tasks (`MC_MaxJobs == 2`) are enough for each of the following:
- one job runs while another queues behind it, so re-arming matters;
- an error or an escalation flushes two tasks at once;
- a task retired by the IRQ is taken again by a new request while its old timer callback is still in flight;
- a request arrives while the drain is waiting.

Every action and every branch of each handler fires in `g2d_safety`.
Two probe attempts (`MC_MaxProbes == 2`) let a probe fail with the usage
count raised and a second one succeed. `contam_safety` gives GSA two
children, so one calls while the other is released, and TPU states
0-2.

The other passing runs check for deadlock.

## Hazards that no run isolates

`PROJECT.json` lists every hazard, and for each one the properties that
cover it or a note on why none does. The following defects are modelled but
have no run of their own.

- **`read_resistance_kohm` leaves OVP disabled.** When a register access
  fails after it disabled the SBU (or CC) over-voltage protection, it
  returns without enabling it again (`max77759_contaminant.c:199`).
  `MaxContaminant` keeps both bits, and TLC reaches states with them left
  set.
- **`detect_contaminant` compares error codes as resistances.** A negative
  error code from a failed read is compared with the kOhm thresholds
  (`:333`, `:341`), so two I2C errors declare the port contaminated.
  `Below` compares the read's int as the code does, so the contam_safety
  run goes through these steps.
- **`get_hw_version` leaks a runtime-PM usage count.** It returns after a
  failed `pm_runtime_get_sync` without `pm_runtime_put`
  (`g2d_drv.c:182`). In `G2DProbe` TLC reaches a successful second probe
  with `pmUsage` at 1, so the device never runtime-suspends.
- **`/dev/g2d` is published before the task lists exist.** `misc_register`
  (`g2d_drv.c:369`) comes before `spin_lock_init` and `INIT_LIST_HEAD` of
  the lists. TLC reaches `earlyIoctl`: an ioctl in that window walks
  zeroed list heads.
- **`p_stamp` overflow empties the log.** After 2^31 stamps `p_stamp` is
  negative, and `g2d_stamp_show` prints nothing (`g2d_debug.c:46`).
- **`g2d_shutdown` deactivates the IOVMM only if it was already marked
  disabled.** `test_and_set_bit` returns the old bit (`g2d_drv.c:425`).
  Nothing in this tree or in `spec.md` sets the bit earlier, so in the model
  the first shutdown leaves the IOVMM active. The bit's other writers are
  in `g2d_task.c`, which is not in this tree, so no property says what the
  bit should mean.
- **A ramp code of 4 is truncated.** A 96-191 mV/us request yields code 4
  (`s2mpg10-regulator.c:143`). It passes the `> 4` warning test, but the
  two-bit field then receives 0, the slowest rate. A request of 100 mV/us
  added to `MC_RampDelays` makes TLC report `RampFieldsKept` violated.
- **Unknown DT regulator children.** They are counted in `num_regulators`
  but not filled (`:424`), so probe registers the zeroed entry as LDO1M a
  second time.
  - `RData` models this, but the pmic_regs DT has only known children.
  - The model keeps one core view per regulator rather than per regulator
    device, so it cannot tell two devices for LDO1M apart.
- **The soft TPU OCP warning copies the hard enable.** `s2mpg10_ocp_warn`
  fills the EN bit of B10M_SOFT_OCP_WARN from `b10_ocp_warn_en`
  (`s2mpg10-regulator.c:808`). The line's other three fields use the
  `b10_soft_*` properties.
  - `OcpSrc` keeps the copy. No property reads the warn registers,
    because probe may leave each of them at its reset value.
- **Warn values are not masked.** Each DT value is shifted into a u8
  without masking (`:773`). A value wider than its field spills into the
  field beside it, and nothing validates the DT. `OcpWarnVal` ORs the
  values unmasked as the code does.
- **Probe ignores failed warn writes.** `s2mpg10_ocp_warn` only logs a
  failed write, probe ignores `s2mpg10_smpl_warn`'s result (`:1015`) and
  the `DCTRLSEL7` update's. Probe returns 0 with those registers at their
  reset values; `ProbeFinish` reaches every such outcome.
- **A failed kernel mapping is taken for success.** `mfc_mem_ion_alloc`
  tests `dma_buf_vmap`'s result with `IS_ERR`, but the call reports failure
  with NULL (`mfc_mem.c:164`). Allocation then returns 0 with `vaddr` NULL.
  `AllocOk` keeps this outcome. The NULL is dereferenced by callers that
  are not in this tree.
- **The put paths never reset `sgt[i]`.** `mfc_put_iovmm` and
  `mfc_clear_iovmm` leave it set, so a later failed `mfc_get_iovmm` unmaps
  a stale sg table. The attachment is always NULL by then, so the kernel
  only warns.

## Plan

Done:
- `G2DScheduler`: the ioctl, IRQ, timeout, IOMMU fault, PM notifier and
  shutdown paths, and their refinement of `G2DTaskLifecycle`.
- `G2DStamp`: the ring index through signed overflow, and the reader.
- `MaxContaminant` and `ContaminantDetect`: the alert state machine, the
  three register sequences with failure at any access, and the classifier.
- `MfcIovmm` and `MfcSpecialBuf`: the DPB table, the buffer-container loop,
  ION allocation with its error labels, and the shared handle.
- `S2mpg10Regulator`: the regulator ops on a shared register file, probe
  with DT parsing and the warn register setup, suspend and resume, and the
  ramp arithmetic.

- `G2DProbe`: probe, its error labels and the window before the task lists
  exist, composed before the scheduler.
- `Gsa`: probe, unbind with devres order, and the command interface.

Next:
1. **`g2d_remove` and the runtime PM callbacks**, as steps after
   `g2d_shutdown` in `MC_G2DProbed`.
2. **Properties for the hazards listed without one** in `PROJECT.json`, as
   invariants of the runs that already exist.

## Not modelled

- Register encoding, command-buffer contents, fences, dma-buf import and
  the teardown of `g2d_remove` after its `g2d_shutdown` in
  G2D.
- debugfs and sysfs file plumbing.
- The ION heaps themselves: a heap lookup is a boolean outcome.
- The S2MPG10 OCP interrupt handlers, which only log, and its sysfs register
  peek/poke, which by design bypasses the regulator core.
- The GSA mailbox transport (`gsa_send_mbox_cmd`, `gsa_mbox_init`) is not
  in this tree. `Gsa` models it as a call that may time out, and it does
  not model the request words packed by `gsa_send_load_img_cmd`.
- The power-domain SMC wrappers (`exynos-pd_el3.c`) have no state of their
  own. `exynos-pd.h` and the meter headers only declare structures,
  prototypes and empty stubs, so they have no behaviour to model.

Each of these is either pure I/O or a call into code that is not in this
tree.
