--------------------------------- MODULE Gsa ---------------------------------
(***************************************************************************)
(* The GSA core platform driver (src/drivers/soc/google/gsa/gsa_core.c):  *)
(* gsa_probe, the unbind that follows gsa_remove, and the command          *)
(* interface its child devices (the TPU driver among them) call.           *)
(*                                                                         *)
(* Probe runs one step per call it makes, since the children it creates   *)
(* in devm_of_platform_populate run their own probe, and later their own  *)
(* threads, which may call gsa_send_cmd.  The driver state s is reached by *)
(* the children through the platform drvdata.  A probe that fails and an  *)
(* unbind release the devm resources in the reverse order of their         *)
(* registration (the children before s) and clear drvdata: that is the    *)
(* driver core's doing, outside this tree.  The mailbox driver             *)
(* (gsa_send_mbox_cmd, gsa_mbox_init) is not in this tree either; its     *)
(* calls may fail, and a command answers with a negative errno or the      *)
(* number of response words it filled.                                     *)
(***************************************************************************)
EXTENDS Integers, Sequences
LOCAL INSTANCE Functions

CONSTANTS
    Children,   \* the child devices described under the GSA node
    TpuStates   \* the u32 states the GSA firmware answers a TPU command with

\* The step gsa_probe is at, or the phase of an unbind.
Pcs == {"unbound", "set_drvdata", "dma_mask", "mbox_init", "populate",
        "bound", "removed", "depopulated"}

EINVAL == -22
ENOMEM == -12
MboxErrs == {-110}   \* e.g. -ETIMEDOUT from the mailbox
ProbeErrs == {-5}    \* an error of dma_set_mask_and_coherent or populate

VARIABLES
    pc,        \* where probe or unbind is
    probeRet,  \* <<what the last gsa_probe returned>>, or << >>
    sAlive,    \* the devm_kzalloc'ed gsa_dev_state exists
    drvdata,   \* platform_get_drvdata: "s" or "null"
    mb,        \* s->mb: "null" or "mbox" (an ERR_PTR fails probe at once)
    bound,     \* Children -> BOOLEAN: the child is bound and may call in
    cmdRet,    \* Children -> <<what its last gsa_send_cmd returned>>, or << >>
    tpuRet     \* Children -> its last gsa_send_tpu_cmd, << >> before any:
               \* <<[ans |-> the mailbox's answer (ghost), ret |-> the int]>>

vars == <<pc, probeRet, sAlive, drvdata, mb, bound, cmdRet, tpuRet>>
callVars == <<cmdRet, tpuRet>>

NoChildren == [c \in Children |-> FALSE]

\* The u32 tpu_state returned through gsa_send_tpu_cmd's int (TLC
\* itself holds no integer above 2^31 - 1).
ToInt(u) == IF u > 2147483647 THEN u - 2^31 - 2^31 ELSE u

TypeOK ==
    /\ pc \in Pcs
    /\ probeRet \in {<< >>} \cup {<<e>> : e \in {0, ENOMEM} \cup ProbeErrs}
    /\ sAlive \in BOOLEAN
    /\ drvdata \in {"s", "null"}
    /\ mb \in {"null", "mbox"}
    /\ bound \in [Children -> BOOLEAN]
    /\ cmdRet \in [Children -> {<< >>} \cup {<<r>> : r \in MboxErrs \cup {0}}]
    /\ tpuRet \in [Children -> Seq([ans : MboxErrs \cup {0, 1}, ret : Int])]
    /\ \A c \in Children : Len(tpuRet[c]) <= 1

Init ==
    /\ pc = "unbound"
    /\ probeRet = << >>
    /\ sAlive = FALSE
    /\ drvdata = "null"
    /\ mb = "null"
    /\ bound = NoChildren
    /\ cmdRet = [c \in Children |-> << >>]
    /\ tpuRet = [c \in Children |-> << >>]

\* devres frees s and the driver core clears drvdata.
ReleaseDevres ==
    /\ pc' = "unbound"
    /\ sAlive' = FALSE
    /\ drvdata' = "null"
    /\ mb' = "null"

\* Probe returns the error e.
ProbeFails(e) ==
    /\ ReleaseDevres
    /\ probeRet' = <<e>>

\* devm_kzalloc: -ENOMEM, or a zeroed s.
gsa_probe_alloc ==
    /\ pc = "unbound"
    /\ \/ /\ probeRet' = <<ENOMEM>>
          /\ UNCHANGED <<pc, sAlive, drvdata, mb>>
       \/ /\ pc' = "set_drvdata"
          /\ sAlive' = TRUE
          /\ UNCHANGED <<probeRet, drvdata, mb>>
    /\ UNCHANGED <<bound, callVars>>

\* s->dev = dev; platform_set_drvdata(pdev, s).
gsa_probe_set_drvdata ==
    /\ pc = "set_drvdata"
    /\ pc' = "dma_mask"
    /\ drvdata' = "s"
    /\ UNCHANGED <<probeRet, sAlive, mb, bound, callVars>>

\* dma_set_mask_and_coherent(dev, DMA_BIT_MASK(32)) may fail.
gsa_probe_dma_mask ==
    /\ pc = "dma_mask"
    /\ \/ pc' = "mbox_init" /\ UNCHANGED <<probeRet, sAlive, drvdata, mb>>
       \/ \E e \in ProbeErrs : ProbeFails(e)
    /\ UNCHANGED <<bound, callVars>>

\* Mutant: the IS_ERR test is dropped, so probe goes on with an ERR_PTR
\* in s->mb.
gsa_probe_mbox_init_nocheck ==
    /\ pc = "mbox_init"
    /\ mb' \in {"mbox", "err"}
    /\ pc' = "populate"
    /\ UNCHANGED <<probeRet, sAlive, drvdata, bound, callVars>>

\* s->mb = gsa_mbox_init(pdev): an ERR_PTR fails probe with -ENOMEM.
gsa_probe_mbox_init ==
    /\ pc = "mbox_init"
    /\ \/ /\ mb' = "mbox"
          /\ pc' = "populate"
          /\ UNCHANGED <<probeRet, sAlive, drvdata>>
       \/ ProbeFails(ENOMEM)
    /\ UNCHANGED <<bound, callVars>>

\* Mutant: a failed populate leaves some children created and bound.
gsa_probe_populate_no_rollback ==
    /\ pc = "populate"
    /\ \/ /\ pc' = "bound"
          /\ probeRet' = <<0>>
          /\ bound' = [c \in Children |-> TRUE]
          /\ UNCHANGED <<sAlive, drvdata, mb>>
       \/ /\ \E e \in ProbeErrs : ProbeFails(e)
          /\ \E left \in SUBSET Children :
                bound' = [c \in Children |-> c \in left]
    /\ UNCHANGED callVars

\* devm_of_platform_populate: the children are created (and may bind), and
\* probe returns 0; or it fails before creating any, and so does probe.
gsa_probe_populate ==
    /\ pc = "populate"
    /\ \/ /\ pc' = "bound"
          /\ probeRet' = <<0>>
          /\ bound' = [c \in Children |-> TRUE]
          /\ UNCHANGED <<sAlive, drvdata, mb>>
       \/ /\ \E e \in ProbeErrs : ProbeFails(e)
          /\ UNCHANGED bound
    /\ UNCHANGED callVars

\* Unbind: gsa_remove returns 0; then devres releases the children, then
\* s, and drvdata is cleared.
gsa_remove ==
    /\ pc = "bound"
    /\ pc' = "removed"
    /\ UNCHANGED <<probeRet, sAlive, drvdata, mb, bound, callVars>>

ReleaseChildren ==
    /\ pc = "removed"
    /\ pc' = "depopulated"
    /\ bound' = NoChildren
    /\ UNCHANGED <<probeRet, sAlive, drvdata, mb, callVars>>

ReleaseState ==
    /\ pc = "depopulated"
    /\ ReleaseDevres
    /\ UNCHANGED probeRet
    /\ UNCHANGED <<bound, callVars>>

\* A bound child sends a command that expects no answer: gsa_send_cmd and
\* the wrappers over it (gsa_send_simple_cmd, gsa_send_one_arg_cmd,
\* gsa_load_tpu_fw_image through gsa_send_load_img_cmd,
\* gsa_unload_tpu_fw_image).  Each reads s through drvdata and passes s->mb
\* to the mailbox; the result goes back to the caller unchanged.
gsa_send_cmd(c) ==
    /\ bound[c]
    /\ \E r \in MboxErrs \cup {0} : cmdRet' = [cmdRet EXCEPT ![c] = <<r>>]
    /\ UNCHANGED <<pc, probeRet, sAlive, drvdata, mb, bound, tpuRet>>

\* Mutant: the arg-count check is dropped, so a command the GSA answered
\* with no response word returns the uninitialised tpu_state (here, any
\* state the firmware could have sent).
TpuResult_nocount(r, st) ==
    IF r < 0 THEN r ELSE ToInt(st)

\* gsa_send_tpu_cmd: one request word, one response word.  A negative
\* mailbox result is returned; fewer than one response word is -EINVAL;
\* otherwise the u32 tpu_state is returned as an int.
TpuResult(r, st) ==
    IF r < 0 THEN r ELSE IF r < 1 THEN EINVAL ELSE ToInt(st)

gsa_send_tpu_cmd(c) ==
    /\ bound[c]
    /\ \E r \in MboxErrs \cup {0, 1}, st \in TpuStates :
          tpuRet' = [tpuRet EXCEPT ![c] = <<[ans |-> r, ret |-> TpuResult(r, st)]>>]
    /\ UNCHANGED <<pc, probeRet, sAlive, drvdata, mb, bound, cmdRet>>

Next ==
    \/ gsa_probe_alloc
    \/ gsa_probe_set_drvdata
    \/ gsa_probe_dma_mask
    \/ gsa_probe_mbox_init
    \/ gsa_probe_populate
    \/ gsa_remove
    \/ ReleaseChildren
    \/ ReleaseState
    \/ \E c \in Children : gsa_send_cmd(c) \/ gsa_send_tpu_cmd(c)

Spec == Init /\ [][Next]_vars

-----------------------------------------------------------------------------

\* Whenever a child is bound, and so may call gsa_send_cmd from its probe
\* or any later thread, the drvdata it reaches is a live s whose mailbox
\* gsa_mbox_init set up: probe initialises the mailbox before it populates
\* the children, a failed probe never leaves a child bound, and unbind
\* releases the children before s.
ChildrenSeeLiveMailbox ==
    \A c \in Children : bound[c] => sAlive /\ drvdata = "s" /\ mb = "mbox"

\* A caller of gsa_send_tpu_cmd (the TPU driver) can tell an answer from a
\* failure: the result is non-negative exactly when the GSA filled the
\* response word, and is then one of the firmware's states.  This rests on
\* the arg-count check and on every state fitting in an int.
TpuResultMeansAnswered ==
    \A c \in Children :
        \A t \in Range(tpuRet[c]) :
            /\ t.ret >= 0 <=> t.ans >= 1
            /\ t.ret >= 0 => t.ret \in TpuStates

=============================================================================
