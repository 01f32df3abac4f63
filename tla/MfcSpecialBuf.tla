---------------------------- MODULE MfcSpecialBuf ----------------------------
(***************************************************************************)
(* The MFC's driver-owned buffers (src/drivers/media/platform/exynos/mfc/ *)
(* mfc_mem.c): a special buffer that mfc_mem_ion_alloc fills with an ION  *)
(* allocation, its attachment, its mapping, its device address and a      *)
(* kernel mapping, and that mfc_mem_ion_free empties; and a shared handle *)
(* that mfc_mem_get_user_shared_handle fills with a user dma-buf and its   *)
(* kernel mapping, and mfc_mem_cleanup_user_shared_handle empties.        *)
(*                                                                         *)
(* A handle field is NULL, a valid pointer, or an error pointer (the value *)
(* a failed call stored before its error path ran).  The ghost variables  *)
(* sheld and hheld count the kernel objects the driver holds for each     *)
(* field.  Every call is synchronous and runs for one buffer at a time    *)
(* (the callers, not in this tree, hold the device or context), so each   *)
(* is one step; any of the kernel calls it makes may fail.                *)
(***************************************************************************)
EXTENDS Naturals

CONSTANT
    ContentProtection  \* CONFIG_EXYNOS_CONTENT_PATH_PROTECTION

ASSUME ContentProtection \in BOOLEAN

Ptr == {"null", "ptr", "err"}

\* The fields of struct mfc_special_buf in the order mfc_mem_ion_alloc sets
\* them: 1 dma_buf, 2 attachment, 3 sgt, 4 daddr, 5 vaddr.  Field 4 holds
\* no kernel object of its own.
Steps == 1 .. 5
Holding == {1, 2, 3, 5}

BufTypes == {"NORMAL", "NORMAL_FW", "DRM", "DRM_FW", "OTHER"}

VARIABLES
    sbuf,    \* the special buffer's fields, Steps -> Ptr
    sheld,   \* objects held for them, Steps -> Nat (ghost)
    sret,    \* what the last mfc_mem_ion_alloc returned
    shandle, \* the shared handle: [dma_buf, vaddr]
    hheld    \* objects held for it: [ref, vmap] (ghost)

vars == <<sbuf, sheld, sret, shandle, hheld>>

Empty == [i \in Steps |-> "null"]
NoHandle == [dma_buf |-> "null", vaddr |-> "null"]

B(b) == IF b THEN 1 ELSE 0

\* The heap switch of mfc_mem_ion_alloc: the system heap for normal
\* buffers; with content protection, the secure heaps, which
\* __mfc_mem_ion_get_heapmask_by_name may not find (heapmask 0, -EINVAL).
HeapOk(t, found) ==
    \/ t \in {"NORMAL", "NORMAL_FW"}
    \/ ContentProtection /\ t \in {"DRM", "DRM_FW"} /\ found

\* Mutant: err_map does not NULL the sgt that dma_buf_map_attachment
\* returned as an error pointer.
ErrPath_keep_sgt(f, s) ==
    [i \in Steps |-> IF i <= s /\ ~(i = 3 /\ s = 3) THEN "null" ELSE f[i]]

\* The error labels of mfc_mem_ion_alloc fall through from the one of the
\* failed step s down to err_ion_alloc, each NULLing (or zeroing) its
\* field, so fields 1 .. s end NULL.
ErrPath(f, s) == [i \in Steps |-> IF i <= s THEN "null" ELSE f[i]]

\* Step s of mfc_mem_ion_alloc failed: the steps before it stored valid
\* pointers, s stored an error, and the labels release the objects of the
\* steps before s (unmap, detach, put), none of s's own.
AllocFail(s) ==
    LET f == [i \in Steps |-> IF i < s THEN "ptr" ELSE IF i = s THEN "err" ELSE sbuf[i]]
    IN  /\ sbuf' = ErrPath(f, s)
        /\ sret' = "ENOMEM"
        /\ UNCHANGED sheld

\* All five steps passed.  dma_buf_vmap reports failure with NULL, which
\* IS_ERR does not catch, so the buffer may be returned without vaddr.
AllocOk ==
    \E v \in {"ptr", "null"} :
       /\ sbuf' = [i \in Steps |-> IF i = 5 THEN v ELSE "ptr"]
       /\ sheld' = [i \in Steps |-> sheld[i] + B(i \in {1, 2, 3} \/ (i = 5 /\ v = "ptr"))]
       /\ sret' = "0"

\* mfc_mem_ion_alloc on an empty special buffer.
mfc_mem_ion_alloc ==
    /\ sbuf = Empty
    /\ \E t \in BufTypes, found \in BOOLEAN :
          IF HeapOk(t, found)
          THEN AllocOk \/ \E s \in Steps : AllocFail(s)
          ELSE /\ sret' = "EINVAL"
               /\ UNCHANGED <<sbuf, sheld>>
    /\ UNCHANGED <<shandle, hheld>>

\* Mutant: every field is released without its NULL test.
mfc_mem_ion_free_untested ==
    /\ sheld' = [i \in Steps |-> sheld[i] - B(i \in Holding)]
    /\ sbuf' = Empty
    /\ UNCHANGED <<sret, shandle, hheld>>

\* mfc_mem_ion_free: vunmap, unmap, detach and put what is non-NULL, then
\* NULL every field.
mfc_mem_ion_free ==
    /\ sheld' = [i \in Steps |-> sheld[i] - B(i \in Holding /\ sbuf[i] # "null")]
    /\ sbuf' = Empty
    /\ UNCHANGED <<sret, shandle, hheld>>

\* mfc_mem_get_user_shared_handle on an empty handle whose fd the caller
\* has set (the fd only feeds dma_buf_get and is left out).  A failed
\* dma_buf_get goes to import_dma_fail; a NULL from dma_buf_vmap goes to
\* map_kernel_fail, which puts the reference first.  Both NULL the handle.
mfc_mem_get_user_shared_handle ==
    /\ shandle = NoHandle
    /\ \/ /\ shandle' = NoHandle
          /\ UNCHANGED hheld
       \/ /\ shandle' = [dma_buf |-> "ptr", vaddr |-> "ptr"]
          /\ hheld' = [ref |-> hheld.ref + 1, vmap |-> hheld.vmap + 1]
    /\ UNCHANGED <<sbuf, sheld, sret>>

\* mfc_mem_cleanup_user_shared_handle: vunmap if vaddr, put if dma_buf.
mfc_mem_cleanup_user_shared_handle ==
    /\ hheld' = [ref |-> hheld.ref - B(shandle.dma_buf # "null"),
                 vmap |-> hheld.vmap - B(shandle.vaddr # "null")]
    /\ shandle' = NoHandle
    /\ UNCHANGED <<sbuf, sheld, sret>>

Init ==
    /\ sbuf = Empty
    /\ sheld = [i \in Steps |-> 0]
    /\ sret = "none"
    /\ shandle = NoHandle
    /\ hheld = [ref |-> 0, vmap |-> 0]

Next ==
    \/ mfc_mem_ion_alloc
    \/ mfc_mem_ion_free
    \/ mfc_mem_get_user_shared_handle
    \/ mfc_mem_cleanup_user_shared_handle

Spec == Init /\ [][Next]_vars

-----------------------------------------------------------------------------

TypeOK ==
    /\ sbuf \in [Steps -> Ptr]
    /\ sheld \in [Steps -> Nat]
    /\ sret \in {"none", "0", "EINVAL", "ENOMEM"}
    /\ shandle \in [dma_buf : Ptr, vaddr : Ptr]
    /\ hheld \in [ref : Nat, vmap : Nat]

\* Whatever sequence of allocations (failing at any step), frees and
\* shared-handle calls has run, every field of the special buffer and of
\* the shared handle is NULL or a valid pointer, and the driver holds
\* exactly one object for each valid one and none otherwise: the error
\* labels of mfc_mem_ion_alloc release what the steps before the failure
\* took and NULL what the failed step stored, so a later free neither
\* leaks nor releases twice nor passes an error pointer to the dma-buf
\* calls.
SpecialBufMatchesObjects ==
    /\ \A i \in Steps : sbuf[i] # "err"
    /\ \A i \in Holding : sheld[i] = B(sbuf[i] = "ptr")
    /\ sbuf[4] = "ptr" => sbuf[3] = "ptr"
    /\ hheld.ref = B(shandle.dma_buf = "ptr")
    /\ hheld.vmap = B(shandle.vaddr = "ptr")

=============================================================================
