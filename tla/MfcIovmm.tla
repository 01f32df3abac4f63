------------------------------ MODULE MfcIovmm ------------------------------
(***************************************************************************)
(* IOVMM mappings of MFC decoder buffers                                   *)
(* (src/drivers/media/platform/exynos/mfc/mfc_mem.c).                      *)
(*                                                                         *)
(* The decoder keeps a DPB table, one entry per decoded-picture buffer,    *)
(* holding for each memory plane the dma-buf reference, the attachment,   *)
(* the sg table of the mapping and its device address.  mfc_get_iovmm     *)
(* fills an entry plane by plane (dma_buf_get, dma_buf_attach,            *)
(* dma_buf_map_attachment, sg_dma_address), any of which may fail, and    *)
(* undoes the planes it reached with mfc_put_iovmm on failure.            *)
(* mfc_put_iovmm, mfc_clear_iovmm and the two cleanup loops empty         *)
(* entries.  The callers (the decoder's vb2 ops, not in this tree) run    *)
(* these under dec->dpb_mutex, so each is one step; they call get on an   *)
(* entry whose mapcnt is 0 and put/clear on one whose mapcnt is 1, the    *)
(* protocol the functions' own "invalid mapcnt" checks state.             *)
(*                                                                         *)
(* A plane is abstracted to which of its four handles are non-NULL; the   *)
(* ghost variable held counts the kernel objects (dma-buf references,     *)
(* attachments, mappings) the driver holds for it.  fd values, the        *)
(* physical address and the queued flag only feed logging or callers      *)
(* outside this file and are left out.                                     *)
(***************************************************************************)
EXTENDS Integers, FiniteSets

CONSTANTS
    Dpbs,        \* DPB table indices, 0 .. MFC_MAX_DPBS - 1
    NumPlanes,   \* ctx->dst_fmt->mem_planes
    Batch        \* mfc_buf->num_bufs_in_batch

Planes == 0 .. NumPlanes - 1

B(b) == IF b THEN 1 ELSE 0

\* The handles of one plane of a dpb_table entry (non-NULL or not).
PlaneRec == [dmabuf : BOOLEAN, attach : BOOLEAN, sgt : BOOLEAN, addr : BOOLEAN]
NullPlane == [dmabuf |-> FALSE, attach |-> FALSE, sgt |-> FALSE, addr |-> FALSE]

\* Kernel objects held for one plane: references, attachments, mappings.
Objs == [ref : 0 .. 1, att : 0 .. 1, map : 0 .. 1]
NoObjs == [ref |-> 0, att |-> 0, map |-> 0]

\* One plane after mfc_get_iovmm has done its first k steps on it; k = 4
\* is full success.  A failed dma_buf_get or dma_buf_attach NULLs that
\* handle only, so sgt and addr keep what they held before; a failed map
\* NULLs sgt; a failed iova zeroes addr.
GetPlane(e, k) ==
    [dmabuf |-> k >= 1,
     attach |-> k >= 2,
     sgt    |-> IF k >= 3 THEN TRUE ELSE IF k = 2 THEN FALSE ELSE e.sgt,
     addr   |-> k = 4 \/ (k < 3 /\ e.addr)]

GetObjs(h, k) ==
    [ref |-> h.ref + B(k >= 1), att |-> h.att + B(k >= 2),
     map |-> h.map + B(k >= 3)]

\* One plane of mfc_put_iovmm: unmap if sgt, detach if attach, put if
\* dmabuf; then fd, addr, attach and dmabufs are reset, sgt is not.
\* dma_buf_unmap_attachment with a NULL attachment only warns.
PutPlane(e) == [e EXCEPT !.dmabuf = FALSE, !.attach = FALSE, !.addr = FALSE]
PutObjs(e, h) ==
    [ref |-> h.ref - B(e.dmabuf), att |-> h.att - B(e.attach),
     map |-> h.map - B(e.sgt /\ e.attach)]
UnmapWarns(e) == e.sgt /\ ~e.attach

VARIABLES
    dpb,              \* index -> [mapcnt, pl : plane -> PlaneRec]
    held,             \* index -> plane -> Objs (ghost)
    warned,           \* dma_buf_unmap_attachment has warned (ghost)
    dynamic_used,     \* dec->dynamic_used, as a set of indices
    dpb_table_used    \* dec->dpb_table_used, as a set of indices

dpbVars == <<dpb, held, warned, dynamic_used, dpb_table_used>>

\* mfc_put_iovmm of the first n planes of entry x: the new entry, the
\* objects still held, and whether an unmap warned.
PutEntry(x, n) ==
    [mapcnt |-> x.mapcnt - 1,
     pl |-> [p \in Planes |-> IF p < n THEN PutPlane(x.pl[p]) ELSE x.pl[p]]]
PutHeld(x, hs, n) ==
    [p \in Planes |-> IF p < n THEN PutObjs(x.pl[p], hs[p]) ELSE hs[p]]
PutWarns(x, n) == \E p \in Planes : p < n /\ UnmapWarns(x.pl[p])

\* mfc_put_iovmm on an entry the caller has mapped.
mfc_put_iovmm(d) ==
    /\ dpb[d].mapcnt = 1
    /\ dpb' = [dpb EXCEPT ![d] = PutEntry(@, NumPlanes)]
    /\ held' = [held EXCEPT ![d] = PutHeld(dpb[d], @, NumPlanes)]
    /\ warned' = (warned \/ PutWarns(dpb[d], NumPlanes))
    /\ UNCHANGED <<dynamic_used, dpb_table_used>>

\* Entry d and its objects after mfc_get_iovmm's loop has mapped planes
\* 0 .. n-1 fully and plane n (if any) has failed after k steps.
GotEntry(d, n, k) ==
    [dpb[d] EXCEPT !.pl = [p \in Planes |->
        IF p < n THEN GetPlane(@[p], 4)
        ELSE IF p = n THEN GetPlane(@[p], k) ELSE @[p]]]
GotHeld(d, n, k) ==
    [p \in Planes |->
        IF p < n THEN GetObjs(held[d][p], 4)
        ELSE IF p = n THEN GetObjs(held[d][p], k) ELSE held[d][p]]

\* The loop finished: mapcnt++.
GetMapped(d, n, k) ==
    /\ dpb' = [dpb EXCEPT ![d] = [GotEntry(d, n, k) EXCEPT !.mapcnt = @ + 1]]
    /\ held' = [held EXCEPT ![d] = GotHeld(d, n, k)]
    /\ UNCHANGED warned

\* err_iovmm: mfc_put_iovmm(ctx, dpb, cnt, index) on the entry x.
GetUndo(d, x, hs, cnt) ==
    /\ dpb' = [dpb EXCEPT ![d] = PutEntry(x, cnt)]
    /\ held' = [held EXCEPT ![d] = PutHeld(x, hs, cnt)]
    /\ warned' = (warned \/ PutWarns(x, cnt))

\* Mutant: the error path calls mfc_put_iovmm without first raising mapcnt.
mfc_get_iovmm_no_inc(d) ==
    /\ dpb[d].mapcnt = 0
    /\ \E n \in 0 .. NumPlanes, k \in 0 .. 3 :
       IF n = NumPlanes THEN GetMapped(d, n, k)
       ELSE GetUndo(d, GotEntry(d, n, k), GotHeld(d, n, k), n + 1)
    /\ UNCHANGED <<dynamic_used, dpb_table_used>>

\* Mutant: mem_get_count counts only the planes that were fully mapped,
\* so the error path does not undo the plane that failed.
mfc_get_iovmm_count_after(d) ==
    /\ dpb[d].mapcnt = 0
    /\ \E n \in 0 .. NumPlanes, k \in 0 .. 3 :
       IF n = NumPlanes THEN GetMapped(d, n, k)
       ELSE GetUndo(d, [GotEntry(d, n, k) EXCEPT !.mapcnt = @ + 1],
                    GotHeld(d, n, k), n)
    /\ UNCHANGED <<dynamic_used, dpb_table_used>>

\* mfc_get_iovmm, called on an entry with mapcnt 0: the planes are mapped
\* in order; if plane n fails after k steps, mapcnt is raised and
\* mfc_put_iovmm undoes mem_get_count = n + 1 planes.
mfc_get_iovmm(d) ==
    /\ dpb[d].mapcnt = 0
    /\ \E n \in 0 .. NumPlanes, k \in 0 .. 3 :
       IF n = NumPlanes THEN GetMapped(d, n, k)
       ELSE GetUndo(d, [GotEntry(d, n, k) EXCEPT !.mapcnt = @ + 1],
                    GotHeld(d, n, k), n + 1)
    /\ UNCHANGED <<dynamic_used, dpb_table_used>>

\* mfc_clear_iovmm: forgets the handles without releasing them (sgt is
\* again left) and drops mapcnt; whoever calls it has taken the objects
\* over, so they are no longer the table's.
mfc_clear_iovmm(d) ==
    /\ dpb[d].mapcnt = 1
    /\ dpb' = [dpb EXCEPT ![d] =
                 [mapcnt |-> 0,
                  pl |-> [p \in Planes |-> [NullPlane EXCEPT !.sgt = dpb[d].pl[p].sgt]]]]
    /\ held' = [held EXCEPT ![d] = [p \in Planes |-> NoObjs]]
    /\ UNCHANGED <<warned, dynamic_used, dpb_table_used>>

\* mfc_cleanup_iovmm: every entry with mapcnt 1 is put; others are
\* skipped (0) or reported (more than 1).
mfc_cleanup_iovmm ==
    LET put(d) == dpb[d].mapcnt = 1 IN
    /\ dpb' = [d \in Dpbs |-> IF put(d) THEN PutEntry(dpb[d], NumPlanes) ELSE dpb[d]]
    /\ held' = [d \in Dpbs |->
                  IF put(d) THEN PutHeld(dpb[d], held[d], NumPlanes) ELSE held[d]]
    /\ warned' = (warned \/ \E d \in Dpbs : put(d) /\ PutWarns(dpb[d], NumPlanes))
    /\ UNCHANGED <<dynamic_used, dpb_table_used>>

\* mfc_cleanup_iovmm_except_used: the same, skipping the entries the
\* decoder still uses and clearing the table bit of each entry put.
mfc_cleanup_iovmm_except_used ==
    LET put(d) == dpb[d].mapcnt = 1 /\ d \notin dynamic_used IN
    /\ dpb' = [d \in Dpbs |-> IF put(d) THEN PutEntry(dpb[d], NumPlanes) ELSE dpb[d]]
    /\ held' = [d \in Dpbs |->
                  IF put(d) THEN PutHeld(dpb[d], held[d], NumPlanes) ELSE held[d]]
    /\ warned' = (warned \/ \E d \in Dpbs : put(d) /\ PutWarns(dpb[d], NumPlanes))
    /\ dpb_table_used' = dpb_table_used \ {d \in Dpbs : put(d)}
    /\ UNCHANGED dynamic_used

\* The decoder (not in this tree) marks which mapped entries it and the
\* firmware still use.
DecoderMarks ==
    \E du \in SUBSET {d \in Dpbs : dpb[d].mapcnt = 1}, tu \in SUBSET Dpbs :
       /\ dynamic_used' = du
       /\ dpb_table_used' = tu
       /\ UNCHANGED <<dpb, held, warned>>

(***************************************************************************)
(* Buffer containers (CONFIG_MFC_USE_DMABUF_CONTAINER): one plane of a    *)
(* batch buffer.  Slot k of the mfc_buf arrays holds the k-th valid       *)
(* buffer of the container.  A handle is Null, an error pointer Err, or   *)
(* the container's buffer b (for an attachment or an address: the one     *)
(* made from buffer b).                                                   *)
(***************************************************************************)
Slots == 0 .. Batch - 1
Null == -1
Err == -2
Handles == {Null, Err} \cup Slots

\* Bit i of the container's mask.
Bit(m, i) == (m \div 2^i) % 2 = 1
SetBits(m) == {i \in Slots : Bit(m, i)}
\* The k-th smallest member of a finite set of integers.
KthOf(S, k) == CHOOSE x \in S : Cardinality({y \in S : y < x}) = k

VARIABLES
    dmabufs,         \* mfc_buf->dmabufs[.][plane]
    attachments,     \* mfc_buf->attachments[.][plane]
    addr,            \* mfc_buf->addr[.][plane]
    num_valid_bufs,  \* mfc_buf->num_valid_bufs
    bc,              \* mfc_bufcon_get_daddr: [pc, i, j, mask]
    bret,            \* what it last returned: "none", "ok" or "fail"
    oops             \* an error or NULL pointer was dereferenced (ghost)

bcVars == <<dmabufs, attachments, addr, num_valid_bufs, bc, bret, oops>>

\* mfc_bufcon_put_daddr over the arrays d, a, ad: slots below
\* num_valid_bufs are detached and put, then reset.  Detaching or
\* putting an error pointer dereferences it.
PutDaddrOops(d, a) ==
    \E k \in 0 .. num_valid_bufs - 1 : d[k] = Err \/ a[k] = Err
PutDaddr(d, a, ad) ==
    /\ dmabufs' = [k \in Slots |-> IF k < num_valid_bufs THEN Null ELSE d[k]]
    /\ attachments' = [k \in Slots |-> IF k < num_valid_bufs THEN Null ELSE a[k]]
    /\ addr' = [k \in Slots |-> IF k < num_valid_bufs THEN Null ELSE ad[k]]
    /\ oops' = (oops \/ PutDaddrOops(d, a))

\* The buffer's release path calls mfc_bufcon_put_daddr.
mfc_bufcon_put_daddr ==
    /\ bc.pc = "idle" /\ ~oops
    /\ PutDaddr(dmabufs, attachments, addr)
    /\ bret' = "none"
    /\ UNCHANGED <<num_valid_bufs, bc>>

\* mfc_bufcon_get_daddr: a buffer that is not a container, or a mask of
\* zero, returns -1; otherwise the loop starts.
mfc_bufcon_get_daddr_begin ==
    /\ bc.pc = "idle" /\ ~oops
    /\ \/ /\ bret' = "fail"
          /\ UNCHANGED <<bc, dmabufs, attachments, addr, num_valid_bufs, oops>>
       \/ \E m \in 1 .. 2^Batch - 1 :
             /\ bc' = [pc |-> "loop", i |-> 0, j |-> 0, mask |-> m]
             /\ bret' = "none"
             /\ UNCHANGED <<dmabufs, attachments, addr, num_valid_bufs, oops>>

\* err_get_daddr: put the slots below the old num_valid_bufs, return -1.
GetDaddrErr(d, a, ad) ==
    /\ PutDaddr(d, a, ad)
    /\ bc' = [bc EXCEPT !.pc = "idle"]
    /\ bret' = "fail"
    /\ UNCHANGED num_valid_bufs

\* A dereference of an error or NULL pointer stops the machine.
Oops(d, a) ==
    /\ oops' = TRUE
    /\ bc' = [bc EXCEPT !.pc = "oops"]
    /\ dmabufs' = d /\ attachments' = a
    /\ UNCHANGED <<addr, num_valid_bufs, bret>>

\* One iteration for bit i.  The get, attach and map results are stored at
\* slot j but checked, and used, at slot i.  dma_buf_attach of NULL
\* returns an error; of an error pointer, and ion_iovmm_map of a NULL or
\* error attachment, dereference it.
mfc_bufcon_get_daddr_step ==
    LET i == bc.i
        j == bc.j
    IN
    /\ bc.pc = "loop" /\ i < Batch
    /\ IF ~Bit(bc.mask, i)
         THEN /\ bc' = [bc EXCEPT !.i = i + 1]
              /\ UNCHANGED <<dmabufs, attachments, addr, num_valid_bufs, bret, oops>>
         ELSE \E g \in {i, Err} :
              LET d1 == [dmabufs EXCEPT ![j] = g] IN
              IF d1[i] = Err THEN GetDaddrErr(d1, attachments, addr)
              ELSE \E at \in (IF d1[i] = Null THEN {Err} ELSE {d1[i], Err}) :
                LET a1 == [attachments EXCEPT ![j] = at] IN
                IF a1[i] = Err THEN GetDaddrErr(d1, a1, addr)
                ELSE IF a1[i] = Null THEN Oops(d1, a1)
                ELSE \E v \in {a1[i], Err} :
                  LET ad1 == [addr EXCEPT ![j] = v] IN
                  IF ad1[i] = Err THEN GetDaddrErr(d1, a1, ad1)
                  ELSE /\ dmabufs' = d1 /\ attachments' = a1 /\ addr' = ad1
                       /\ bc' = [bc EXCEPT !.i = i + 1, !.j = j + 1]
                       /\ UNCHANGED <<num_valid_bufs, bret, oops>>

\* After the loop: num_valid_bufs = j, return 0.
mfc_bufcon_get_daddr_end ==
    /\ bc.pc = "loop" /\ bc.i = Batch
    /\ num_valid_bufs' = bc.j
    /\ bc' = [bc EXCEPT !.pc = "idle"]
    /\ bret' = "ok"
    /\ UNCHANGED <<dmabufs, attachments, addr, oops>>

(***************************************************************************)
(* Specification                                                           *)
(***************************************************************************)
vars == <<dpbVars, bcVars>>

\* A zeroed decoder context and mfc_buf.
Init ==
    /\ dpb = [d \in Dpbs |-> [mapcnt |-> 0, pl |-> [p \in Planes |-> NullPlane]]]
    /\ held = [d \in Dpbs |-> [p \in Planes |-> NoObjs]]
    /\ warned = FALSE
    /\ dynamic_used = {}
    /\ dpb_table_used = {}
    /\ dmabufs = [k \in Slots |-> Null]
    /\ attachments = [k \in Slots |-> Null]
    /\ addr = [k \in Slots |-> Null]
    /\ num_valid_bufs = 0
    /\ bc = [pc |-> "idle", i |-> 0, j |-> 0, mask |-> 0]
    /\ bret = "none"
    /\ oops = FALSE

DpbNext ==
    \/ \E d \in Dpbs : mfc_get_iovmm(d) \/ mfc_put_iovmm(d) \/ mfc_clear_iovmm(d)
    \/ mfc_cleanup_iovmm
    \/ mfc_cleanup_iovmm_except_used
    \/ DecoderMarks

BufconNext ==
    \/ mfc_bufcon_get_daddr_begin
    \/ mfc_bufcon_get_daddr_step
    \/ mfc_bufcon_get_daddr_end
    \/ mfc_bufcon_put_daddr

Next ==
    \/ DpbNext /\ UNCHANGED bcVars
    \/ BufconNext /\ UNCHANGED dpbVars

Spec == Init /\ [][Next]_vars

(***************************************************************************)
(* Properties                                                              *)
(***************************************************************************)
TypeOK ==
    /\ dpb \in [Dpbs -> [mapcnt : 0 .. 1, pl : [Planes -> PlaneRec]]]
    /\ held \in [Dpbs -> [Planes -> Objs]]
    /\ warned \in BOOLEAN
    /\ dynamic_used \subseteq Dpbs
    /\ dpb_table_used \subseteq Dpbs
    /\ dmabufs \in [Slots -> Handles]
    /\ attachments \in [Slots -> Handles]
    /\ addr \in [Slots -> Handles]
    /\ num_valid_bufs \in 0 .. Batch
    /\ bc \in [pc : {"idle", "loop", "oops"}, i : 0 .. Batch, j : 0 .. Batch,
               mask : 0 .. 2^Batch - 1]
    /\ bret \in {"none", "ok", "fail"}
    /\ oops \in BOOLEAN

\* Across every sequence of maps that fail at any plane and step, puts,
\* clears and cleanups, the DPB table's non-NULL handles are exactly the
\* references and attachments the driver holds, every live mapping is
\* reachable through an attached sg table, and an entry with mapcnt 0
\* holds nothing: mfc_get_iovmm's error path undoes what it did.
TableMatchesObjects ==
    \A d \in Dpbs, p \in Planes :
       LET e == dpb[d].pl[p]
           h == held[d][p]
       IN /\ h = [ref |-> B(e.dmabuf), att |-> B(e.attach),
                  map |-> B(e.sgt /\ e.attach)]
          /\ dpb[d].mapcnt = 0 => h = NoObjs

\* A buffer container's get returns 0 only with slot k holding the k-th
\* buffer of the mask, attached and mapped, and no pointer it used on the
\* way was an error or NULL pointer.
BufconMapsMaskedBuffers ==
    /\ ~oops
    /\ bret = "ok" =>
          /\ num_valid_bufs = Cardinality(SetBits(bc.mask))
          /\ \A k \in 0 .. num_valid_bufs - 1 :
                LET b == KthOf(SetBits(bc.mask), k) IN
                dmabufs[k] = b /\ attachments[k] = b /\ addr[k] = b

====
