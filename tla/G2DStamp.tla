------------------------------ MODULE G2DStamp ------------------------------
(***************************************************************************)
(* The G2D stamp ring (src/drivers/gpu/exynos/g2d/g2d_debug.c): a global  *)
(* array of G2D_MAX_STAMP_SIZE records indexed by a signed atomic_t       *)
(* counter p_stamp.  g2d_stamp_task claims a slot with atomic_inc_return  *)
(* masked to the ring size and then fills it; several CPUs stamp at once  *)
(* (ioctl, IRQ, timer and IOMMU fault contexts).  g2d_stamp_show, the     *)
(* debugfs reader, reads the counter once and prints every slot, oldest   *)
(* first, without any lock.                                                *)
(*                                                                         *)
(* The counter keeps its two's complement width: it is a W-bit signed    *)
(* integer (32 in the build, scaled down for TLC).  A stamp is identified *)
(* by its sequence number, the count of increments up to and including   *)
(* its own, which is what "chronological" orders.                         *)
(***************************************************************************)
EXTENDS Integers, Sequences

CONSTANTS
    W,           \* width of atomic_t in bits
    StampSize,   \* G2D_MAX_STAMP_SIZE, a power of two
    CPUs,        \* the contexts that stamp concurrently
    MaxStamps    \* bound on the number of stamps taken

ASSUME /\ W \in Nat \ {0}
       /\ StampSize \in {2^k : k \in 1 .. W - 1}
       /\ MaxStamps \in Nat

Slots == 0 .. StampSize - 1
IntW  == -(2^(W - 1)) .. 2^(W - 1) - 1

\* Two's complement wrap-around of a W-bit signed integer (the kernel is
\* built with -fno-strict-overflow, so atomic_t and int arithmetic wrap).
Wrap(x) == ((x + 2^(W - 1)) % 2^W) - 2^(W - 1)

\* x & (G2D_MAX_STAMP_SIZE - 1): on a two's complement value, masking with
\* 2^k - 1 is the mathematical residue modulo 2^k, negative x included.
Mask(x) == x % StampSize

VARIABLES
    p_stamp,    \* the atomic_t counter
    slot,       \* slot -> sequence number of the stamp it holds (0: none)
    pc,         \* per CPU: "idle" or "claimed" (slot claimed, not yet filled)
    mine,       \* per CPU: the slot it claimed
    seqOf,      \* per CPU: the sequence number of its stamp
    taken,      \* number of atomic_inc_return calls so far
    rd,         \* the reader: "idle", "reading" or "done"
    rptr,       \* the start index of the reader's loop
    ri,         \* the reader's next slot
    out,        \* the sequence numbers printed so far
    rTaken,     \* taken when the reader read the counter
    rBusy       \* a stamp was claimed or filled while the reader ran

vars == <<p_stamp, slot, pc, mine, seqOf, taken, rd, rptr, ri, out, rTaken, rBusy>>
writerVars == <<p_stamp, slot, pc, mine, seqOf, taken>>
readerVars == <<rd, rptr, ri, out, rTaken>>

TypeOK ==
    /\ p_stamp \in IntW
    /\ slot \in [Slots -> 0 .. MaxStamps]
    /\ pc \in [CPUs -> {"idle", "claimed"}]
    /\ mine \in [CPUs -> Slots]
    /\ seqOf \in [CPUs -> 0 .. MaxStamps]
    /\ taken \in 0 .. MaxStamps
    /\ rd \in {"idle", "reading", "done"}
    /\ rptr \in Slots
    /\ ri \in Slots
    /\ out \in Seq(0 .. MaxStamps)
    /\ rTaken \in 0 .. MaxStamps
    /\ rBusy \in BOOLEAN

\* g2d_init_debug: atomic_set(&p_stamp, -1); the array is zeroed BSS.
Init ==
    /\ p_stamp = -1
    /\ slot = [s \in Slots |-> 0]
    /\ pc = [c \in CPUs |-> "idle"]
    /\ mine = [c \in CPUs |-> 0]
    /\ seqOf = [c \in CPUs |-> 0]
    /\ taken = 0
    /\ rd = "idle"
    /\ rptr = 0
    /\ ri = 0
    /\ out = << >>
    /\ rTaken = 0
    /\ rBusy = FALSE

\* g2d_stamp_task, first line: ptr = atomic_inc_return(&p_stamp) & mask.
g2d_stamp_claim(c) ==
    /\ pc[c] = "idle"
    /\ taken < MaxStamps
    /\ LET v == Wrap(p_stamp + 1) IN
       /\ p_stamp' = v
       /\ mine' = [mine EXCEPT ![c] = Mask(v)]
    /\ taken' = taken + 1
    /\ seqOf' = [seqOf EXCEPT ![c] = taken + 1]
    /\ pc' = [pc EXCEPT ![c] = "claimed"]
    /\ rBusy' = (rBusy \/ rd = "reading")
    /\ UNCHANGED <<slot, readerVars>>

\* The rest of g2d_stamp_task: the record's task, state, job id, time,
\* value and cpu are written into the claimed slot.
g2d_stamp_fill(c) ==
    /\ pc[c] = "claimed"
    /\ slot' = [slot EXCEPT ![mine[c]] = seqOf[c]]
    /\ pc' = [pc EXCEPT ![c] = "idle"]
    /\ rBusy' = (rBusy \/ rd = "reading")
    /\ UNCHANGED <<p_stamp, mine, seqOf, taken, readerVars>>

\* g2d_stamp_show reads the counter once; a negative value prints nothing,
\* otherwise the loop starts after the newest slot.
g2d_stamp_show_begin ==
    /\ rd = "idle"
    /\ rTaken' = taken
    /\ out' = << >>
    /\ rBusy' = (\E c \in CPUs : pc[c] = "claimed")
    /\ IF p_stamp < 0
         THEN /\ rd' = "done"
              /\ UNCHANGED <<rptr, ri>>
         ELSE /\ rd' = "reading"
              /\ rptr' = Mask(Wrap(p_stamp + 1))
              /\ ri' = Mask(Wrap(p_stamp + 1))
    /\ UNCHANGED writerVars

\* One iteration of the loop: print slot i, advance modulo the ring, stop
\* when back at the start.
g2d_stamp_show_step ==
    /\ rd = "reading"
    /\ out' = Append(out, slot[ri])
    /\ ri' = Mask(ri + 1)
    /\ rd' = IF Mask(ri + 1) = rptr THEN "done" ELSE "reading"
    /\ UNCHANGED <<writerVars, rptr, rTaken, rBusy>>

\* The debugfs file is read again.
g2d_stamp_show_reopen ==
    /\ rd = "done"
    /\ rd' = "idle"
    /\ UNCHANGED <<writerVars, rptr, ri, out, rTaken, rBusy>>

Next ==
    \/ \E c \in CPUs : g2d_stamp_claim(c) \/ g2d_stamp_fill(c)
    \/ g2d_stamp_show_begin
    \/ g2d_stamp_show_step
    \/ g2d_stamp_show_reopen

Spec == Init /\ [][Next]_vars

(***************************************************************************)
(* Properties                                                              *)
(***************************************************************************)

\* The printed stamps (slots never written print as 0 and are skipped).
Printed == SelectSeq(out, LAMBDA n : n # 0)

\* A read of the log that no stamp overlapped prints the stamps oldest
\* first ("in chronological order", g2d_debug.c:49), also after p_stamp
\* has wrapped through negative values: the mask must still pick the slot
\* after the newest one as the start.
LogChronological ==
    rd = "done" /\ ~rBusy =>
        \A i \in 1 .. Len(Printed) - 1 : Printed[i] < Printed[i + 1]

=============================================================================
