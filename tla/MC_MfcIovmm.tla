---------------------------- MODULE MC_MfcIovmm ----------------------------
(* mfc_mem.c as a whole: the DPB table and buffer-container mappings of    *)
(* MfcIovmm beside the special buffer and shared handle of MfcSpecialBuf.  *)
(* The two share no state; their calls interleave.                         *)
EXTENDS MfcIovmm

VARIABLES sbuf, sheld, sret, shandle, hheld

\* One DPB entry: every function either touches one index or applies the
\* same per-entry rule to each index in turn, so entries never interact.
MC_Dpbs == 0 .. 0
\* Two memory planes (e.g. NV12M), so a map can fail after a full plane.
MC_NumPlanes == 2
\* Two buffers per batch: mask 0b10 has an unset bit below a set one.
MC_Batch == 2
\* Content-path protection built in, so the secure heaps are selectable.
MC_ContentProtection == TRUE

SB == INSTANCE MfcSpecialBuf WITH ContentProtection <- MC_ContentProtection

sbVars == <<sbuf, sheld, sret, shandle, hheld>>

MemInit == Init /\ SB!Init

MemNext ==
    \/ Next /\ UNCHANGED sbVars
    \/ SB!Next /\ UNCHANGED vars

MemSpec == MemInit /\ [][MemNext]_<<vars, sbVars>>

\* See MfcSpecialBuf.
SpecialBufMatchesObjects == SB!SpecialBufMatchesObjects
SpecialBufTypeOK == SB!TypeOK

====
