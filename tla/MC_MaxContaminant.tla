------------------------- MODULE MC_MaxContaminant -------------------------
(* Model-checking instances of MaxContaminant, and of Gsa beside it.       *)
(* The two drivers share no state.  ContamGsaSpec checks both in one run  *)
(* as two separate sets of behaviours: the initial state picks which      *)
(* component moves, and the other keeps its initial state.  Every         *)
(* reachable state of each component's own Spec is reached, so every     *)
(* invariant over one component's variables is checked on all of them.   *)
EXTENDS MaxContaminant

\* Register accesses may fail (I2C errors).
MC_IOFail == TRUE
\* Every register access succeeds.
MC_NoIOFail == FALSE

\* Codes 6 and 7: 900 and 1000 kOhm, either side of the 1000 kOhm
\* thresholds, the second exactly at them.
MC_FladcCodes == {6, 7}

\* Two children, so one may call while the other is being released.
MC_Children == {"tpu", "aoc"}
\* The states the firmware answers with; all fit in an int.
MC_TpuStates == {0, 1, 2}

VARIABLES checked, pc, probeRet, sAlive, drvdata, mb, bound, cmdRet, tpuRet

G == INSTANCE Gsa WITH Children <- MC_Children, TpuStates <- MC_TpuStates

gsaVars == <<pc, probeRet, sAlive, drvdata, mb, bound, cmdRet, tpuRet>>

ContamGsaInit ==
    /\ Init
    /\ G!Init
    /\ checked \in {"contaminant", "gsa"}
ContamGsaNext ==
    /\ \/ checked = "contaminant" /\ Next /\ UNCHANGED gsaVars
       \/ checked = "gsa" /\ G!Next /\ UNCHANGED vars
    /\ UNCHANGED checked
ContamGsaSpec == ContamGsaInit /\ [][ContamGsaNext]_<<checked, vars, gsaVars>>

\* The contaminant driver alone, Gsa held in its initial state.
ContamOnlySpec ==
    /\ Init /\ G!Init /\ checked = "contaminant"
    /\ [][Next /\ UNCHANGED <<checked, gsaVars>>]_<<checked, vars, gsaVars>>

\* Gsa's type invariant.
GsaTypeOK == G!TypeOK
\* Gsa: every bound child reaches a live s with an initialised mailbox.
ChildrenSeeLiveMailbox == G!ChildrenSeeLiveMailbox
\* Gsa: a non-negative TPU command result means the GSA answered.
TpuResultMeansAnswered == G!TpuResultMeansAnswered

=============================================================================
