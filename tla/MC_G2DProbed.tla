--------------------------- MODULE MC_G2DProbed ---------------------------
(* g2d_probe followed by the driver it sets up: G2DProbe runs until probe *)
(* returns 0, and then G2DScheduler runs from its initial state, which is *)
(* the state a successful probe leaves (the IOVMM active, every task on   *)
(* the free list, no suspend in progress).  Before that the scheduler's   *)
(* variables keep their initial values.                                    *)
EXTENDS MC_G2DScheduler

\* Two probes: one may fail at any step and the next then succeed.
MC_MaxProbes == 2

VARIABLES ppc, held, probeRet, attempts, pmUsage, listsInit, earlyIoctl

P == INSTANCE G2DProbe WITH MaxProbes <- MC_MaxProbes

probeVars == <<ppc, held, probeRet, attempts, pmUsage, listsInit, earlyIoctl>>

ProbedInit == P!Init /\ Init

ProbedNext ==
    \/ P!Next /\ UNCHANGED vars
    \/ probeRet = "ok" /\ Next /\ UNCHANGED probeVars

ProbedSpec == ProbedInit /\ [][ProbedNext]_<<vars, probeVars>>

\* The liveness form: no System MMU fault (see NoFaultNext) and the
\* scheduler's fairness.  Every action Fairness names is disabled in the
\* scheduler's initial state, so it constrains nothing before probe
\* returns; probe itself is given no fairness.
ProbedNoFaultNext ==
    \/ P!Next /\ UNCHANGED vars
    \/ probeRet = "ok" /\ NoFaultNext /\ UNCHANGED probeVars

ProbedNoFaultFairSpec ==
    ProbedInit /\ [][ProbedNoFaultNext]_<<vars, probeVars>> /\ Fairness

\* G2DProbe: once g2d_probe has returned, it holds every resource or none.
ProbeReturnsBalanced == P!ProbeReturnsBalanced

=============================================================================
