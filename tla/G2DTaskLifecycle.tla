-------------------------- MODULE G2DTaskLifecycle --------------------------
(***************************************************************************)
(* What the G2D driver promises about a task of its pool, with the lists, *)
(* timers, interrupts and hardware queue abstracted away.                  *)
(*                                                                         *)
(* A task is free in the pool, held by a request that is filling it in,  *)
(* queued while the device is closed to new work, running on the          *)
(* hardware, or finished and waiting for its owner to give it back.  The   *)
(* device is open or closed to new work (the suspend bit).  A request      *)
(* submitted to a closed device waits for it to open again; opening the    *)
(* device starts every queued task.  Any set of running tasks may finish   *)
(* in one step (an interrupt retires several jobs, an error flushes all).  *)
(***************************************************************************)
CONSTANT Tasks

VARIABLES
    phase,   \* Tasks -> "free" "held" "queued" "running" "finished"
    gate     \* "open" or "closed" to new work

vars == <<phase, gate>>

Phases == {"free", "held", "queued", "running", "finished"}

TypeOK ==
    /\ phase \in [Tasks -> Phases]
    /\ gate \in {"open", "closed"}

Init ==
    /\ phase = [t \in Tasks |-> "free"]
    /\ gate = "open"

\* Move task t from phase a to phase b.
Step(t, a, b) ==
    /\ phase[t] = a
    /\ phase' = [phase EXCEPT ![t] = b]
    /\ UNCHANGED gate

\* A request takes a free task.
Acquire(t) == Step(t, "free", "held")

\* The request fails before starting the task and gives it back.
Abandon(t) == Step(t, "held", "free")

\* The request starts the task: it runs at once on an open device and
\* waits on a closed one.
Submit(t) ==
    Step(t, "held", IF gate = "open" THEN "running" ELSE "queued")

\* Starting the task fails (power or clock), which finishes it at once.
FailStart(t) == Step(t, "held", "finished")

\* A set of running tasks finishes, successfully or not.
Retire(S) ==
    /\ S \subseteq {t \in Tasks : phase[t] = "running"}
    /\ phase' = [t \in Tasks |-> IF t \in S THEN "finished" ELSE phase[t]]
    /\ UNCHANGED gate

\* The owner of a finished task gives it back to the pool.
Release(t) == Step(t, "finished", "free")

\* The device closes to new work.
Close ==
    /\ gate = "open"
    /\ gate' = "closed"
    /\ UNCHANGED phase

\* The device opens again and starts every queued task.
Open ==
    /\ gate = "closed"
    /\ gate' = "open"
    /\ phase' = [t \in Tasks |-> IF phase[t] = "queued" THEN "running" ELSE phase[t]]

Next ==
    \/ \E t \in Tasks :
          \/ Acquire(t) \/ Abandon(t) \/ Submit(t) \/ FailStart(t) \/ Release(t)
    \/ \E S \in SUBSET Tasks : Retire(S)
    \/ Close
    \/ Open

Spec == Init /\ [][Next]_vars

=============================================================================
