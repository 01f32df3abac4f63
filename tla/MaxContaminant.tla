--------------------------- MODULE MaxContaminant ---------------------------
(***************************************************************************)
(* USB-C contaminant detection of the MAX77759 TCPC                        *)
(* (src/drivers/usb/typec/tcpm/max77759_contaminant.c).                    *)
(*                                                                         *)
(* process_contaminant_alert runs on every CC-status alert.  In           *)
(* NOT_DETECTED or SINK it checks a port the chip reports as possibly     *)
(* wet; in DETECTED or FLOATING_CABLE it checks a port the chip's dry     *)
(* detection reports as open.  Each check measures the port               *)
(* (detect_contaminant) and reprograms the chip into dry detection        *)
(* (enable_dry_detection) or contaminant detection                        *)
(* (enable_contaminant_detection).  The TCPC driver also calls            *)
(* enable_contaminant_detection and disable_contaminant_detection.        *)
(*                                                                         *)
(* The chip is abstracted to the register fields the sequences set: the   *)
(* CCCONNDRY mode bit, the CCLPMODESEL low-power mode, whether the last   *)
(* LOOK4CONNECTION command went out after the mode was set, and the CC    *)
(* and SBU over-voltage-protection disable bits.  Every register access   *)
(* of a sequence may fail (IOFail); a sequence stops at its first failed  *)
(* access, so its effect is that of the accesses before it.  The MaxQ     *)
(* path is dead code (contaminant_detect_maxq is never set) and is left   *)
(* out.                                                                    *)
(***************************************************************************)
EXTENDS ContaminantDetect

States == {"NOT_DETECTED", "DETECTED", "FLOATING_CABLE", "SINK", "DISABLED"}
LpModes == {"off", "ulp", "lpdis", "auto_ulp"}

Chips == [dry : BOOLEAN, lp : LpModes, armed : BOOLEAN,
          ccOvpDis : BOOLEAN, sbuOvpDis : BOOLEAN]

(***************************************************************************)
(* Register sequences.  k is the number of accesses that succeeded.       *)
(***************************************************************************)

\* The number of successful accesses a sequence of n accesses may reach.
Reached(n) == IF IOFail THEN 0 .. n ELSE {n}

\* The chip is looking for a connection in the mode just written only if
\* the command went out; a sequence that changed the mode and then failed
\* leaves it not looking in that mode.
Armed(c, k, n) == IF k = n THEN TRUE ELSE IF k = 0 THEN c.armed ELSE FALSE

\* The register accesses of enable_dry_detection,
\* enable_contaminant_detection and disable_contaminant_detection.
DrySteps == 6
DetSteps == 9
DisSteps == 3

\* Mutant: the periodic auto mode of contaminant detection is programmed
\* for dry detection too.
enable_dry_detection_auto(c, k) ==
    [c EXCEPT !.dry   = IF k >= 1 THEN TRUE ELSE @,
              !.lp    = IF k >= 3 THEN "auto_ulp" ELSE @,
              !.armed = Armed(c, k, DrySteps)]

\* enable_dry_detection: CCCONNDRY on, read back, ultra-low-power mode,
\* read back, enable Look4Connection alert, LOOK4CONNECTION command.
enable_dry_detection(c, k) ==
    [c EXCEPT !.dry   = IF k >= 1 THEN TRUE ELSE @,
              !.lp    = IF k >= 3 THEN "ulp" ELSE @,
              !.armed = Armed(c, k, DrySteps)]

\* enable_contaminant_detection: water debounce and threshold, CCCONNDRY
\* off, read, periodic auto ultra-low-power mode, read, unmask flash ADC,
\* enable Look4Connection alert, LOOK4CONNECTION command.
enable_contaminant_detection(c, k) ==
    [c EXCEPT !.dry   = IF k >= 3 THEN FALSE ELSE @,
              !.lp    = IF k >= 5 THEN "auto_ulp" ELSE @,
              !.armed = Armed(c, k, DetSteps)]

\* disable_contaminant_detection: low-power mode off, Look4Connection
\* alert, LOOK4CONNECTION command.
disable_contaminant_detection(c, k) ==
    [c EXCEPT !.lp    = IF k >= 1 THEN "off" ELSE @,
              !.armed = Armed(c, k, DisSteps)]

(***************************************************************************)
(* CC status, abstracted to the fields process_contaminant_alert tests.   *)
(***************************************************************************)
CCStates == {"wtrsel", "src_open", "other"}
CCStatusSpace ==
    [toggling : {TRUE}, rp : {TRUE}, cc1 : {"other"}, cc2 : {"other"}]
    \cup [toggling : {FALSE}, rp : BOOLEAN, cc1 : CCStates, cc2 : CCStates]

\* The statuses an alert is checked with: still toggling; Rp with water
\* level on CC1 or on CC2; Rp with both CCs open; Rp with one CC open;
\* an Rd result with water level.  They take every branch of the handler.
CCStatuses ==
    {[toggling |-> TRUE,  rp |-> TRUE,  cc1 |-> "other",    cc2 |-> "other"],
     [toggling |-> FALSE, rp |-> TRUE,  cc1 |-> "wtrsel",   cc2 |-> "other"],
     [toggling |-> FALSE, rp |-> TRUE,  cc1 |-> "src_open", cc2 |-> "wtrsel"],
     [toggling |-> FALSE, rp |-> TRUE,  cc1 |-> "src_open", cc2 |-> "src_open"],
     [toggling |-> FALSE, rp |-> TRUE,  cc1 |-> "src_open", cc2 |-> "other"],
     [toggling |-> FALSE, rp |-> FALSE, cc1 |-> "wtrsel",   cc2 |-> "wtrsel"]}

ASSUME CCStatuses \subseteq CCStatusSpace

\* ConnectResult Rp and either CC at the water-detection level.
MaybeWet(cs) == cs.rp /\ (cs.cc1 = "wtrsel" \/ cs.cc2 = "wtrsel")
\* ConnectResult Rp and both CCs open.
MaybeDry(cs) == cs.rp /\ cs.cc1 = "src_open" /\ cs.cc2 = "src_open"

(***************************************************************************)
(* State machine                                                           *)
(***************************************************************************)
VARIABLES
    state,   \* contaminant->state
    chip,    \* the TCPC register fields above
    ret,     \* what the last process_contaminant_alert returned, or "idle"
    ioOk     \* no register access of the last step failed

vars == <<state, chip, ret, ioOk>>

TypeOK ==
    /\ state \in States
    /\ chip \in Chips
    /\ ret \in {"idle", "true", "false"}
    /\ ioOk \in BOOLEAN

PowerOn == [dry |-> FALSE, lp |-> "off", armed |-> FALSE,
            ccOvpDis |-> FALSE, sbuOvpDis |-> FALSE]

\* max77759_contaminant_init: state NOT_DETECTED (zeroed allocation);
\* detection is enabled unless the port is already attached.
Init ==
    /\ state = "NOT_DETECTED"
    /\ \/ chip = PowerOn
       \/ \E k \in Reached(DetSteps) :
             chip = enable_contaminant_detection(PowerOn, k)
    /\ ret = "idle"
    /\ ioOk = TRUE

\* Re-checking a port: measure, then reprogram the chip by the result.
\* The dry check (dryCheck) stores NOT_DETECTED whatever the result; the
\* wet check stores the result.
Recheck(dryCheck) ==
    \E m \in Measurements :
    \E c \in AfterDetect(chip, m) :
       LET st == detect_contaminant(m) IN
       /\ state' = IF dryCheck THEN "NOT_DETECTED" ELSE st
       /\ IF st \in Wet
            THEN \E k \in Reached(DrySteps) :
                    /\ chip' = enable_dry_detection(c, k)
                    /\ ioOk' = (MeasuredOk(m) /\ k = DrySteps)
            ELSE \E k \in Reached(DetSteps) :
                    /\ chip' = enable_contaminant_detection(c, k)
                    /\ ioOk' = (MeasuredOk(m) /\ k = DetSteps)
       /\ ret' = "true"

\* process_contaminant_alert.  The read of TCPC_CC_STATUS is unchecked: on
\* failure cc_status is uninitialised, so any status may be seen.  The
\* final "return false" for state DISABLED is not a branch of its own:
\* nothing in the driver ever stores DISABLED.
process_contaminant_alert ==
    \E cs \in CCStatuses :
       \/ /\ cs.toggling
          /\ ret' = "false" /\ ioOk' = TRUE
          /\ UNCHANGED <<state, chip>>
       \/ /\ ~cs.toggling
          /\ state \in {"NOT_DETECTED", "SINK"}
          /\ IF MaybeWet(cs)
               THEN Recheck(FALSE)
               ELSE /\ ret' = "false" /\ ioOk' = TRUE
                    /\ UNCHANGED <<state, chip>>
       \/ /\ ~cs.toggling
          /\ state \in Wet
          /\ IF MaybeDry(cs)
               THEN Recheck(TRUE)
               ELSE \E k \in Reached(DrySteps) :
                       /\ chip' = enable_dry_detection(chip, k)
                       /\ ioOk' = (k = DrySteps)
                       /\ ret' = "true"
                       /\ UNCHANGED state

\* The TCPC driver enables contaminant detection (e.g. on detach).
tcpc_enable_contaminant_detection ==
    \E k \in Reached(DetSteps) :
       /\ chip' = enable_contaminant_detection(chip, k)
       /\ ret' = "idle" /\ ioOk' = (k = DetSteps)
       /\ UNCHANGED state

\* The TCPC driver disables it.
tcpc_disable_contaminant_detection ==
    \E k \in Reached(DisSteps) :
       /\ chip' = disable_contaminant_detection(chip, k)
       /\ ret' = "idle" /\ ioOk' = (k = DisSteps)
       /\ UNCHANGED state

Next ==
    \/ process_contaminant_alert
    \/ tcpc_enable_contaminant_detection
    \/ tcpc_disable_contaminant_detection

Spec == Init /\ [][Next]_vars

(***************************************************************************)
(* Properties                                                              *)
(***************************************************************************)

\* When the handler has just declared the port contaminated (or a floating
\* cable) and every register access succeeded, the chip is in dry
\* detection: CCCONNDRY set, ultra-low-power mode, looking for connection.
\* TCPM does not manage the port in that phase (max77759_contaminant.c:520).
ContaminatedMeansDry ==
    ret = "true" /\ ioOk /\ state \in Wet =>
        chip.dry /\ chip.lp = "ulp" /\ chip.armed

\* When the handler has just left the port NOT_DETECTED or SINK and every
\* access succeeded, the chip is back in contaminant detection (periodic
\* auto mode, CCCONNDRY clear), so that the state and the chip's mode
\* agree for the next alert.
ClearMeansDetection ==
    ret = "true" /\ ioOk /\ state \in {"NOT_DETECTED", "SINK"} =>
        ~chip.dry /\ chip.lp = "auto_ulp" /\ chip.armed

=============================================================================
