-------------------------- MODULE ContaminantDetect --------------------------
(***************************************************************************)
(* detect_contaminant of src/drivers/usb/typec/tcpm/max77759_contaminant.c *)
(* as a pure classifier of a port measurement, with the effect of the     *)
(* measurement's register accesses on the CC and SBU over-voltage         *)
(* protection.  MaxContaminant uses it in the alert handler.               *)
(***************************************************************************)
EXTENDS Integers, Sequences

CONSTANTS
    IOFail,      \* TRUE: an I2C register access may fail
    FladcCodes   \* the TCPC_VENDOR_FLADC_STATUS codes a conversion may read

ASSUME IOFail \in BOOLEAN

Wet == {"DETECTED", "FLOATING_CABLE"}

\* enum fladc_select
CC1_SCALE1 == 1
CC1_SCALE2 == 2
CC2_SCALE1 == 3
CC2_SCALE2 == 4
SBU1 == 5
SBU2 == 6

CONTAMINANT_THRESHOLD_CC_K == 1000
CONTAMINANT_THRESHOLD_SBU_K == 1000

\* A failed register access: the negative errno the read functions return.
EIO == -5

FLADC_1uA_LSB_MV == 100
FLADC_CC_HIGH_RANGE_LSB_MV == 208
FLADC_CC_LOW_RANGE_LSB_MV == 126
FLADC_1uA_CC_OFFSET_MV == 300
FLADC_CC_HIGH_RANGE_OFFSET_MV == 624
FLADC_CC_LOW_RANGE_OFFSET_MV == 378

\* adc_to_mv: the mean of the code's range for the channel and current
\* source; an unknown combination returns the raw code.
adc_to_mv(channel, ua_src, fladc) ==
    CASE ua_src /\ channel \in {CC1_SCALE1, CC2_SCALE1, SBU1, SBU2}
              -> FLADC_1uA_CC_OFFSET_MV + fladc * FLADC_1uA_LSB_MV
      [] ~ua_src /\ channel \in {CC1_SCALE1, CC2_SCALE1}
              -> FLADC_CC_HIGH_RANGE_OFFSET_MV + fladc * FLADC_CC_HIGH_RANGE_LSB_MV
      [] ~ua_src /\ channel \in {CC1_SCALE2, CC2_SCALE2}
              -> FLADC_CC_LOW_RANGE_OFFSET_MV + fladc * FLADC_CC_LOW_RANGE_LSB_MV
      [] OTHER -> fladc

(***************************************************************************)
(* read_resistance_kohm returns the millivolts of a conversion made with   *)
(* the 1uA source (so kOhm), or a negative errno.  It also leaves its OVP *)
(* disable bit: restored on the normal path (and when only the ADC read  *)
(* failed), untouched when the first write failed, left set when a later *)
(* access failed.                                                          *)
(***************************************************************************)
Ovp == {"restored", "untouched", "left"}

ReadOutcomes(channel) ==
    {r \in [val : {EIO} \cup {adc_to_mv(channel, TRUE, c) : c \in FladcCodes},
            ovp : Ovp] :
        /\ r.ovp # "restored" => r.val = EIO
        /\ ~IOFail => r.val # EIO}

\* A read compared with a threshold: "cc1_k < CONTAMINANT_THRESHOLD_CC_K"
\* on the int the read returned, errno included.
Below(r, threshold) == r.val < threshold

\* A read detect_contaminant does not perform (no conversion gives 0 mV).
NoRead == [val |-> 0, ovp |-> "restored"]

\* The early return for a sink: either CC sees Rd, but not both.
IsSink(m) == (~m.vb1 \/ ~m.vb2) /\ ~(m.vb1 /\ m.vb2)

CCWet(m) ==
    Below(m.cc1, CONTAMINANT_THRESHOLD_CC_K) \/ Below(m.cc2, CONTAMINANT_THRESHOLD_CC_K)

SBUWet(m) ==
    Below(m.sbu1, CONTAMINANT_THRESHOLD_SBU_K) \/ Below(m.sbu2, CONTAMINANT_THRESHOLD_SBU_K)

\* Mutant: a failed CC1 read is returned as the result, the way
\* maxq_detect_contaminant would without its fallback to NOT_DETECTED.
detect_contaminant_err(m) ==
    IF ~IsSink(m) /\ m.cc1.val = EIO THEN "err"
    ELSE IF IsSink(m) THEN "SINK"
    ELSE IF CCWet(m)
      THEN IF SBUWet(m) THEN "DETECTED" ELSE "FLOATING_CABLE"
      ELSE "NOT_DETECTED"

\* detect_contaminant (its register accesses are in Measurements).
detect_contaminant(m) ==
    IF IsSink(m) THEN "SINK"
    ELSE IF CCWet(m)
      THEN IF SBUWet(m) THEN "DETECTED" ELSE "FLOATING_CABLE"
      ELSE "NOT_DETECTED"

\* vb1, vb2: the CCx_VUFP_RD0P5 bits of VENDOR_CC_STATUS2 read by
\* read_comparators (0xff, both set, if it fails before reading them).
\* The CC reads are made on the scale-1 channels, the SBU reads on SBU1/2;
\* a read detect_contaminant does not perform is NoRead.
Measurements ==
    {m \in [vb1 : BOOLEAN, vb2 : BOOLEAN,
            cc1 : ReadOutcomes(CC1_SCALE1) \cup {NoRead},
            cc2 : ReadOutcomes(CC2_SCALE1) \cup {NoRead},
            sbu1 : ReadOutcomes(SBU1) \cup {NoRead},
            sbu2 : ReadOutcomes(SBU2) \cup {NoRead}] :
        /\ IsSink(m) <=> m.cc1 = NoRead
        /\ IsSink(m) <=> m.cc2 = NoRead
        /\ (~IsSink(m) /\ CCWet(m)) <=> m.sbu1 # NoRead
        /\ (~IsSink(m) /\ CCWet(m)) <=> m.sbu2 # NoRead}

\* The resistance reads detect_contaminant performs for m, in order.
CCReads(m)  == IF detect_contaminant(m) = "SINK" THEN << >> ELSE <<m.cc1, m.cc2>>
SBUReads(m) == IF detect_contaminant(m) \in Wet THEN <<m.sbu1, m.sbu2>> ELSE << >>

\* An OVP disable bit after a sequence of reads that each restore, leave
\* or do not touch it.
RECURSIVE OvpAfter(_, _)
OvpAfter(bit, rs) ==
    IF rs = << >> THEN bit
    ELSE OvpAfter(CASE rs[1].ovp = "restored"  -> FALSE
                    [] rs[1].ovp = "left"      -> TRUE
                    [] rs[1].ovp = "untouched" -> bit,
                  Tail(rs))

\* The chip after detect_contaminant: read_comparators disables low-power
\* mode, a CC read selects ultra-low-power mode (an unchecked write).
AfterDetect(c, m) ==
    {[c EXCEPT !.lp = lp,
               !.ccOvpDis = OvpAfter(c.ccOvpDis, CCReads(m)),
               !.sbuOvpDis = OvpAfter(c.sbuOvpDis, SBUReads(m))] :
        lp \in IF IOFail THEN {c.lp, "lpdis", "ulp"}
               ELSE {IF CCReads(m) = << >> THEN "lpdis" ELSE "ulp"}}

\* No access of the measurement failed.
MeasuredOk(m) ==
    \A r \in {m.cc1, m.cc2, m.sbu1, m.sbu2} : r.val # EIO

=============================================================================
