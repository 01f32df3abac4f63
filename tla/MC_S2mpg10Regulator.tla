------------------------ MODULE MC_S2mpg10Regulator ------------------------
EXTENDS S2mpg10Regulator, TLC

CONSTANTS LDO1M, LDO3M, LDO11M, LDO12M, BUCK1M, BUCK2M

\* Two LDOs whose enable fields share LDO_CTRL2 (_MASK(_1_0), _MASK(_3_2)),
\* LDO3M whose selector (bits 5-0) and enable field (_MASK(_7_6)) share
\* L3M_CTRL, as for most LDOs, and two bucks whose ramp fields share
\* DVS_RAMP1 (shifts 0 and 2).
\* REG_DESC leaves ramp_delay, apply_bit and enable_is_inverted at zero.
\* The voltage groups' min_uV and uV_step are kept symbolic: no property
\* depends on their values, only on the linear list.
MC_Regs == {LDO3M, LDO11M, LDO12M, BUCK1M, BUCK2M}

LdoDesc(vr, n, er, em) ==
    [buck |-> 0, vsel_reg |-> vr, n_voltages |-> n, enable_reg |-> er,
     enable_mask |-> em, inverted |-> FALSE, ramp_delay |-> 0,
     min_uV |-> 700000, uV_step |-> 12500]

BuckDesc(b, vr, er) ==
    [buck |-> b, vsel_reg |-> vr, n_voltages |-> 256, enable_reg |-> er,
     enable_mask |-> 192, inverted |-> FALSE, ramp_delay |-> 0,
     min_uV |-> 200000, uV_step |-> 6250]

MC_Desc ==
    LDO1M :> LdoDesc("L1M_CTRL", 128, "L1M_CTRL", 128)
    @@ LDO3M :> LdoDesc("L3M_CTRL", 64, "L3M_CTRL", 192)
    @@ LDO11M :> LdoDesc("L11M_CTRL1", 128, "LDO_CTRL2", 3)
    @@ LDO12M :> LdoDesc("L12M_CTRL1", 128, "LDO_CTRL2", 12)
    @@ BUCK1M :> BuckDesc(1, "B1M_OUT1", "B1M_CTRL")
    @@ BUCK2M :> BuckDesc(2, "B2M_OUT1", "B2M_CTRL")

MC_DtChildren == <<LDO3M, LDO11M, LDO12M, BUCK1M, BUCK2M>>

\* regulators[0] is LDO1M.
MC_FirstReg == LDO1M

\* The warn field layout.  The register header is not in this tree; the
\* layout is the one the field order of s2mpg10_ocp_warn suggests: EN, CNT
\* and DVS_MASK one bit each from bit 7 down, LVL in the low five bits; for
\* SMPL_WARN_CTRL LVL in bits 7-5, HYS in 4-3, LBDT in 2-0.
MC_OcpShift == [en |-> 7, cnt |-> 6, dvs_mask |-> 5, lvl |-> 0]
MC_SmplShift == [lvl |-> 5, hys |-> 3, lbdt |-> 0]

\* A pmic node without warn properties: each reads as 0, the reset value,
\* so a failed warn write cannot be told from a successful one.  No
\* property reads the warn registers; a DT that sets them multiplies the
\* states by the write outcomes of each register it sets.
MC_Dt == [k \in {} |-> 0]

\* The two modes of a regulator that stays on while the AP is active: with
\* two-bit enable fields all of s2mpg10_of_map_mode's values are non-zero.
MC_DtModes == {"MIF", "ON"}

\* 12.5 and 50 mV/us: ramp codes 1 and 3.  Halving before the test and
\* testing first disagree on 12.5; the two bucks may hold different codes
\* in their two-bit fields of one register.
MC_RampDelays == {12500, 50000}

\* The core moves LDO3M between its reset selector 0 and its top one (every
\* bit of the field set, beside the enable field); the other rails keep
\* theirs.
MC_Sels == [r \in MC_Regs \cup {LDO1M} |-> IF r = LDO3M THEN {0, 63} ELSE {}]

\* LDO1M alone: like LDO2M and LDO21M-LDO31M its enable field is the single
\* bit 7 (_MASK(_7)), and the DT may give it the PWREN_MIF mode.
MC_MifRegs == {LDO1M}
MC_MifDtChildren == <<LDO1M>>

\* The LDOs are switched and moved between modes; the bucks only have their
\* ramp rate set (their enable fields are separate registers, checked like
\* the LDOs', and left out to keep the run small).
MC_CoreCalls ==
    [r \in MC_Regs \cup {LDO1M} |->
        IF r \in {BUCK1M, BUCK2M} THEN {"ramp"} ELSE {"mode", "enable", "disable"}]

\* constraints->ramp_delay: 7 mV/us on LDO3M, which divides no step of
\* its 12.5 mV selectors, so the settling time must round up.
MC_CRamp == [r \in MC_Regs \cup {LDO1M} |-> IF r = LDO3M THEN 7000 ELSE 0]

====
