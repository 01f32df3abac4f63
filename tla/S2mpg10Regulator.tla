-------------------------- MODULE S2mpg10Regulator --------------------------
(***************************************************************************)
(* The regulator operations of the S2MPG10 PMIC driver                     *)
(* (drivers/regulator/s2mpg10-regulator.c) seen from the regulator core.   *)
(*                                                                         *)
(* The PMIC is a file of 8-bit registers.  Every operation is one masked   *)
(* read-modify-write of that file (s2mpg10_update_reg, which holds the     *)
(* MFD's i2c lock), so each is a single atomic step; operations of         *)
(* different regulators interleave freely, and several regulators share a  *)
(* register: the LDO_CTRL2 enable register and the DVS_RAMP registers.     *)
(*                                                                         *)
(* The regulator core's view of each regulator (what its last successful   *)
(* call asked for) is kept beside the registers in want, want_sel,        *)
(* ramp_req and settle, so that the properties can compare them.  A failing*)
(* s2mpg10_update_reg writes nothing and the core keeps its view, so a     *)
(* failing call is a stuttering step and is not written out.               *)
(***************************************************************************)
EXTENDS Integers, Sequences, FiniteSets, Bitwise, TLC

CONSTANTS
    Regs,          \* the regulators of the model (model values)
    Desc,          \* Regs -> the regulator_desc fields the ops read
    DtChildren,    \* the children of the DT regulators node, in order: a
                   \* regulator, or a name no descriptor has
    FirstReg,      \* regulators[0], the id a zeroed rdata entry names
    Dt,            \* the u32 DT properties of the pmic node that are present:
                   \* <<rail, field>> -> value
    OcpShift,      \* S2MPG10_OCP_WARN_{EN,CNT,DVS_MASK,LVL}_SHIFT
    SmplShift,     \* S2MPG10_SMPL_WARN_{LBDT,HYS,LVL}_SHIFT
    DtModes,       \* the DT mode values s2mpg10_of_map_mode is given
    RampDelays,    \* the ramp delays (uV/us) the core passes to set_ramp_delay
    Sels,          \* Regs -> selectors the core passes to set_voltage_sel
    CoreCalls,     \* Regs -> the other ops the core calls on the regulator:
                   \* a subset of {"mode", "enable", "disable", "ramp"}
    CRamp,         \* Regs -> constraints->ramp_delay (uV/us), 0 if unset
    AP_ACTIVE_N,   \* DCTRLSEL_AP_ACTIVE_N
    PWREN_MIF      \* DCTRLSEL_PWREN_MIF

Null == -1

VARIABLES
    reg,        \* register address -> 8-bit contents
    opmode,     \* s2mpg10->opmode[id]: the enable field written by s2m_enable
    nreg,       \* how many DT regulators probe has registered so far
    probed,     \* probe has returned 0
    suspended,  \* s2mpg10_pmic_suspend has run and resume has not
    want,       \* core view: "on"/"off" after enable/disable, "unset" before
    want_sel,   \* core view: the last selector set, Null before
    ramp_req,   \* core view: the ramp delay (uV/us) last set, Null before
    settle      \* core view: the last voltage change and the settling time
                \* set_voltage_time_sel returned for it, NoSettle before

vars == <<reg, opmode, nreg, probed, suspended, want, want_sel, ramp_req, settle>>

\* settle of a regulator whose voltage the core has not changed yet.
NoSettle == [old |-> Null, new |-> Null, t |-> Null]

\* s2mpg10_pmic_dt_parse_pdata's children loop: num_regulators counts every
\* child, rdata is filled only for names found in regulators[], and the
\* entries left over keep kzalloc's id 0.
DtKnown == SelectSeq(DtChildren, LAMBDA c : c \in DOMAIN Desc)

RData == DtKnown \o [i \in 1..(Len(DtChildren) - Len(DtKnown)) |-> FirstReg]

Registered == {RData[i] : i \in 1..nreg}

Bucks == {r \in Regs : Desc[r].buck # 0}

-----------------------------------------------------------------------------
(* Helpers of the driver.                                                  *)

\* s2mpg10_of_map_mode: DT operating mode -> enable-field value
s2mpg10_of_map_mode(val) ==
    CASE val = "SUSPEND" -> 1
      [] val = "MIF"     -> 2
      [] val = "ON"      -> 3
      [] OTHER           -> 3

\* The while(1) loop of s2m_set_mode: the position of the lowest set bit of
\* the enable mask (it never ends for a zero mask; no descriptor has one).
RECURSIVE EnableShift(_)
EnableShift(mask) ==
    IF mask % 2 = 1 THEN 0 ELSE 1 + EnableShift(mask \div 2)

\* Mutant: the loop tests before it halves, counting one code too many.
RECURSIVE RampHalvings_test_first(_)
RampHalvings_test_first(v) ==
    IF v = 0 THEN 0 ELSE 1 + RampHalvings_test_first(v \div 2)

\* get_ramp_delay: divide by 6, then count the halvings before reaching 0.
RECURSIVE RampHalvings(_)
RampHalvings(v) ==
    IF v \div 2 = 0 THEN 0 ELSE 1 + RampHalvings(v \div 2)

get_ramp_delay(ramp_delay) == RampHalvings(ramp_delay \div 6)

\* The two switch statements of s2m_set_ramp_delay, by buck number.
RampShift(b) ==
    CASE b \in {4, 8}     -> 6
      [] b \in {3, 7}     -> 4
      [] b \in {2, 6, 10} -> 2
      [] b \in {1, 5, 9}  -> 0

RampAddr(b) ==
    CASE b \in 1..4  -> "DVS_RAMP1"
      [] b \in 5..8  -> "DVS_RAMP2"
      [] b \in 9..10 -> "DVS_RAMP3"

\* REG_DESC: .vsel_mask = n - 1
VselMask(r) == Desc[r].n_voltages - 1

ShiftL(x, k) == x * 2^k

\* The OCP warn registers s2mpg10_ocp_warn programs, and the rail whose DT
\* properties each one is named for.
OcpRailOf ==
    [B2M_OCP_WARN |-> "b2", B3M_OCP_WARN |-> "b3", B10M_OCP_WARN |-> "b10",
     B2M_SOFT_OCP_WARN |-> "b2_soft", B3M_SOFT_OCP_WARN |-> "b3_soft",
     B10M_SOFT_OCP_WARN |-> "b10_soft"]

RegNames ==
    {Desc[r].enable_reg : r \in Regs} \cup {Desc[r].vsel_reg : r \in Regs}
      \cup {RampAddr(Desc[b].buck) : b \in Bucks} \cup {"DCTRLSEL7"}
      \cup DOMAIN OcpRailOf \cup {"SMPL_WARN_CTRL"}

\* pdata->x = ret ? 0 : val, for every u32 property of the pmic node
DtU32(key) == IF key \in DOMAIN Dt THEN Dt[key] ELSE 0

\* The DT property s2mpg10_ocp_warn packs into field f of a rail's register:
\* the B10M_SOFT_OCP_WARN value takes its enable bit from b10_ocp_warn_en.
OcpSrc(x, f) == IF x = "b10_soft" /\ f = "en" THEN <<"b10", "en">> ELSE <<x, f>>

\* The u8 val of s2mpg10_ocp_warn for a rail: the fields OR'ed unmasked.
OcpWarnVal(x) ==
    (ShiftL(DtU32(OcpSrc(x, "en")), OcpShift.en)
       | ShiftL(DtU32(OcpSrc(x, "cnt")), OcpShift.cnt)
       | ShiftL(DtU32(OcpSrc(x, "dvs_mask")), OcpShift.dvs_mask)
       | ShiftL(DtU32(OcpSrc(x, "lvl")), OcpShift.lvl)) % 256

\* The u8 val of s2mpg10_smpl_warn.
SmplWarnVal ==
    (ShiftL(DtU32(<<"smpl", "lbdt">>), SmplShift.lbdt)
       | ShiftL(DtU32(<<"smpl", "hys">>), SmplShift.hys)
       | ShiftL(DtU32(<<"smpl", "lvl">>), SmplShift.lvl)) % 256

\* s2mpg10_update_reg(i2c, addr, val, mask) on an 8-bit register file f
Updated(f, a, val, mask) == [f EXCEPT ![a] = (@ & (255 - mask)) | (val & mask)]

UpdateReg(a, val, mask) == reg' = Updated(reg, a, val, mask)

\* s2mpg10_smpl_warn then s2mpg10_ocp_warn: whole-register writes.
WarnWrites ==
    ("SMPL_WARN_CTRL" :> SmplWarnVal)
      @@ [a \in DOMAIN OcpRailOf |-> OcpWarnVal(OcpRailOf[a])]

\* s2m_is_enabled
IsEnabled(r) ==
    LET f == reg[Desc[r].enable_reg] & Desc[r].enable_mask
    IN  IF Desc[r].inverted THEN f = 0 ELSE f # 0

\* s2m_get_voltage_sel
GetVoltageSel(r) == reg[Desc[r].vsel_reg] & VselMask(r)

\* The ramp field of a buck as s2m_set_ramp_delay lays it out.
RampField(b) ==
    LET s == RampShift(Desc[b].buck)
    IN  shiftR(reg[RampAddr(Desc[b].buck)], s) % 4

\* regulator_list_voltage_linear
ListVoltage(r, sel) == Desc[r].min_uV + sel * Desc[r].uV_step

\* Mutant: DIV_ROUND_UP replaced by a truncating division.
DivTrunc(n, d) == n \div d

DivRoundUp(n, d) == (n + d - 1) \div d

\* Mutant: the two differences of the direction test swapped.
s2m_set_voltage_time_sel_swapped(r, cramp, old, new) ==
    LET ramp == IF cramp # 0 THEN cramp ELSE Desc[r].ramp_delay
        ov   == ListVoltage(r, old)
        nv   == ListVoltage(r, new)
    IN  IF ramp = 0 THEN Null
        ELSE IF old < new THEN DivRoundUp(ov - nv, ramp)
        ELSE DivRoundUp(nv - ov, ramp)

\* s2m_set_voltage_time_sel, given constraints->ramp_delay
s2m_set_voltage_time_sel(r, cramp, old, new) ==
    LET ramp == IF cramp # 0 THEN cramp ELSE Desc[r].ramp_delay
        ov   == ListVoltage(r, old)
        nv   == ListVoltage(r, new)
    IN  IF ramp = 0 THEN Null
        ELSE IF old < new THEN DivRoundUp(nv - ov, ramp)
        ELSE DivRoundUp(ov - nv, ramp)

-----------------------------------------------------------------------------
(* Operations.                                                             *)

Init ==
    /\ reg = [a \in RegNames |-> 0]
    /\ opmode = [r \in Regs |-> 0]
    /\ nreg = 0
    /\ probed = FALSE
    /\ suspended = FALSE
    /\ want = [r \in Regs |-> "unset"]
    /\ want_sel = [r \in Regs |-> Null]
    /\ ramp_req = [r \in Regs |-> Null]
    /\ settle = [r \in Regs |-> NoSettle]

\* One iteration of the registration loop of s2mpg10_pmic_probe: the opmode
\* cache starts at the full enable mask, then regulator_register publishes
\* the regulator to the core.
ProbeRegister ==
    /\ nreg < Len(DtChildren)
    /\ LET r == RData[nreg + 1]
       IN  opmode' = [opmode EXCEPT ![r] = Desc[r].enable_mask]
    /\ nreg' = nreg + 1
    /\ UNCHANGED <<reg, probed, suspended, want, want_sel, ramp_req, settle>>

\* The end of s2mpg10_pmic_probe: the OCP IRQ requests (whose failures are
\* only logged, and whose handlers only log), the SMPL and OCP warn
\* registers from the DT, then DCTRLSEL config for LDO15M.  Each of the
\* seven warn writes may fail, which is only logged (and smpl_warn's return
\* is ignored), and so may the DCTRLSEL update, whose result is not read:
\* probe returns 0 with any subset of them written.  (A write of the value
\* a register already holds is the same step whether it fails or not.)
ProbeFinish ==
    /\ nreg = Len(DtChildren)
    /\ ~probed
    /\ \E written \in SUBSET {a \in DOMAIN WarnWrites : WarnWrites[a] # reg[a]},
          dctrl \in BOOLEAN :
          LET warned == [a \in written |-> WarnWrites[a]] @@ reg
          IN  reg' = IF dctrl
                     THEN Updated(warned, "DCTRLSEL7", ShiftL(AP_ACTIVE_N, 4), 240)
                     ELSE warned
    /\ probed' = TRUE
    /\ UNCHANGED <<opmode, nreg, suspended, want, want_sel, ramp_req, settle>>

\* Mutant: the mode is masked without shifting it to the field.
s2m_set_mode_no_shift(r, mode) ==
    opmode' = [opmode EXCEPT ![r] = mode & Desc[r].enable_mask]

s2m_set_mode(r, mode) ==
    LET mask == Desc[r].enable_mask
    IN  opmode' = [opmode EXCEPT ![r] = ShiftL(mode, EnableShift(mask)) & mask]

SetMode(r) ==
    /\ r \in Registered
    /\ "mode" \in CoreCalls[r]
    /\ \E m \in DtModes : s2m_set_mode(r, s2mpg10_of_map_mode(m))
    /\ UNCHANGED <<reg, nreg, probed, suspended, want, want_sel, ramp_req, settle>>

s2m_enable(r) ==
    /\ r \in Registered
    /\ "enable" \in CoreCalls[r]
    /\ UpdateReg(Desc[r].enable_reg, opmode[r], Desc[r].enable_mask)
    /\ want' = [want EXCEPT ![r] = "on"]
    /\ UNCHANGED <<opmode, nreg, probed, suspended, want_sel, ramp_req, settle>>

\* Mutant: the update is written with a full-register mask, so it clears
\* whatever shares the enable register.
s2m_disable_unmasked(r) ==
    /\ r \in Registered
    /\ "disable" \in CoreCalls[r]
    /\ LET val == IF Desc[r].inverted THEN Desc[r].enable_mask ELSE 0
       IN  UpdateReg(Desc[r].enable_reg, val, 255)
    /\ want' = [want EXCEPT ![r] = "off"]
    /\ UNCHANGED <<opmode, nreg, probed, suspended, want_sel, ramp_req, settle>>

s2m_disable(r) ==
    /\ r \in Registered
    /\ "disable" \in CoreCalls[r]
    /\ LET val == IF Desc[r].inverted THEN Desc[r].enable_mask ELSE 0
       IN  UpdateReg(Desc[r].enable_reg, val, Desc[r].enable_mask)
    /\ want' = [want EXCEPT ![r] = "off"]
    /\ UNCHANGED <<opmode, nreg, probed, suspended, want_sel, ramp_req, settle>>

\* apply_bit is zero in every descriptor, so the second write never happens.
\* When the selector changes, the core (_regulator_do_set_voltage) then asks
\* s2m_set_voltage_time_sel how long to wait, from the selector it read
\* with s2m_get_voltage_sel before the call.
s2m_set_voltage_sel(r) ==
    /\ r \in Registered
    /\ \E sel \in Sels[r] :
          LET old == GetVoltageSel(r)
          IN  /\ UpdateReg(Desc[r].vsel_reg, sel, VselMask(r))
              /\ want_sel' = [want_sel EXCEPT ![r] = sel]
              /\ settle' = IF old = sel THEN settle
                           ELSE [settle EXCEPT ![r] =
                                  [old |-> old, new |-> sel,
                                   t |-> s2m_set_voltage_time_sel(r, CRamp[r], old, sel)]]
    /\ UNCHANGED <<opmode, nreg, probed, suspended, want, ramp_req>>

\* LDOs return 0 at once (a stuttering step); bucks program their field.
s2m_set_ramp_delay(r) ==
    /\ r \in Registered \cap Bucks
    /\ "ramp" \in CoreCalls[r]
    /\ \E d \in RampDelays :
          LET b     == Desc[r].buck
              value == get_ramp_delay(d \div 1000)
          IN  /\ UpdateReg(RampAddr(b), ShiftL(value, RampShift(b)),
                           ShiftL(3, RampShift(b)))
              /\ ramp_req' = [ramp_req EXCEPT ![r] = d]
    /\ UNCHANGED <<opmode, nreg, probed, suspended, want, want_sel, settle>>

s2mpg10_pmic_suspend ==
    /\ probed /\ ~suspended
    /\ UpdateReg("DCTRLSEL7", ShiftL(PWREN_MIF, 4), 240)
    /\ suspended' = TRUE
    /\ UNCHANGED <<opmode, nreg, probed, want, want_sel, ramp_req, settle>>

s2mpg10_pmic_resume ==
    /\ suspended
    /\ UpdateReg("DCTRLSEL7", ShiftL(AP_ACTIVE_N, 4), 240)
    /\ suspended' = FALSE
    /\ UNCHANGED <<opmode, nreg, probed, want, want_sel, ramp_req, settle>>

Next ==
    \/ ProbeRegister
    \/ ProbeFinish
    \/ s2mpg10_pmic_suspend
    \/ s2mpg10_pmic_resume
    \/ \E r \in Regs :
          \/ SetMode(r)
          \/ s2m_enable(r)
          \/ s2m_disable(r)
          \/ s2m_set_voltage_sel(r)
          \/ s2m_set_ramp_delay(r)

Spec == Init /\ [][Next]_vars

-----------------------------------------------------------------------------
(* Properties.                                                             *)

TypeOK ==
    /\ reg \in [RegNames -> 0..255]
    /\ opmode \in [Regs -> 0..255]
    /\ nreg \in 0..Len(DtChildren)
    /\ probed \in BOOLEAN /\ suspended \in BOOLEAN
    /\ want \in [Regs -> {"unset", "on", "off"}]
    /\ want_sel \in [Regs -> {Null} \cup 0..255]
    /\ ramp_req \in [Regs -> {Null} \cup RampDelays]
    /\ settle \in [Regs -> {NoSettle} \cup [old : 0..255, new : 0..255, t : {Null} \cup Nat]]

\* After a successful s2m_enable the regulator reads back as enabled, and
\* after s2m_disable as disabled, whatever set_mode, set_voltage_sel and the
\* calls for the other regulators on a shared enable register did meanwhile.
EnabledMatchesCore ==
    \A r \in Registered :
        /\ want[r] = "on"  => IsEnabled(r)
        /\ want[r] = "off" => ~IsEnabled(r)

\* s2m_get_voltage_sel returns the selector last set with
\* s2m_set_voltage_sel, across the enable and disable writes that
\* s2m_enable and s2m_disable make to the same register (LxM_CTRL holds
\* both fields for most LDOs), and vsel writes leave the enable field.
VselMatchesCore ==
    \A r \in Registered : want_sel[r] # Null => GetVoltageSel(r) = want_sel[r]

\* The highest code a request below 6 * 2^11 mV/us can need.
RampHalvingsCap == 10

\* The reference for get_ramp_delay: the largest code c whose rate
\* 6 * 2^c (mV/us) does not exceed the request, 0 below the slowest rate.
RampCodeRef(k) ==
    IF k < 6 THEN 0 ELSE CHOOSE c \in 0..RampHalvingsCap : 6 * 2^c <= k /\ k < 6 * 2^(c + 1)

\* Each buck's field of a shared DVS_RAMP register holds the code of the
\* fastest supported rate not above the delay the core last set for it:
\* get_ramp_delay's shift-then-test loop computed it, and the writes of the
\* bucks sharing the register since then left it alone.
RampFieldsKept ==
    \A b \in Bucks : ramp_req[b] # Null => RampField(b) = RampCodeRef(ramp_req[b] \div 1000)

\* The settling time s2m_set_voltage_time_sel gave the core for the last
\* voltage change is the least whole number of microseconds in which the
\* ramp covers the step, in either direction, and an error exactly when
\* neither the constraints nor the descriptor give a ramp delay.
SettleRoundsUp ==
    \A r \in Regs : settle[r] # NoSettle =>
        LET t    == settle[r].t
            ramp == IF CRamp[r] # 0 THEN CRamp[r] ELSE Desc[r].ramp_delay
            dv   == ListVoltage(r, settle[r].new) - ListVoltage(r, settle[r].old)
            adv  == IF dv < 0 THEN -dv ELSE dv
        IN  IF ramp = 0 THEN t = Null
            ELSE t # Null /\ t * ramp >= adv /\ (t - 1) * ramp < adv

====
