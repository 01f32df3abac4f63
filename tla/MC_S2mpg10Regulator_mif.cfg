CONSTANTS
    LDO1M = LDO1M
    LDO3M = LDO3M
    LDO11M = LDO11M
    LDO12M = LDO12M
    BUCK1M = BUCK1M
    BUCK2M = BUCK2M
    Regs <- MC_MifRegs
    Desc <- MC_Desc
    DtChildren <- MC_MifDtChildren
    FirstReg <- MC_FirstReg
    Dt <- MC_Dt
    OcpShift <- MC_OcpShift
    SmplShift <- MC_SmplShift
    DtModes <- MC_DtModes
    RampDelays <- MC_RampDelays
    Sels <- MC_Sels
    CoreCalls <- MC_CoreCalls
    CRamp <- MC_CRamp
    AP_ACTIVE_N = 1
    PWREN_MIF = 2
SPECIFICATION Spec
INVARIANTS
    EnabledMatchesCore
