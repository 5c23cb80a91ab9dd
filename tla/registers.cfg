SPECIFICATION FairSpec
CONSTANTS
    CSR_WORDS = 16
    BASE_ADDR <- MCBaseAddr
    CTRL_CNT <- MCCtrlCnt
    ROM <- MCRom
    MAP_SIZE = 64
    DATA_MAX = 15
    PREAMBLE = 3
    HEAD = 2
    TURN = 1
    DATA = 3
    MDC_MAX = 8
    PHY_REGS <- MCPhyRegs
    DIVIDER = 4
    OPERATIONS <- MCOperations
    OTHER_CALLS <- MCOther
    MAX_OPERATIONS = 2
    MAX_OTHER = 1
    MAX_FAILS = 1
INVARIANTS
    RegistersAreMemory
    OperationsAreDone
    OneDrivesTheLine
PROPERTY OperationsEnd
