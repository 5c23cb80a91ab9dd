SPECIFICATION FairSpec
CONSTANTS
    DQS_WIDTH = 2
    DQ_PER_DQS = 3
    IO_DQS_EN_PHASE_MAX = 3
    IO_DQS_EN_DELAY_MAX = 7
    IO_DQS_IN_DELAY_MAX = 7
    IO_IO_IN_DELAY_MAX = 7
    IO_IO_OUT1_DELAY_MAX = 7
    IO_DQS_IN_RESERVE = 1
    IO_DQS_OUT_RESERVE = 1
    VFIFO_SIZE = 4
    IO_DELAY_PER_OPA_TAP = 5
    IO_DELAY_PER_DQS_EN_DCHAIN_TAP = 2
    LOOP = 256
    WORD = 1000
    MAX_LATENCY = 31
    ChainAtPowerUp <- MCChain
    Boards <- MCBoards
INVARIANTS
    TypeOK
    SuccessWorks
    CalibratablePasses
    EnableCentred
    MemoryRules
PROPERTIES
    GroupsApart
    Ends
