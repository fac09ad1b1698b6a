SPECIFICATION Spec
CONSTANTS
    sm_num = 1
    grid_size = 2
    max_blocks = 2
    WarpIds <- One
    m_insts <- Competing
    num_units <- TwoLds
    ldst_unit_latency = 1
    num_warp_schedulers_per_SM = 2
    EarlyReturns = TRUE
    Lag = 6
    INT_MAX = INT_MAX
    None = None
CHECK_DEADLOCK FALSE
INVARIANTS
    RequestsHaveBlocks
PROPERTIES
    InactiveForever
    RegistersSettled
    KernelEnds
