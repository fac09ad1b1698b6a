SPECIFICATION Spec
CONSTANTS
    sm_num = 2
    grid_size = 3
    max_blocks = 1
    WarpIds <- Two
    m_insts <- Overwrite
    num_units <- OneLds
    ldst_unit_latency = 1
    num_warp_schedulers_per_SM = 1
    EarlyReturns = FALSE
    Lag = 18
    INT_MAX = INT_MAX
    None = None
CHECK_DEADLOCK FALSE
INVARIANTS
    TypeOK
    BlocksAccounted
    EndsClean
PROPERTY RegistersSettled
