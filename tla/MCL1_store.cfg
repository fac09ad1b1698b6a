SPECIFICATION Spec
CONSTANTS
    None = None
    sm = 0
    Sm = {0}
    Inst <- Mixed
    m_coalesced_address <- Coalesced
    MemFetch <- AllRequests
    LineAddr = {1, 2, 3}
    Sector = {0, 1}
    m_address <- AddressOf
    m_sector_mask <- SectorOf
    is_write <- WriteOf
    m_sm_id <- SmOf
    AddrSpace = 16
    tlb_size = 1
    tlb_start = 15
    n_lds_units = 1
    ldst_unit_latency = 1
    l1_config <- TwoWays
    l1_m_write_policy = "LOCAL_WB_GLOBAL_WT"
    l1_m_mshr_entries = 1
    l1_m_mshr_max_merge = 2
    l1_hit_latency = 2
    num_warp_schedulers_per_SM = 1
VIEW Shape
CHECK_DEADLOCK FALSE
INVARIANTS
    WrittenThrough
