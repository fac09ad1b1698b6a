SPECIFICATION Spec
CONSTANTS
    None = None
    Sm = {0, 1}
    Inst = {1, 2, 3, 4, 5}
    m_coalesced_address <- Coalesced
    MemFetch = {1, 2, 3, 4, 5, 6, 7, 8, 9}
    LineAddr = {1, 2, 3}
    Sector = {0, 1}
    m_address <- AddressOf
    m_sector_mask <- SectorOf
    is_write <- WriteOf
    m_sm_id <- SmOf
    AddrSpace = 16
    tlb_size = 1
    tlb_start = 15
    n_lds_units = 1
    ldst_unit_latency = 1
    num_warp_schedulers_per_SM = 1
    l1_config <- OneWay
    l1_m_write_policy = "LOCAL_WB_GLOBAL_WT"
    l1_m_mshr_entries = 1
    l1_m_mshr_max_merge = 2
    l1_hit_latency = 1
    l2_config <- TwoWays
    l2_m_mshr_entries = 1
    l2_m_mshr_max_merge = 2
    tlb_hit_l2_hit_latency = 1
    tlb_miss_l2_write_hit_latency = 3
    tlb_hit_l2_miss_latency = 2
    tlb_miss_l2_miss_latency = 4
    dram_latency = 60
    in_buffer_limit = 1
    out_buffer_limit = 1
    MaxHolds = 1
CHECK_DEADLOCK FALSE
INVARIANTS
    OnceBelow
    EndQuiet
    DramDone
PROPERTIES
    ImplementsServer
    KernelEnds
