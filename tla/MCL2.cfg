SPECIFICATION Spec
CONSTANTS
    MemFetch <- Mixed
    LineAddr = {1, 2, 3}
    Sector = {0, 1}
    m_address <- AddressOf
    m_sector_mask <- SectorOf
    is_write <- WriteOf
    TlbOutcomes <- FirstMisses
    l2_config <- OneSet
    l2_m_mshr_entries = 2
    l2_m_mshr_max_merge = 2
    tlb_hit_l2_hit_latency = 1
    tlb_miss_l2_write_hit_latency = 3
    tlb_hit_l2_miss_latency = 3
    tlb_miss_l2_miss_latency = 8
    dram_latency = 2
VIEW Shape
CHECK_DEADLOCK FALSE
INVARIANTS
    TypeOK
    ExactlyOnce
    MshrCovered
    MshrBounded
    UniqueLine
PROPERTIES
    FillStays
