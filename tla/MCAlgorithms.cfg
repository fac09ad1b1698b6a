SPECIFICATION Spec
CONSTANTS
    Files <- ShortFiles
    Kernels <- SmallKernels
    Accesses <- FewThreads
    n_shader = 68
    n_mem = 44
    MaxLine = 11264
    warp_size = 2
    smem_allocation_size = 4
    max_registers_per_SM = 64
    max_registers_per_block = 32
    register_allocation_size = 4
    max_active_blocks_per_SM = 5
    max_active_threads_per_SM = 21
    shared_mem_size = 25
    num_schedulers = 2
CHECK_DEADLOCK FALSE
INVARIANTS
    ConfigAsWritten
    OccupancyExact
    RoutedToSlice
    SliceUsesAllSets
    StridesSpread
