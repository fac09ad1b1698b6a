SPECIFICATION Spec
CONSTANTS
    n_shader = 2
    n_mem = 2
    in_buffer_limit = 1
    out_buffer_limit = 1
    MemFetch <- Contention
    m_sm_id <- SmOf
    m_sub_partition <- MemOf
INVARIANTS
    TypeOK
    ReqInBufferBound
    OneFlitPerOutput
    BoundedWait
PROPERTIES
    ImplementsFifo
    EventuallyAnswered
