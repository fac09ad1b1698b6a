SPECIFICATION LoopSpec
CONSTANTS
    n_shader = 2
    n_mem = 2
    in_buffer_limit = 1
    out_buffer_limit = 2
    MemFetch = {a}
INVARIANT LoopAgrees
