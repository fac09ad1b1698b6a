SPECIFICATION Spec
CONSTANTS
    Traces <- Kernels
    sm_num = 2
    max_blocks = 2
    MaxStarts = 3
CHECK_DEADLOCK FALSE
INVARIANTS
    TypeOK
    Paired
    SpawnedPrefix
