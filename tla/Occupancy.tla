----------------------------- MODULE Occupancy ------------------------------
(***************************************************************************)
(* How many blocks of a kernel run on an SM at a time: max_block_per_sm    *)
(* and the limits it is the minimum of (gpu.cpp).  The code computes with  *)
(* floats; all of them are integers or quotients far below 2^24, and each  *)
(* quotient is rounded at once, so integer arithmetic gives the same.      *)
(***************************************************************************)
EXTENDS Integers

CONSTANTS               \* of gpu.config
    warp_size, smem_allocation_size, max_registers_per_SM,
    max_registers_per_block, register_allocation_size,
    max_active_blocks_per_SM, max_active_threads_per_SM,
    shared_mem_size, num_schedulers

ASSUME OccupancyAssumption ==
    /\ warp_size \in Nat \ {0}
    /\ smem_allocation_size \in Nat \ {0}
    /\ max_registers_per_SM \in Nat
    /\ max_registers_per_block \in Nat \ {0}
    /\ register_allocation_size \in Nat \ {0}
    /\ max_active_blocks_per_SM \in Nat
    /\ max_active_threads_per_SM \in Nat
    /\ shared_mem_size \in Nat
    /\ num_schedulers \in Nat \ {0}

\* kernel_info, what matters of it.
KernelInfo == [m_block_size : Nat \ {0}, m_num_registers : Nat, m_shared_mem_bytes : Nat]

\* gpu.cpp's own ceil and floor: the next multiple of s, up and down.
ceil(x, s)  == s * ((x + s - 1) \div s)
floor(x, s) == s * (x \div s)

least(a, b) == IF a <= b THEN a ELSE b

\* allocated_active_warps_per_block
warps(k) == (k.m_block_size + warp_size - 1) \div warp_size

\* Mutant: registers are not handed out per scheduler.
regs_warps_Whole(k) ==
    max_registers_per_block \div ceil(k.m_num_registers * warp_size, register_allocation_size)

\* allocated_regs_per_sm: the warps whose registers fit, as many for each
\* scheduler.
regs_warps(k) ==
    floor(max_registers_per_block
            \div ceil(k.m_num_registers * warp_size, register_allocation_size),
          num_schedulers)

max_block_limit_by_regs(k) ==
    IF k.m_num_registers = 0 THEN max_active_blocks_per_SM
    ELSE (regs_warps(k) \div warps(k)) * (max_registers_per_SM \div max_registers_per_block)

max_block_limit_by_smem(k) ==
    IF k.m_shared_mem_bytes = 0 THEN max_active_blocks_per_SM
    ELSE shared_mem_size \div ceil(k.m_shared_mem_bytes, smem_allocation_size)

max_block_limit_by_warps(k) ==
    least(max_active_blocks_per_SM,
          (max_active_threads_per_SM \div warp_size) \div warps(k))

max_block_per_sm(k) ==
    least(least(max_block_limit_by_smem(k), max_block_limit_by_regs(k)),
          max_block_limit_by_warps(k))

-----------------------------------------------------------------------------
(* What fits, said without division.  n blocks fit on an SM when there are *)
(* block slots, warp slots, shared memory and registers for all of them.   *)

SlotsFit(k, n) == n <= max_active_blocks_per_SM

\* Every warp of a block takes warp_size threads, the last one too.
WarpsFit(k, n) == n * warps(k) * warp_size <= max_active_threads_per_SM

SmemFit(k, n) ==
    n * ceil(k.m_shared_mem_bytes, smem_allocation_size) <= shared_mem_size

\* One register file: the warps are spread over the schedulers, and each
\* scheduler has its share of the registers for w of them.
FileFit(k, n) ==
    \E w \in 0 .. max_registers_per_block :
        /\ w * num_schedulers * ceil(k.m_num_registers * warp_size, register_allocation_size)
              <= max_registers_per_block
        /\ n * warps(k) <= w * num_schedulers

\* An SM has a number of register files: j blocks in each of them.
RegsFit(k, n) ==
    k.m_num_registers > 0 =>
        \E j \in 0 .. n : /\ FileFit(k, j)
                          /\ n <= j * (max_registers_per_SM \div max_registers_per_block)

Fits(k, n) == SlotsFit(k, n) /\ WarpsFit(k, n) /\ SmemFit(k, n) /\ RegsFit(k, n)
=============================================================================
