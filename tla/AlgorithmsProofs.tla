-------------------------- MODULE AlgorithmsProofs --------------------------
(***************************************************************************)
(* The occupancy of an SM is exact for every configuration and kernel, and *)
(* the slice of a request is a slice and that of its line for every        *)
(* address; the requests of a warp serve every thread once and reach a     *)
(* slice; the reader of configuration files leaves what the file says.     *)
(* The limits of module Occupancy are quotients of quotients; the one fact *)
(* they rest on is that k <= n \div d says k * d <= n.                     *)
(***************************************************************************)
EXTENDS Algorithms, CommonLemmas

\* Division with remainder.
LEMMA DivMod ==
    ASSUME NEW n \in Nat, NEW d \in Nat \ {0}
    PROVE  /\ n \div d \in Nat
           /\ d * (n \div d) <= n
           /\ n < d * (n \div d) + d
  OBVIOUS

LEMMA MulMono ==
    ASSUME NEW a \in Nat, NEW b \in Nat, NEW d \in Nat, a <= b
    PROVE  a * d <= b * d
  OBVIOUS

\* The quotient is the greatest number whose product fits.
LEMMA DivLe ==
    ASSUME NEW n \in Nat, NEW d \in Nat \ {0}, NEW k \in Nat
    PROVE  k * d <= n <=> k <= n \div d
<1>1. n \div d \in Nat /\ d * (n \div d) <= n /\ n < d * (n \div d) + d
  BY DivMod
<1>2. ASSUME k <= n \div d PROVE k * d <= n
  <2>1. k * d <= (n \div d) * d
    BY <1>1, <1>2, MulMono
  <2> QED BY <1>1, <2>1
<1>3. ASSUME ~(k <= n \div d) PROVE ~(k * d <= n)
  <2>1. (n \div d) + 1 <= k
    BY <1>1, <1>3
  <2>2. ((n \div d) + 1) * d <= k * d
    BY <1>1, <2>1, MulMono
  <2> QED BY <1>1, <2>2
<1> QED BY <1>2, <1>3

\* What ceil returns is a number, and not zero unless x is.
LEMMA CeilType ==
    ASSUME NEW x \in Nat, NEW s \in Nat \ {0}
    PROVE  /\ ceil(x, s) \in Nat
           /\ x > 0 => ceil(x, s) > 0
<1>1. x + s - 1 \in Nat
  OBVIOUS
<1>2. (x + s - 1) \div s \in Nat /\ x + s - 1 < s * ((x + s - 1) \div s) + s
  BY <1>1, DivMod
<1> DEFINE q == (x + s - 1) \div s
<1>3. q \in Nat /\ x + s - 1 < s * q + s
  BY <1>2
<1>4. s * q \in Nat
  BY <1>3
<1>5. x > 0 => s * q > 0
  BY <1>3, <1>4
<1> HIDE DEF q
<1>6. ceil(x, s) = s * q
  BY DEF ceil, q
<1> QED BY <1>4, <1>5, <1>6

LEMMA WarpsType ==
    ASSUME NEW k \in KernelInfo
    PROVE  warps(k) \in Nat \ {0}
<1>1. k.m_block_size \in Nat \ {0} /\ warp_size \in Nat \ {0}
  BY OccupancyAssumption DEF KernelInfo
<1> DEFINE x == k.m_block_size + warp_size - 1
<1>2. x \in Nat /\ x >= warp_size
  BY <1>1
<1> HIDE DEF x
<1>3. x \div warp_size \in Nat /\ x < warp_size * (x \div warp_size) + warp_size
  BY <1>1, <1>2, DivMod
<1>4. x \div warp_size # 0
  BY <1>1, <1>2, <1>3
<1> QED BY <1>3, <1>4 DEF warps, x

\* The warp slots.
LEMMA WarpsExact ==
    ASSUME NEW k \in KernelInfo, NEW n \in Nat
    PROVE  WarpsFit(k, n) <=> n <= (max_active_threads_per_SM \div warp_size) \div warps(k)
<1>1. warps(k) \in Nat \ {0}
  BY WarpsType
<1>2. n * warps(k) \in Nat
  BY <1>1
<1>3. (n * warps(k)) * warp_size <= max_active_threads_per_SM
        <=> n * warps(k) <= max_active_threads_per_SM \div warp_size
  BY <1>2, DivLe, OccupancyAssumption
<1>4. max_active_threads_per_SM \div warp_size \in Nat
  BY DivMod, OccupancyAssumption
<1>5. n * warps(k) <= max_active_threads_per_SM \div warp_size
        <=> n <= (max_active_threads_per_SM \div warp_size) \div warps(k)
  BY <1>1, <1>4, DivLe
<1> QED BY <1>3, <1>5 DEF WarpsFit

\* Shared memory; a kernel without any is limited by the block slots only.
LEMMA SmemExact ==
    ASSUME NEW k \in KernelInfo, NEW n \in Nat
    PROVE  SlotsFit(k, n) /\ SmemFit(k, n)
             <=> SlotsFit(k, n) /\ n <= max_block_limit_by_smem(k)
<1> DEFINE c == ceil(k.m_shared_mem_bytes, smem_allocation_size)
<1>1. k.m_shared_mem_bytes \in Nat
  BY DEF KernelInfo
<1>2. c \in Nat /\ (k.m_shared_mem_bytes > 0 => c > 0)
  BY <1>1, CeilType, OccupancyAssumption
<1>3. CASE k.m_shared_mem_bytes = 0
  <2>1. c = 0
    <3>1. smem_allocation_size \in Nat \ {0}
      BY OccupancyAssumption
    <3> DEFINE y == smem_allocation_size - 1
    <3>2. y \in Nat /\ y < smem_allocation_size
      BY <3>1
    <3> HIDE DEF y
    <3>3. y \div smem_allocation_size \in Nat /\ smem_allocation_size * (y \div smem_allocation_size) <= y
      BY <3>1, <3>2, DivMod
    <3>4. y \div smem_allocation_size = 0
      BY <3>1, <3>2, <3>3
    <3>5. 0 + smem_allocation_size - 1 = y
      BY <3>1 DEF y
    <3>6. c = smem_allocation_size * (y \div smem_allocation_size)
      BY <1>3, <3>5 DEF ceil
    <3> QED BY <3>1, <3>4, <3>6
  <2>2. SmemFit(k, n)
    BY <2>1, OccupancyAssumption DEF SmemFit
  <2>3. max_block_limit_by_smem(k) = max_active_blocks_per_SM
    BY <1>3 DEF max_block_limit_by_smem
  <2> QED BY <2>2, <2>3 DEF SlotsFit
<1>4. CASE k.m_shared_mem_bytes # 0
  <2>1. c \in Nat \ {0}
    BY <1>1, <1>2, <1>4
  <2> HIDE DEF c
  <2>2. n * c <= shared_mem_size <=> n <= shared_mem_size \div c
    BY <2>1, DivLe, OccupancyAssumption
  <2> QED BY <1>4, <2>2 DEF SmemFit, max_block_limit_by_smem, c
<1> QED BY <1>3, <1>4

\* The warps whose registers fit are a number.
LEMMA FileType ==
    ASSUME NEW k \in KernelInfo, k.m_num_registers > 0
    PROVE  regs_warps(k) \div warps(k) \in Nat
<1>1. ceil(k.m_num_registers * warp_size, register_allocation_size) \in Nat \ {0}
  <2>1. k.m_num_registers \in Nat \ {0} /\ warp_size \in Nat \ {0}
    BY OccupancyAssumption DEF KernelInfo
  <2>2. k.m_num_registers * warp_size \in Nat /\ k.m_num_registers * warp_size > 0
    BY <2>1
  <2> QED BY <2>2, CeilType, OccupancyAssumption
<1> DEFINE q == max_registers_per_block
                  \div ceil(k.m_num_registers * warp_size, register_allocation_size)
<1>2. q \in Nat
  BY <1>1, DivMod, OccupancyAssumption
<1> HIDE DEF q
<1>3. q \div num_schedulers \in Nat
  BY <1>2, DivMod, OccupancyAssumption
<1>4. num_schedulers * (q \div num_schedulers) \in Nat
  BY <1>3, OccupancyAssumption
<1>5. regs_warps(k) \in Nat
  BY <1>4 DEF regs_warps, floor, q
<1> QED BY <1>5, DivMod, WarpsType

\* One register file: the best number of warps for a scheduler is the
\* quotient of quotients in regs_warps.
LEMMA FileExact ==
    ASSUME NEW k \in KernelInfo, k.m_num_registers > 0, NEW j \in Nat
    PROVE  FileFit(k, j) <=> j <= regs_warps(k) \div warps(k)
<1> DEFINE c == ceil(k.m_num_registers * warp_size, register_allocation_size)
           R == max_registers_per_block
           s == num_schedulers
           q == R \div c
           w == q \div s
<1>1. R \in Nat \ {0} /\ s \in Nat \ {0} /\ warps(k) \in Nat \ {0}
  BY WarpsType, OccupancyAssumption
<1>2. c \in Nat \ {0}
  <2>1. k.m_num_registers \in Nat \ {0} /\ warp_size \in Nat \ {0}
    BY OccupancyAssumption DEF KernelInfo
  <2>2. k.m_num_registers * warp_size \in Nat /\ k.m_num_registers * warp_size > 0
    BY <2>1
  <2> QED BY <2>2, CeilType, OccupancyAssumption
<1> HIDE DEF c, R, s
<1>3. q \in Nat
  BY <1>1, <1>2, DivMod
<1> HIDE DEF q
<1>4. w \in Nat
  BY <1>1, <1>3, DivMod
<1>5. regs_warps(k) = s * w
  BY DEF regs_warps, floor, c, R, s, q
<1>6. FileFit(k, j) <=> \E v \in 0 .. R : v * s * c <= R /\ j * warps(k) <= v * s
  BY DEF FileFit, c, R, s
<1>7. \A v \in Nat : v * s * c <= R <=> v <= w
  <2> SUFFICES ASSUME NEW v \in Nat PROVE v * s * c <= R <=> v <= w
    OBVIOUS
  <2>1. v * s \in Nat
    BY <1>1
  <2>2. (v * s) * c <= R <=> v * s <= q
    BY <1>1, <1>2, <2>1, DivLe DEF q
  <2>3. v * s <= q <=> v <= w
    BY <1>1, <1>3, DivLe
  <2> QED BY <2>2, <2>3
<1> HIDE DEF w
<1>8. s * w = w * s /\ w * s \in Nat
  BY <1>1, <1>4
<1>9. j * warps(k) <= w * s <=> j <= regs_warps(k) \div warps(k)
  BY <1>1, <1>5, <1>8, DivLe
<1>10. ASSUME FileFit(k, j) PROVE j * warps(k) <= w * s
  <2>1. PICK v \in 0 .. R : v * s * c <= R /\ j * warps(k) <= v * s
    BY <1>6, <1>10
  <2>2. v <= w
    BY <1>1, <1>7, <2>1
  <2>3. v \in Nat /\ v * s <= w * s
    BY <1>1, <1>4, <2>1, <2>2, MulMono
  <2>4. v * s \in Nat /\ j * warps(k) \in Nat
    BY <1>1, <2>3
  <2> QED BY <1>8, <2>1, <2>3, <2>4
<1>11. ASSUME j * warps(k) <= w * s PROVE FileFit(k, j)
  <2>1. w * s * c <= R
    BY <1>4, <1>7
  <2>2. w <= w * s
    BY <1>1, <1>4
  <2>3. w * s <= (w * s) * c
    BY <1>2, <1>8
  <2>4. w \in 0 .. R
    BY <1>1, <1>2, <1>4, <1>8, <2>1, <2>2, <2>3
  <2> QED BY <1>6, <1>11, <2>1, <2>4
<1> QED BY <1>9, <1>10, <1>11

\* All register files of an SM.
LEMMA RegsExact ==
    ASSUME NEW k \in KernelInfo, NEW n \in Nat
    PROVE  SlotsFit(k, n) /\ RegsFit(k, n)
             <=> SlotsFit(k, n) /\ n <= max_block_limit_by_regs(k)
<1> DEFINE p == max_registers_per_SM \div max_registers_per_block
           J == regs_warps(k) \div warps(k)
<1>0. p \in Nat
  BY DivMod, OccupancyAssumption
<1>1. CASE k.m_num_registers = 0
  BY <1>1 DEF RegsFit, SlotsFit, max_block_limit_by_regs
<1>2. CASE k.m_num_registers # 0
  <2>1. k.m_num_registers > 0
    BY <1>2 DEF KernelInfo
  <2>2. J \in Nat
    BY <2>1, FileType
  <2>3. max_block_limit_by_regs(k) = J * p
    BY <1>2 DEF max_block_limit_by_regs
  <2>4. RegsFit(k, n) <=> \E j \in 0 .. n : FileFit(k, j) /\ n <= j * p
    BY <2>1 DEF RegsFit
  <2>5. \A j \in Nat : FileFit(k, j) <=> j <= J
    BY <2>1, FileExact
  <2> HIDE DEF p, J
  <2>6. ASSUME NEW j \in 0 .. n, FileFit(k, j), n <= j * p PROVE n <= J * p
    <3>1. j \in Nat /\ j <= J
      BY <2>5, <2>6
    <3>2. j * p <= J * p /\ j * p \in Nat /\ J * p \in Nat
      BY <1>0, <2>2, <3>1, MulMono
    <3> QED BY <2>6, <3>2
  <2>7. ASSUME n <= J * p PROVE \E j \in 0 .. n : FileFit(k, j) /\ n <= j * p
    <3>1. CASE J <= n
      <4>1. J \in 0 .. n /\ FileFit(k, J)
        BY <2>2, <2>5, <3>1
      <4> QED BY <2>7, <4>1
    <3>2. CASE ~(J <= n)
      <4>1. n \in 0 .. n /\ FileFit(k, n)
        BY <2>2, <2>5, <3>2
      <4>2. n <= n * p
        <5>1. CASE p = 0
          BY <1>0, <2>2, <2>7, <5>1
        <5>2. CASE p > 0
          <6>1. 1 * n <= p * n
            BY <1>0, <5>2, MulMono
          <6> QED BY <1>0, <6>1
        <5> QED BY <1>0, <5>1, <5>2
      <4> QED BY <4>1, <4>2
    <3> QED BY <3>1, <3>2
  <2> QED BY <2>3, <2>4, <2>6, <2>7
<1> QED BY <1>1, <1>2

\* The limits are numbers.
LEMMA LimitsType ==
    ASSUME NEW k \in KernelInfo
    PROVE  /\ max_block_limit_by_smem(k) \in Nat
           /\ max_block_limit_by_regs(k) \in Nat
           /\ (max_active_threads_per_SM \div warp_size) \div warps(k) \in Nat
<1>1. max_block_limit_by_smem(k) \in Nat
  <2>1. k.m_shared_mem_bytes \in Nat
    BY DEF KernelInfo
  <2>2. /\ ceil(k.m_shared_mem_bytes, smem_allocation_size) \in Nat
        /\ k.m_shared_mem_bytes > 0 => ceil(k.m_shared_mem_bytes, smem_allocation_size) > 0
    BY <2>1, CeilType, OccupancyAssumption
  <2>3. CASE k.m_shared_mem_bytes = 0
    BY <2>3, OccupancyAssumption DEF max_block_limit_by_smem
  <2>4. CASE k.m_shared_mem_bytes # 0
    <3>1. ceil(k.m_shared_mem_bytes, smem_allocation_size) \in Nat \ {0}
      BY <2>1, <2>2, <2>4
    <3> QED BY <2>4, <3>1, DivMod, OccupancyAssumption DEF max_block_limit_by_smem
  <2> QED BY <2>3, <2>4
<1>2. max_block_limit_by_regs(k) \in Nat
  <2>1. CASE k.m_num_registers = 0
    BY <2>1, OccupancyAssumption DEF max_block_limit_by_regs
  <2>2. CASE k.m_num_registers # 0
    <3>1. k.m_num_registers > 0
      BY <2>2 DEF KernelInfo
    <3>2. regs_warps(k) \div warps(k) \in Nat
      BY <3>1, FileType
    <3>3. max_registers_per_SM \div max_registers_per_block \in Nat
      BY DivMod, OccupancyAssumption
    <3> QED BY <2>2, <3>2, <3>3 DEF max_block_limit_by_regs
  <2> QED BY <2>1, <2>2
<1>3. (max_active_threads_per_SM \div warp_size) \div warps(k) \in Nat
  <2>1. max_active_threads_per_SM \div warp_size \in Nat
    BY DivMod, OccupancyAssumption
  <2> QED BY <2>1, DivMod, WarpsType
<1> QED BY <1>1, <1>2, <1>3

\* max_block_per_sm is exact: n blocks of a kernel fit on an SM, in slots,
\* warps, shared memory and registers, just when n is no more than it.
THEOREM OccupancyIsExact ==
    \A k \in KernelInfo, n \in Nat : Fits(k, n) <=> n <= max_block_per_sm(k)
<1> SUFFICES ASSUME NEW k \in KernelInfo, NEW n \in Nat
             PROVE  Fits(k, n) <=> n <= max_block_per_sm(k)
  OBVIOUS
<1>1. SlotsFit(k, n) /\ SmemFit(k, n) <=> SlotsFit(k, n) /\ n <= max_block_limit_by_smem(k)
  BY SmemExact
<1>2. SlotsFit(k, n) /\ RegsFit(k, n) <=> SlotsFit(k, n) /\ n <= max_block_limit_by_regs(k)
  BY RegsExact
<1>3. SlotsFit(k, n) /\ WarpsFit(k, n) <=> n <= max_block_limit_by_warps(k)
  BY WarpsExact, LimitsType, OccupancyAssumption DEF SlotsFit, max_block_limit_by_warps, least
<1>4. n <= max_block_limit_by_warps(k) => SlotsFit(k, n)
  BY <1>3
<1>5. n <= max_block_per_sm(k)
        <=> /\ n <= max_block_limit_by_smem(k)
            /\ n <= max_block_limit_by_regs(k)
            /\ n <= max_block_limit_by_warps(k)
  <2>1. max_block_limit_by_warps(k) \in Nat
    BY LimitsType, OccupancyAssumption DEF max_block_limit_by_warps, least
  <2> QED BY <2>1, LimitsType DEF max_block_per_sm, least
<1> QED BY <1>1, <1>2, <1>3, <1>4, <1>5 DEF Fits

-----------------------------------------------------------------------------
\* The inductive invariant: the task is one of Tasks, and its result is what
\* the step has computed.
OccupancyInv ==
    /\ task \in Tasks
    /\ Done("occupancy") => result = max_block_per_sm(task[2])

LEMMA OccupancyTask ==
    ASSUME task \in Tasks, task[1] = "occupancy"
    PROVE  task[2] \in KernelInfo
<1>1. task \in {"occupancy"} \X Kernels
  BY DEF Tasks
<1> QED BY <1>1, AlgorithmsAssumption

\* The simulator computes the occupancy exactly, whatever the kernel and the
\* configuration.
THEOREM OccupancyCorrect == Spec => []OccupancyExact
<1>1. Init => OccupancyInv
  BY DEF Init, OccupancyInv, Done
<1>2. OccupancyInv /\ [Next]_vars => OccupancyInv'
  <2> SUFFICES ASSUME OccupancyInv, [Next]_vars PROVE OccupancyInv'
    OBVIOUS
  <2>1. CASE UNCHANGED vars
    BY <2>1 DEF OccupancyInv, vars, Done
  <2>2. CASE Occupy
    BY <2>2 DEF OccupancyInv, Occupy, Do, Done
  <2>3. CASE ReadConfig
    BY <2>3 DEF OccupancyInv, ReadConfig, Do, Done
  <2>4. CASE MakeRequests
    BY <2>4 DEF OccupancyInv, MakeRequests, Do, Done
  <2>5. CASE UseSlice
    BY <2>5 DEF OccupancyInv, UseSlice, Do, Done
  <2>6. CASE Stride
    BY <2>6 DEF OccupancyInv, Stride, Do, Done
  <2> QED BY <2>1, <2>2, <2>3, <2>4, <2>5, <2>6 DEF Next
<1>3. OccupancyInv => OccupancyExact
  <2> SUFFICES ASSUME OccupancyInv, Done("occupancy"),
                      NEW n \in 0 .. max_active_blocks_per_SM + 1
               PROVE  Fits(task[2], n) <=> n <= result
    BY DEF OccupancyExact
  <2>1. task[2] \in KernelInfo
    BY OccupancyTask DEF OccupancyInv, Done
  <2>2. n \in Nat
    BY OccupancyAssumption
  <2>3. Fits(task[2], n) <=> n <= max_block_per_sm(task[2])
    BY <2>1, <2>2, OccupancyIsExact
  <2> QED BY <2>3 DEF OccupancyInv
<1> QED BY <1>1, <1>2, <1>3, PTL DEF Spec

-----------------------------------------------------------------------------
\* Whatever the address, its slice is one of the 44 devices that follow the
\* 68 SMs of gpu.config.
THEOREM SliceInRange ==
    \A addr \in Nat : get_mem_sub_partition_id(addr) \in 68 .. 111
<1> SUFFICES ASSUME NEW addr \in Nat PROVE get_mem_sub_partition_id(addr) \in 68 .. 111
  OBVIOUS
<1> DEFINE chip == (addr \div 2^10) % 22
           half == ((addr \div 2^8) % 4) % 2
<1>1. 2^10 \in Nat \ {0} /\ 2^8 \in Nat \ {0}
  OBVIOUS
<1>2. addr \div 2^10 \in Nat /\ addr \div 2^8 \in Nat
  BY <1>1, DivMod
<1>3. chip \in 0 .. 21 /\ half \in 0 .. 1
  BY <1>2
<1>4. get_mem_sub_partition_id(addr) = chip * 2 + half + 68
  BY DEF get_mem_sub_partition_id
<1> HIDE DEF chip, half
<1> QED BY <1>3, <1>4

\* All sectors of a line have one slice.
THEOREM LineOnOneSlice ==
    \A line \in Nat, sector \in 0 .. 3 :
        get_mem_sub_partition_id(m_sector_address(<<line_size * line, sector>>))
          = get_mem_sub_partition_id(line_size * line)
<1> SUFFICES ASSUME NEW line \in Nat, NEW sector \in 0 .. 3
             PROVE  get_mem_sub_partition_id(m_sector_address(<<line_size * line, sector>>))
                      = get_mem_sub_partition_id(line_size * line)
  OBVIOUS
<1> DEFINE x == 128 * line
           y == 128 * line + sector * 32
<1>1. x \in Nat /\ y \in Nat
  OBVIOUS
<1>2. x \div 256 = y \div 256 /\ x \div 1024 = y \div 1024
  OBVIOUS
<1>3. 2^8 = 256 /\ 2^10 = 1024
  OBVIOUS
<1>4. line_size * line = x /\ m_sector_address(<<line_size * line, sector>>) = y
  BY DEF line_size, m_sector_address, SECTOR_SIZE
<1> HIDE DEF x, y
<1> QED BY <1>2, <1>3, <1>4 DEF get_mem_sub_partition_id

-----------------------------------------------------------------------------
(* The requests of a warp.                                                 *)

Request(a) == <<LineOf(a), SectorIn(a)>>
RequestSet == {<<128 * q, x>> : q \in Nat, x \in 0 .. 3}

\* The list for the first k threads.
Collected(addresses, list, k) ==
    /\ list \in Seq(RequestSet)
    /\ Distinct(list)
    /\ Within(list) = {Request(addresses[i]) : i \in 1 .. k}

\* The request of an address is the one whose sector holds it.
LEMMA RequestHolds ==
    ASSUME NEW a \in Nat
    PROVE  /\ Request(a) \in RequestSet
           /\ \A r \in RequestSet :
                 m_sector_address(r) <= a /\ a < m_sector_address(r) + SECTOR_SIZE <=> r = Request(a)
<1> DEFINE q == a \div 128
           y == a - 128 * q
           x == y \div 32
<1>1. q \in Nat /\ 128 * q <= a /\ a < 128 * q + 128
  BY DivMod
<1>2. y \in Nat /\ y < 128 /\ a = 128 * q + y
  BY <1>1
<1>3. x \in Nat /\ 32 * x <= y /\ y < 32 * x + 32
  <2> HIDE DEF y
  <2> QED BY <1>2, DivMod
<1>4. Request(a) = <<128 * q, x>>
  BY DEF Request, LineOf, SectorIn, line_size, SECTOR_SIZE
<1> HIDE DEF q, x, y
<1>5. x \in 0 .. 3
  BY <1>2, <1>3
<1>6. ASSUME NEW p \in Nat, NEW z \in 0 .. 3
      PROVE  128 * p + z * 32 <= a /\ a < 128 * p + z * 32 + 32 <=> p = q /\ z = x
  BY <1>1, <1>2, <1>3, <1>5, <1>6
<1>7. ASSUME NEW r \in RequestSet
      PROVE  m_sector_address(r) <= a /\ a < m_sector_address(r) + SECTOR_SIZE <=> r = Request(a)
  <2>1. PICK p \in Nat, z \in 0 .. 3 : r = <<128 * p, z>>
    BY DEF RequestSet
  <2>2. m_sector_address(r) = 128 * p + z * 32
    BY <2>1 DEF m_sector_address, SECTOR_SIZE
  <2>3. r = Request(a) <=> p = q /\ z = x
    BY <1>1, <1>4, <2>1
  <2> QED BY <1>6, <2>2, <2>3 DEF SECTOR_SIZE
<1> QED BY <1>1, <1>4, <1>5, <1>7 DEF RequestSet

\* One more thread.
LEMMA CollectOne ==
    ASSUME NEW addresses, NEW k \in Nat \ {0}, addresses[k] \in Nat,
           NEW list, Collected(addresses, list, k - 1)
    PROVE  Collected(addresses, Coalesce(list, addresses[k]), k)
<1> DEFINE r == Request(addresses[k])
<1>1. r \in RequestSet
  BY RequestHolds
<1>2. Coalesce(list, addresses[k]) = IF r \in Within(list) THEN list ELSE Append(list, r)
  BY DEF Coalesce, Request, Range, Within
<1>3. {Request(addresses[i]) : i \in 1 .. k} = {Request(addresses[i]) : i \in 1 .. k - 1} \cup {r}
  <2>1. 1 .. k = (1 .. k - 1) \cup {k}
    OBVIOUS
  <2> QED BY <2>1
<1> HIDE DEF r
<1>4. CASE r \in Within(list)
  BY <1>2, <1>3, <1>4 DEF Collected
<1>5. CASE r \notin Within(list)
  <2>1. /\ Append(list, r) \in Seq(RequestSet)
        /\ Within(Append(list, r)) = Within(list) \cup {r}
        /\ Distinct(Append(list, r))
    BY <1>1, <1>5, AppendWithin DEF Collected
  <2> QED BY <1>2, <1>3, <1>5, <2>1 DEF Collected
<1> QED BY <1>4, <1>5

\* The fold over all threads.
LEMMA CollectAll ==
    ASSUME NEW addresses \in Seq(Nat)
    PROVE  Collected(addresses, coalesced_address(addresses), Len(addresses))
<1> DEFINE N == Len(addresses)
           S == 1 .. N
           V == Seq(RequestSet)
           Unfolds(g) == g = [s \in SUBSET S |->
                                IF s = {} THEN <<>>
                                ELSE Coalesce(g[s \ {Max(s)}], addresses[Max(s)])]
           iter == CHOOSE g : Unfolds(g)
           step == [i \in S |-> [list \in V |-> Coalesce(list, addresses[i])]]
           pick == [s \in SUBSET S |-> Max(s)]
<1>1. N \in Nat /\ DOMAIN addresses = S /\ \A i \in S : addresses[i] \in Nat
  OBVIOUS
<1>2. coalesced_address(addresses) = iter[S]
  BY <1>1 DEF coalesced_address, FoldLeft, MapThenFoldSet
<1>3. ASSUME NEW i \in S, NEW list \in V PROVE Coalesce(list, addresses[i]) \in V
  <2>1. Request(addresses[i]) \in RequestSet
    BY <1>1, RequestHolds
  <2>2. Append(list, Request(addresses[i])) \in V
    BY <2>1
  <2> QED BY <2>2 DEF Coalesce, Request
<1>4. <<>> \in V
  OBVIOUS
<1>5. ASSUME NEW s \in SUBSET S, s # {} PROVE Max(s) \in s
  BY <1>1, <1>5, FoldIndices
<1>6. IsFiniteSet(S)
  BY <1>1, FoldIndices
<1>7. \E g : Unfolds(g)
  <2>1. Picks(pick, S)
    BY <1>5 DEF Picks
  <2>2. Keeps(step, S, V)
    <3> HIDE DEF V
    <3> QED BY <1>3 DEF Keeps
  <2>3. PICK g \in [SUBSET S -> V] : Folds(g, S, <<>>, pick, step)
    <3> HIDE DEF pick, step, V, S
    <3> QED BY <1>4, <1>6, <2>1, <2>2, FoldExists
  <2>4. ASSUME NEW s \in SUBSET S
        PROVE  g[s] = IF s = {} THEN <<>>
                      ELSE Coalesce(g[s \ {Max(s)}], addresses[Max(s)])
    <3>1. CASE s = {}
      BY <2>3, <3>1 DEF Folds
    <3>2. CASE s # {}
      <4>1. Max(s) \in S /\ pick[s] = Max(s) /\ s \ {Max(s)} \in SUBSET S
        BY <1>5, <3>2
      <4>2. g[s \ {Max(s)}] \in V
        <5> HIDE DEF V
        <5> QED BY <4>1
      <4>3. g[s] = step[Max(s)][g[s \ {Max(s)}]]
        BY <2>3, <3>2, <4>1 DEF Folds
      <4>4. step[Max(s)][g[s \ {Max(s)}]] = Coalesce(g[s \ {Max(s)}], addresses[Max(s)])
        <5> HIDE DEF V
        <5> QED BY <4>1, <4>2
      <4> HIDE DEF step, S
      <4> QED BY <3>2, <4>3, <4>4
    <3> QED BY <3>1, <3>2
  <2>5. g = [s \in SUBSET S |-> IF s = {} THEN <<>>
                                ELSE Coalesce(g[s \ {Max(s)}], addresses[Max(s)])]
    <3> HIDE DEF V, S
    <3> QED BY <2>4
  <2> QED BY <2>5
<1>8. Unfolds(iter)
  <2> HIDE DEF Unfolds
  <2> QED BY <1>7
<1> HIDE DEF iter
<1>9. ASSUME NEW k \in 1 .. N, Collected(addresses, iter[1 .. k - 1], k - 1)
      PROVE  Collected(addresses, iter[1 .. k], k)
  <2>1. 1 .. k \in SUBSET S /\ 1 .. k # {} /\ Max(1 .. k) = k /\ (1 .. k) \ {k} = 1 .. k - 1
    BY <1>1, FoldIndices
  <2>2. iter[1 .. k] = Coalesce(iter[(1 .. k) \ {Max(1 .. k)}], addresses[Max(1 .. k)])
    BY <1>8, <2>1
  <2>3. iter[1 .. k] = Coalesce(iter[1 .. k - 1], addresses[k])
    BY <2>1, <2>2
  <2>4. k \in Nat \ {0} /\ addresses[k] \in Nat
    BY <1>1
  <2> QED BY <1>9, <2>3, <2>4, CollectOne
<1> DEFINE H == {k \in 0 .. N : Collected(addresses, iter[1 .. k], k)}
<1>10. 0 \in H
  <2>1. 1 .. 0 = {} /\ 0 \in 0 .. N
    BY <1>1
  <2>2. iter[1 .. 0] = <<>>
    BY <1>8, <2>1
  <2>3. Distinct(<<>>) /\ Within(<<>>) = {} /\ {Request(addresses[i]) : i \in 1 .. 0} = {}
    BY <2>1 DEF Distinct, Within
  <2>4. <<>> \in Seq(RequestSet)
    OBVIOUS
  <2>5. Collected(addresses, <<>>, 0)
    BY <2>3, <2>4 DEF Collected
  <2>6. Collected(addresses, iter[1 .. 0], 0)
    BY <2>2, <2>5
  <2> QED BY <2>1, <2>6
<1>11. ASSUME NEW k \in 1 .. N, k - 1 \in H PROVE k \in H
  <2>1. k \in 0 .. N
    OBVIOUS
  <2> QED BY <1>9, <1>11, <2>1
<1>12. N \in H
  <2> HIDE DEF H
  <2>1. \A k \in 0 .. N : k \in H
    BY <1>1, <1>10, <1>11, CountUp
  <2> QED BY <1>1, <2>1
<1> QED BY <1>2, <1>12
\* Each thread of a warp is served by exactly one request of the list
\* read_mem makes, for every list of addresses (gpu.cpp, block::read_mem).
THEOREM ServedOnce ==
    ASSUME NEW addresses \in Seq(Nat), NEW a \in Range(addresses)
    PROVE  LET list == coalesced_address(addresses)
           IN  \E k \in DOMAIN list :
                  /\ list[k] = Request(a)
                  /\ {j \in DOMAIN list : /\ m_sector_address(list[j]) <= a
                                          /\ a < m_sector_address(list[j]) + SECTOR_SIZE} = {k}
<1> DEFINE list == coalesced_address(addresses)
<1>1. PICK i \in 1 .. Len(addresses) : a = addresses[i]
  BY DEF Range
<1>2. Collected(addresses, list, Len(addresses))
  BY CollectAll
<1> HIDE DEF list
<1>3. a \in Nat
  BY <1>1
<1>4. PICK k \in DOMAIN list : list[k] = Request(a)
  <2>1. Request(a) \in Within(list)
    BY <1>1, <1>2 DEF Collected
  <2> QED BY <2>1 DEF Within
<1>5. \A j \in DOMAIN list : list[j] \in RequestSet
  BY <1>2 DEF Collected
<1>6. \A j \in DOMAIN list :
         m_sector_address(list[j]) <= a /\ a < m_sector_address(list[j]) + SECTOR_SIZE
           <=> list[j] = Request(a)
  BY <1>3, <1>5, RequestHolds
<1>7. \A j \in DOMAIN list : list[j] = Request(a) <=> j = k
  BY <1>2, <1>4 DEF Collected, Distinct
<1>8. {j \in DOMAIN list : /\ m_sector_address(list[j]) <= a
                           /\ a < m_sector_address(list[j]) + SECTOR_SIZE} = {k}
  BY <1>4, <1>6, <1>7
<1> QED BY <1>4, <1>8 DEF list

\* The slice of a request is one of the slices, and that of its line.
LEMMA RequestSlice ==
    ASSUME NEW a \in Nat, n_shader = 68, n_mem = 44
    PROVE  LET slice == get_mem_sub_partition_id(m_sector_address(Request(a)))
           IN  slice \in n_shader .. n_shader + n_mem - 1 /\ slice = SliceOf(a \div line_size)
<1> DEFINE q == a \div 128
           x == SectorIn(a)
<1>1. q \in Nat
  BY DivMod
<1>2. Request(a) = <<line_size * q, x>>
  BY DEF Request, LineOf, line_size
<1>3. x \in 0 .. 3
  <2>1. PICK p \in Nat, z \in 0 .. 3 : Request(a) = <<128 * p, z>>
    BY RequestHolds DEF RequestSet
  <2> QED BY <1>2, <2>1
<1>4. m_sector_address(Request(a)) \in Nat
  <2> HIDE DEF q, x
  <2> QED BY <1>1, <1>2, <1>3 DEF m_sector_address, line_size, SECTOR_SIZE
<1>5. SliceOf(a \div line_size) = get_mem_sub_partition_id(line_size * q)
  BY DEF SliceOf, line_size
<1> HIDE DEF q, x
<1>6. get_mem_sub_partition_id(m_sector_address(Request(a))) = get_mem_sub_partition_id(line_size * q)
  BY <1>1, <1>2, <1>3, LineOnOneSlice
<1>7. get_mem_sub_partition_id(m_sector_address(Request(a))) \in 68 .. 111
  BY <1>4, SliceInRange
<1> QED BY <1>5, <1>6, <1>7

\* What a behaviour has computed when its task are the requests of a warp.
RequestsInv ==
    /\ task \in Tasks
    /\ Done("requests") => result = coalesced_address(task[2])

LEMMA RequestsTask ==
    ASSUME RequestsInv, task[1] = "requests"
    PROVE  task[2] \in Seq(Nat)
<1>1. task[2] \in Accesses
  BY DEF RequestsInv, Tasks
<1> QED BY <1>1, AlgorithmsAssumption

\* However the threads of a warp share lines and sectors, each is served by
\* exactly one request, and that goes to the L2 slice of its line; for the
\* 68 SMs and 44 slices of gpu.config (gpu.cpp, block::read_mem and
\* mem_fetch::get_mem_sub_partition_id, which has the numbers in it).
THEOREM WarpsRouted ==
    ASSUME n_shader = 68, n_mem = 44
    PROVE  Spec => []RoutedToSlice
<1>1. Init => RequestsInv
  BY DEF Init, RequestsInv, Done
<1>2. RequestsInv /\ [Next]_vars => RequestsInv'
  BY DEF RequestsInv, Next, vars, ReadConfig, Occupy, MakeRequests, UseSlice, Stride, Do, Done
<1>3. RequestsInv => RoutedToSlice
  <2> SUFFICES ASSUME RequestsInv, Done("requests"), NEW a \in Range(task[2])
               PROVE  LET Start(k)  == m_sector_address(result[k])
                          serving   == {k \in DOMAIN result : Start(k) <= a /\ a < Start(k) + SECTOR_SIZE}
                      IN  /\ Cardinality(serving) = 1
                          /\ \A k \in serving :
                                /\ get_mem_sub_partition_id(Start(k)) \in n_shader .. n_shader + n_mem - 1
                                /\ get_mem_sub_partition_id(Start(k)) = SliceOf(a \div line_size)
    BY DEF RoutedToSlice
  <2>1. task[2] \in Seq(Nat) /\ result = coalesced_address(task[2])
    BY RequestsTask DEF RequestsInv, Done
  <2> DEFINE serving == {k \in DOMAIN result : /\ m_sector_address(result[k]) <= a
                                               /\ a < m_sector_address(result[k]) + SECTOR_SIZE}
  <2>2. PICK k \in DOMAIN result : result[k] = Request(a) /\ serving = {k}
    BY <2>1, ServedOnce
  <2>3. Cardinality(serving) = 1
    BY <2>2, FS_Singleton
  <2>4. a \in Nat
    BY <2>1 DEF Range
  <2>5. LET slice == get_mem_sub_partition_id(m_sector_address(Request(a)))
        IN  slice \in n_shader .. n_shader + n_mem - 1 /\ slice = SliceOf(a \div line_size)
    BY <2>4, RequestSlice
  <2> QED BY <2>2, <2>3, <2>5
<1> QED BY <1>1, <1>2, <1>3, PTL DEF Spec

-----------------------------------------------------------------------------
(* Reading a configuration.                                                *)

\* The marks before line k that begin or end a section, and whether the
\* latency table is open there.
Borders(file, k) == {j \in Marks(file) : j < k /\ Closing(file, j)}
TableOpen(file, k) ==
    \E i \in {j \in Marks(file) : j < k /\ file[j].key = IsaTable} :
        \A e \in {j \in Marks(file) : j < k /\ file[j].key = EndMark} : e < i

Sections == Header \cup {Top}

LEMMA SectionFacts ==
    /\ IsaTable \in Header /\ EndMark \notin Header /\ Top \notin Header /\ Failed \notin Header
    /\ EndMark # IsaTable /\ Top # IsaTable /\ Failed # Top /\ Failed # IsaTable
<1>1. /\ DOMAIN SectionNames = 1 .. 5
      /\ SectionNames[1] = "##pipeline_units" /\ SectionNames[2] = "##compute_capability"
      /\ SectionNames[3] = "##l1_cache_config" /\ SectionNames[4] = "##l2_cache_config"
      /\ SectionNames[5] = "##gpu_isa_latency"
  BY DEF SectionNames
<1>2. \A i \in 1 .. 5 : i = 1 \/ i = 2 \/ i = 3 \/ i = 4 \/ i = 5
  OBVIOUS
<1>3. Header = {"##pipeline_units", "##compute_capability", "##l1_cache_config",
                "##l2_cache_config", "##gpu_isa_latency"}
  BY <1>1, <1>2 DEF Header, Range
<1> QED BY <1>3 DEF IsaTable, EndMark, Top, Failed

LastBorder(file, k) == CHOOSE j \in Borders(file, k) : \A i \in Borders(file, k) : i <= j

LEMMA SectionIs ==
    ASSUME NEW file, NEW k
    PROVE  SectionOf(file, k) =
               IF Borders(file, k) = {} THEN Top
               ELSE IF file[LastBorder(file, k)].key = EndMark THEN Top
                    ELSE file[LastBorder(file, k)].key
<1> DEFINE before == {j \in Marks(file) : j < k /\ Closing(file, j)}
           last   == CHOOSE j \in before : \A i \in before : i <= j
<1>1. SectionOf(file, k) = IF before = {} THEN Top
                           ELSE IF file[last].key = EndMark THEN Top ELSE file[last].key
  BY DEF SectionOf
<1>2. Borders(file, k) = before /\ LastBorder(file, k) = last
  BY DEF Borders, LastBorder
<1> HIDE DEF before, last
<1> QED BY <1>1, <1>2

\* A line changes the section of the next one if it is such a mark.
LEMMA SectionNext ==
    ASSUME NEW file \in Seq(FileLines), NEW k \in DOMAIN file
    PROVE  SectionOf(file, k + 1) =
               IF file[k].kind = "mark" /\ Closing(file, k)
               THEN IF file[k].key = EndMark THEN Top ELSE file[k].key
               ELSE SectionOf(file, k)
<1>1. DOMAIN file \subseteq Nat /\ k \in Nat
  OBVIOUS
<1>2. Marks(file) \subseteq Nat
  BY <1>1 DEF Marks
<1>3. CASE file[k].kind = "mark" /\ Closing(file, k)
  <2>1. Borders(file, k + 1) = Borders(file, k) \cup {k}
    BY <1>1, <1>2, <1>3 DEF Borders, Marks
  <2>2. \A i \in Borders(file, k + 1) : i <= k /\ i \in Nat
    BY <1>1, <1>2 DEF Borders
  <2>3. LastBorder(file, k + 1) = k
    <3> DEFINE B == Borders(file, k + 1)
    <3>1. k \in B /\ \A i \in B : i <= k /\ i \in Nat
      BY <2>1, <2>2
    <3> HIDE DEF B
    <3>2. \A j \in B : (\A i \in B : i <= j) => j = k
      BY <3>1
    <3>3. (CHOOSE j \in B : \A i \in B : i <= j) = k
      BY <3>1, <3>2
    <3> QED BY <3>3 DEF B, LastBorder
  <2> QED BY <1>3, <2>1, <2>3, SectionIs
<1>4. CASE ~(file[k].kind = "mark" /\ Closing(file, k))
  <2>1. Borders(file, k + 1) = Borders(file, k)
    BY <1>1, <1>2, <1>4 DEF Borders, Marks
  <2>2. LastBorder(file, k + 1) = LastBorder(file, k)
    BY <2>1 DEF LastBorder
  <2> QED BY <1>4, <2>1, <2>2, SectionIs
<1> QED BY <1>3, <1>4

LEMMA SectionFirst ==
    ASSUME NEW file \in Seq(FileLines)
    PROVE  SectionOf(file, 1) = Top /\ ~TableOpen(file, 1)
<1>1. \A j \in Marks(file) : j \in Nat /\ 1 <= j
  BY DEF Marks
<1>2. Borders(file, 1) = {}
  BY <1>1 DEF Borders
<1> QED BY <1>1, <1>2, SectionIs DEF TableOpen

\* What Closing asks about the lines before is the section there.
LEMMA ClosingIs ==
    ASSUME NEW file, NEW j
    PROVE  Closing(file, j) <=> \/ file[j].key = EndMark
                                \/ file[j].key \in Header /\ ~TableOpen(file, j)
  BY DEF Closing, TableOpen

LEMMA TableNext ==
    ASSUME NEW file \in Seq(FileLines), NEW k \in DOMAIN file
    PROVE  TableOpen(file, k + 1) <=>
               IF file[k].kind = "mark" /\ file[k].key = IsaTable THEN TRUE
               ELSE IF file[k].kind = "mark" /\ file[k].key = EndMark THEN FALSE
               ELSE TableOpen(file, k)
<1> DEFINE Isas(n) == {j \in Marks(file) : j < n /\ file[j].key = IsaTable}
           Ends(n) == {j \in Marks(file) : j < n /\ file[j].key = EndMark}
<1>1. k \in Nat /\ \A j \in Marks(file) : j \in Nat
  BY DEF Marks
<1>2. \A n : TableOpen(file, n) <=> \E i \in Isas(n) : \A e \in Ends(n) : e < i
  BY DEF TableOpen
<1>3. CASE file[k].kind = "mark" /\ file[k].key = IsaTable
  <2>1. k \in Isas(k + 1) /\ \A e \in Ends(k + 1) : e < k
    BY <1>1, <1>3, SectionFacts DEF Marks
  <2> QED BY <1>2, <1>3, <2>1
<1>4. CASE file[k].kind = "mark" /\ file[k].key = EndMark
  <2>1. k \in Ends(k + 1) /\ \A i \in Isas(k + 1) : ~(k < i)
    BY <1>1, <1>4 DEF Marks
  <2> QED BY <1>2, <1>4, <2>1, SectionFacts
<1>5. CASE ~(file[k].kind = "mark" /\ file[k].key \in {IsaTable, EndMark})
  <2>1. Isas(k + 1) = Isas(k) /\ Ends(k + 1) = Ends(k)
    BY <1>1, <1>5 DEF Marks
  <2> QED BY <1>2, <1>5, <2>1
<1> QED BY <1>3, <1>4, <1>5

LEMMA TableIs ==
    ASSUME NEW file \in Seq(FileLines), NEW k \in 1 .. Len(file) + 1
    PROVE  TableOpen(file, k) <=> SectionOf(file, k) = IsaTable
<1> DEFINE Right(j) == TableOpen(file, j) <=> SectionOf(file, j) = IsaTable
           H == {j \in 0 .. Len(file) : Right(j + 1)}
<1>1. 0 \in H
  BY SectionFirst, SectionFacts
<1>2. ASSUME NEW j \in 1 .. Len(file), j - 1 \in H PROVE j \in H
  <2>1. Right(j) /\ j \in DOMAIN file
    BY <1>2
  <2>2. Right(j + 1)
    <3>1. CASE file[j].kind = "mark" /\ Closing(file, j)
      BY <2>1, <3>1, SectionNext, TableNext, ClosingIs, SectionFacts
    <3>2. CASE ~(file[j].kind = "mark" /\ Closing(file, j))
      BY <2>1, <3>2, SectionNext, TableNext, ClosingIs, SectionFacts
    <3> QED BY <3>1, <3>2
  <2> QED BY <2>2
<1>3. \A j \in 0 .. Len(file) : j \in H
  <2> HIDE DEF H
  <2>1. Len(file) \in Nat
    OBVIOUS
  <2> QED BY <1>1, <1>2, <2>1, CountUp
<1>4. k - 1 \in 0 .. Len(file) /\ k - 1 + 1 = k
  OBVIOUS
<1> QED BY <1>3, <1>4

\* The section is one of the reader's.
LEMMA SectionType ==
    ASSUME NEW file \in Seq(FileLines), NEW k \in 1 .. Len(file) + 1
    PROVE  SectionOf(file, k) \in Sections
<1> DEFINE H == {j \in 0 .. Len(file) : SectionOf(file, j + 1) \in Sections}
<1>1. 0 \in H
  BY SectionFirst DEF Sections
<1>2. ASSUME NEW j \in 1 .. Len(file), j - 1 \in H PROVE j \in H
  <2>1. SectionOf(file, j) \in Sections /\ j \in DOMAIN file
    BY <1>2
  <2> QED BY <2>1, SectionNext, ClosingIs DEF Sections
<1>3. \A j \in 0 .. Len(file) : j \in H
  <2> HIDE DEF H
  <2>1. Len(file) \in Nat
    OBVIOUS
  <2> QED BY <1>1, <1>2, <2>1, CountUp
<1>4. k - 1 \in 0 .. Len(file) /\ k - 1 + 1 = k
  OBVIOUS
<1> QED BY <1>3, <1>4

\* What the first k lines say, and how one line adds to it.
Here(file, k, m) == {j \in DOMAIN file : j <= k /\ file[j].kind = "pair" /\ SectionOf(file, j) = m}
First(file, here, key) == CHOOSE j \in here : /\ file[j].key = key
                                              /\ \A i \in here : file[i].key = key => j <= i
MeaningTo(file, k, m) ==
    [key \in {file[j].key : j \in Here(file, k, m)} |->
        file[First(file, Here(file, k, m), key)].value]

Inserted(f, key, value) ==
    [x \in DOMAIN f \cup {key} |-> IF x \in DOMAIN f THEN f[x] ELSE value]

IsFirst(file, here, key, j) ==
    /\ here \subseteq Nat /\ j \in here /\ file[j].key = key
    /\ \A i \in here : file[i].key = key => j <= i

LEMMA FirstIs ==
    ASSUME NEW file, NEW here, NEW key, NEW j, IsFirst(file, here, key, j)
    PROVE  First(file, here, key) = j
<1>1. \A n \in here : file[n].key = key /\ (\A i \in here : file[i].key = key => n <= i) => n = j
  BY DEF IsFirst
<1> QED BY <1>1 DEF First, IsFirst

LEMMA FirstExists ==
    ASSUME NEW file, NEW here, here \subseteq Nat, NEW key, NEW i \in here, file[i].key = key
    PROVE  \E j : IsFirst(file, here, key, j)
<1> DEFINE S == {n \in here : file[n].key = key}
<1>1. S \in SUBSET Nat /\ S # {}
  OBVIOUS
<1>2. PICK j \in S : \A n \in S : j <= n
  <2> HIDE DEF S
  <2> QED BY <1>1, Least
<1>3. IsFirst(file, here, key, j)
  BY <1>2 DEF IsFirst
<1> QED BY <1>3

LEMMA MeaningStep ==
    ASSUME NEW file \in Seq(FileLines), NEW k \in DOMAIN file, NEW m
    PROVE  MeaningTo(file, k, m) =
               IF file[k].kind = "pair" /\ SectionOf(file, k) = m
               THEN Inserted(MeaningTo(file, k - 1, m), file[k].key, file[k].value)
               ELSE MeaningTo(file, k - 1, m)
<1> DEFINE old == Here(file, k - 1, m)
           new == Here(file, k, m)
           key == file[k].key
<1>1. DOMAIN file \subseteq Nat /\ k \in Nat /\ k - 1 \in Int
  OBVIOUS
<1>2. old \subseteq Nat /\ new \subseteq Nat /\ \A j \in old : j < k
  BY <1>1 DEF Here
<1>3. CASE ~(file[k].kind = "pair" /\ SectionOf(file, k) = m)
  <2>1. new = old
    BY <1>1, <1>3 DEF Here
  <2> QED BY <1>3, <2>1 DEF MeaningTo
<1>4. CASE file[k].kind = "pair" /\ SectionOf(file, k) = m
  <2>1. new = old \cup {k}
    BY <1>1, <1>4 DEF Here
  <2>2. /\ MeaningTo(file, k, m) = [x \in {file[j].key : j \in new} |-> file[First(file, new, x)].value]
        /\ MeaningTo(file, k - 1, m) = [x \in {file[j].key : j \in old} |-> file[First(file, old, x)].value]
    BY DEF MeaningTo
  <2> HIDE DEF old, new
  <2>3. {file[j].key : j \in new} = {file[j].key : j \in old} \cup {key}
    BY <2>1
  <2>4. ASSUME NEW x \in {file[j].key : j \in old}
        PROVE  First(file, new, x) = First(file, old, x)
    <3>1. PICK i \in old : file[i].key = x
      BY <2>4
    <3>2. PICK j : IsFirst(file, old, x, j)
      BY <1>2, <3>1, FirstExists
    <3>3. First(file, old, x) = j
      BY <3>2, FirstIs
    <3>4. IsFirst(file, new, x, j)
      BY <1>1, <1>2, <2>1, <3>2 DEF IsFirst
    <3>5. First(file, new, x) = j
      BY <3>4, FirstIs
    <3> QED BY <3>3, <3>5
  <2>5. ASSUME key \notin {file[j].key : j \in old}
        PROVE  First(file, new, key) = k
    <3>1. IsFirst(file, new, key, k)
      BY <1>1, <1>2, <2>1, <2>5 DEF IsFirst
    <3> QED BY <3>1, FirstIs
  <2> HIDE DEF key
  <2>6. ASSUME NEW x \in {file[j].key : j \in new}
        PROVE  MeaningTo(file, k, m)[x] = IF x \in {file[j].key : j \in old}
                                          THEN MeaningTo(file, k - 1, m)[x] ELSE file[k].value
    <3>1. CASE x \in {file[j].key : j \in old}
      BY <2>2, <2>4, <3>1
    <3>2. CASE x \notin {file[j].key : j \in old}
      <4>1. x = key
        BY <2>3, <3>2
      <4> QED BY <2>2, <2>5, <3>2, <4>1
    <3> QED BY <3>1, <3>2
  <2>7. MeaningTo(file, k, m) = Inserted(MeaningTo(file, k - 1, m), key, file[k].value)
    BY <2>2, <2>3, <2>6 DEF Inserted
  <2> QED BY <1>4, <2>7 DEF key
<1> QED BY <1>3, <1>4

-----------------------------------------------------------------------------
(* The reader.                                                             *)

\* The empty text is named: the provers do not know it for a string.
Texts == STRING \cup {""}
Readers == [section : Sections \cup {Failed}, value : Texts,
            maps : [Sections -> UNION {[K -> Texts] : K \in SUBSET Texts}]]

LEMMA InsertIs ==
    ASSUME NEW r \in Readers, NEW m \in Sections, NEW key \in Texts, NEW value \in Texts
    PROVE  LET q == insert(r, m, key, value)
           IN  /\ q \in Readers /\ q.section = r.section /\ q.value = r.value
               /\ q.maps = [r.maps EXCEPT ![m] = Inserted(@, key, value)]
<1> DEFINE f == r.maps[m]
           g == Inserted(f, key, value)
<1>1. PICK K \in SUBSET Texts : f \in [K -> Texts]
  <2>1. r.maps \in [Sections -> UNION {[K -> Texts] : K \in SUBSET Texts}]
    BY DEF Readers
  <2>2. f \in UNION {[K -> Texts] : K \in SUBSET Texts}
    BY <2>1
  <2> QED BY <2>2
<1>2. g \in [K \cup {key} -> Texts] /\ K \cup {key} \in SUBSET Texts
  BY <1>1 DEF Inserted
<1>3. g \in UNION {[L -> Texts] : L \in SUBSET Texts}
  BY <1>2
<1>4. insert(r, m, key, value) = [r EXCEPT !.maps = [r.maps EXCEPT ![m] = g]]
  BY DEF insert, Inserted, Readers
<1> HIDE DEF g, f
<1>5. [r.maps EXCEPT ![m] = g] \in [Sections -> UNION {[L -> Texts] : L \in SUBSET Texts}]
  BY <1>3 DEF Readers
<1>6. insert(r, m, key, value) \in Readers
  BY <1>4, <1>5 DEF Readers
<1>7. Inserted(r.maps[m], key, value) = g
  BY DEF f, g
<1>8. /\ insert(r, m, key, value).section = r.section /\ insert(r, m, key, value).value = r.value
      /\ insert(r, m, key, value).maps = [r.maps EXCEPT ![m] = g]
  BY <1>4 DEF Readers
<1> QED BY <1>6, <1>7, <1>8

LEMMA ReadType ==
    ASSUME NEW r \in Readers, NEW line \in FileLines
    PROVE  ReadLine(r, line) \in Readers
<1>1. line.key \in Texts /\ line.value \in Texts /\ r.value \in Texts /\ "" \in Texts
  <2>1. line.key \in Texts /\ line.value \in Texts
    BY DEF FileLines, Texts
  <2>2. r.value \in Texts
    BY DEF Readers
  <2> QED BY <2>1, <2>2 DEF Texts
<1>2. ASSUME NEW m \in Sections \cup {Failed}, NEW q \in Readers
      PROVE  Enter(q, m) \in Readers
  BY DEF Enter, Readers
<1>3. [r EXCEPT !.value = ""] \in Readers
  BY <1>1 DEF Readers
<1>4. \A v \in Texts : [r EXCEPT !.value = v] \in Readers
  BY DEF Readers
<1>5. Top \in Sections /\ IsaTable \in Sections
  BY SectionFacts DEF Sections
<1>6. TopLine(r, line) \in Readers
  <2>1. TopMark(r, line.key) \in Readers
    BY <1>1, <1>2, <1>3, <1>5, InsertIs DEF TopMark, Sections
  <2>2. line.kind \in {"comment", "pair", "mark"}
    BY DEF FileLines
  <2> QED BY <1>1, <1>5, <2>1, <2>2, InsertIs DEF TopLine
<1>7. IsaLine(r, line) \in Readers
  BY <1>1, <1>2, <1>5, InsertIs DEF IsaLine
<1>8. Leave(r, line.key) \in Readers
  BY <1>1, <1>2, <1>5, InsertIs DEF Leave, Sections
<1>9. ASSUME r.section \in Sections PROVE SectionLine(r, line) \in Readers
  <2>1. ValueAfter(r, line) \in Texts
    BY <1>1 DEF ValueAfter
  <2>2. insert([r EXCEPT !.value = ValueAfter(r, line)], r.section, line.key, ValueAfter(r, line)) \in Readers
    BY <1>1, <1>4, <1>9, <2>1, InsertIs
  <2> QED BY <1>2, <1>8, <2>2 DEF SectionLine
<1>10. r.section \in Sections \/ r.section = Failed
  BY DEF Readers
<1> QED BY <1>6, <1>7, <1>9, <1>10 DEF ReadLine

\* What the reader carries after k lines.
Reads(file, k, r) ==
    /\ r \in Readers
    /\ r.section = SectionOf(file, k + 1)
    /\ r.maps = [m \in Sections |-> MeaningTo(file, k, m)]

\* A line of a well-formed file.
LEMMA LineForm ==
    ASSUME NEW file, WellFormed(file), NEW k \in DOMAIN file
    PROVE  /\ file[k].kind = "comment" => SectionOf(file, k) \in {Top, IsaTable}
           /\ file[k].kind = "mark" /\ file[k].key \notin Header \cup {EndMark}
                => SectionOf(file, k) = IsaTable
           /\ file[k].kind = "mark" /\ file[k].key \in Header /\ SectionOf(file, k) \in Header \ {IsaTable}
                => Position(file[k].key) > Position(SectionOf(file, k))
           /\ file[k].kind = "pair" /\ SectionOf(file, k) \in Header \ {IsaTable}
              /\ Position(SectionOf(file, k)) <= 2
                => file[k].value # ""
  BY Zenon DEF WellFormed

LEMMA LineType ==
    ASSUME NEW file \in Seq(FileLines), NEW k \in DOMAIN file
    PROVE  /\ file[k] \in FileLines
           /\ file[k].kind \in {"comment", "pair", "mark"}
           /\ file[k].key \in Texts /\ file[k].value \in Texts
           /\ k - 1 + 1 = k /\ k \in 1 .. Len(file) + 1 /\ k + 1 \in 1 .. Len(file) + 1
<1>1. file[k] \in FileLines
  OBVIOUS
<1>2. /\ file[k].kind \in {"comment", "pair", "mark"}
      /\ file[k].key \in STRING /\ file[k].value \in STRING
  BY <1>1 DEF FileLines
<1>3. k - 1 + 1 = k /\ k \in 1 .. Len(file) + 1 /\ k + 1 \in 1 .. Len(file) + 1
  OBVIOUS
<1> QED BY <1>1, <1>2, <1>3 DEF Texts

\* The call each section makes.
LEMMA ReadLineIs ==
    ASSUME NEW r, NEW line, NEW m \in Sections, r.section = m
    PROVE  ReadLine(r, line) = IF m = Top THEN TopLine(r, line)
                               ELSE IF m = IsaTable THEN IsaLine(r, line)
                               ELSE SectionLine(r, line)
<1>1. m # Failed
  BY SectionFacts DEF Sections
<1> QED BY Zenon, <1>1, SectionFacts DEF ReadLine

LEMMA TopLineIs ==
    ASSUME NEW r, NEW line
    PROVE  /\ line.kind = "comment" => TopLine(r, line) = r
           /\ line.kind = "pair" => TopLine(r, line) = insert(r, Top, line.key, line.value)
           /\ line.kind = "mark" /\ line.key = EndMark => TopLine(r, line) = r
           /\ line.kind = "mark" /\ line.key \in Header
                => TopLine(r, line) = Enter([r EXCEPT !.value = ""], line.key)
  BY SectionFacts DEF TopLine, TopMark

LEMMA IsaLineIs ==
    ASSUME NEW r, NEW line
    PROVE  /\ line.kind = "comment" => IsaLine(r, line) = r
           /\ line.kind = "pair" => IsaLine(r, line) = insert(r, IsaTable, line.key, line.value)
           /\ line.kind = "mark" /\ line.key = EndMark => IsaLine(r, line) = Enter(r, Top)
           /\ line.kind = "mark" /\ line.key # EndMark => IsaLine(r, line) = r
  BY DEF IsaLine

LEMMA ReadPair ==
    ASSUME NEW file \in Seq(FileLines), WellFormed(file), NEW k \in DOMAIN file,
           NEW r, Reads(file, k - 1, r), file[k].kind = "pair"
    PROVE  Reads(file, k, ReadLine(r, file[k]))
<1> DEFINE m == SectionOf(file, k)
           line == file[k]
<1>1. /\ k - 1 + 1 = k /\ k \in 1 .. Len(file) + 1
      /\ line \in FileLines /\ line.key \in Texts /\ line.value \in Texts
      /\ line.kind # "comment" /\ line.kind # "mark" /\ line.kind = "pair"
  BY LineType
<1>2. r \in Readers /\ r.section = m /\ r.maps = [n \in Sections |-> MeaningTo(file, k - 1, n)]
  BY <1>1 DEF Reads
<1>3. m \in Sections /\ SectionOf(file, k + 1) = m
  BY <1>1, SectionNext, SectionType
<1>4. [r EXCEPT !.value = line.value] \in Readers
  BY <1>1, <1>2 DEF Readers
<1>5. \E q \in Readers : /\ q.section = m /\ q.maps = r.maps
                         /\ ReadLine(r, line) = insert(q, m, line.key, line.value)
  <2>1. CASE m = Top
    <3>1. TopLine(r, line) = insert(r, Top, line.key, line.value)
      BY <1>1, TopLineIs
    <3> QED BY Zenon, <1>2, <1>3, <2>1, <3>1, ReadLineIs
  <2>2. CASE m = IsaTable
    <3>1. IsaLine(r, line) = insert(r, IsaTable, line.key, line.value)
      BY <1>1, IsaLineIs
    <3> QED BY Zenon, <1>2, <1>3, <2>2, <3>1, ReadLineIs, SectionFacts
  <2>3. CASE m # Top /\ m # IsaTable
    <3>1. m \in Header \ {IsaTable} /\ m # Failed
      BY <1>3, <2>3, SectionFacts DEF Sections
    <3>2. ReadLine(r, line) = SectionLine(r, line)
      BY <1>2, <1>3, <2>3, ReadLineIs
    <3>3. ~(line.value = "" /\ Position(m) <= 2)
      BY <1>1, <3>1, LineForm
    <3>4. SectionLine(r, line) = insert([r EXCEPT !.value = line.value], m, line.key, line.value)
      BY <1>1, <1>2, <3>3 DEF SectionLine, ValueAfter
    <3>5. [r EXCEPT !.value = line.value].section = m /\ [r EXCEPT !.value = line.value].maps = r.maps
      BY <1>2 DEF Readers
    <3> QED BY <1>4, <3>2, <3>4, <3>5
  <2> QED BY <2>1, <2>2, <2>3
<1>6. PICK q \in Readers : /\ q.section = m /\ q.maps = r.maps
                           /\ ReadLine(r, line) = insert(q, m, line.key, line.value)
  BY <1>5
<1>7. /\ ReadLine(r, line) \in Readers /\ ReadLine(r, line).section = m
      /\ ReadLine(r, line).maps = [r.maps EXCEPT ![m] = Inserted(@, line.key, line.value)]
  BY <1>1, <1>3, <1>6, InsertIs
<1>8. \A n \in Sections : MeaningTo(file, k, n) =
          IF n = m THEN Inserted(MeaningTo(file, k - 1, n), line.key, line.value)
                   ELSE MeaningTo(file, k - 1, n)
  BY MeaningStep
<1> HIDE DEF m, line
<1>9. [r.maps EXCEPT ![m] = Inserted(@, line.key, line.value)] = [n \in Sections |-> MeaningTo(file, k, n)]
  BY <1>2, <1>3, <1>8
<1> QED BY <1>3, <1>7, <1>9 DEF Reads, line

LEMMA ReadMark ==
    ASSUME NEW file \in Seq(FileLines), WellFormed(file), NEW k \in DOMAIN file,
           NEW r, Reads(file, k - 1, r), file[k].kind = "mark"
    PROVE  Reads(file, k, ReadLine(r, file[k]))
<1> DEFINE m == SectionOf(file, k)
           line == file[k]
           next == SectionOf(file, k + 1)
<1>1. /\ k - 1 + 1 = k /\ k \in 1 .. Len(file) + 1 /\ k + 1 \in 1 .. Len(file) + 1
      /\ line \in FileLines /\ line.kind # "comment" /\ line.kind # "pair" /\ line.kind = "mark"
  BY LineType
<1>2. r \in Readers /\ r.section = m /\ r.maps = [n \in Sections |-> MeaningTo(file, k - 1, n)]
  BY <1>1 DEF Reads
<1>3. m \in Sections /\ next \in Sections
  BY <1>1, SectionType
<1>4. \A n \in Sections : MeaningTo(file, k, n) = MeaningTo(file, k - 1, n)
  BY <1>1, MeaningStep
<1>5. next = IF line.key = EndMark THEN Top
             ELSE IF line.key \in Header /\ m # IsaTable THEN line.key ELSE m
  BY <1>1, SectionNext, ClosingIs, TableIs
<1>6. ASSUME NEW q \in Readers, q.maps = r.maps
      PROVE  Reads(file, k, Enter(q, next))
  <2>1. Enter(q, next) \in Readers /\ Enter(q, next).section = next /\ Enter(q, next).maps = q.maps
    BY <1>3 DEF Enter, Readers
  <2> QED BY <1>2, <1>4, <1>6, <2>1 DEF Reads
<1>7. next = m => Reads(file, k, r)
  BY <1>2, <1>4 DEF Reads
<1>8. [r EXCEPT !.value = ""] \in Readers /\ [r EXCEPT !.value = ""].maps = r.maps
  <2>1. "" \in Texts
    BY DEF Texts
  <2> QED BY <1>2, <2>1 DEF Readers
<1>9. /\ line.key \notin Header \cup {EndMark} => m = IsaTable
      /\ line.key \in Header /\ m \in Header \ {IsaTable} => Position(line.key) > Position(m)
  <2>1. /\ line.kind = "mark" /\ line.key \notin Header \cup {EndMark} => m = IsaTable
        /\ line.kind = "mark" /\ line.key \in Header /\ m \in Header \ {IsaTable}
             => Position(line.key) > Position(m)
    BY LineForm
  <2> QED BY Zenon, <1>1, <2>1
<1> SUFFICES Reads(file, k, ReadLine(r, line))
  OBVIOUS
<1> HIDE DEF m, line, next
<1>10. CASE m = Top
  <2>1. ReadLine(r, line) = TopLine(r, line)
    BY <1>2, <1>3, <1>10, ReadLineIs
  <2>2. CASE line.key = EndMark
    <3>1. TopLine(r, line) = r /\ next = m
      BY <1>1, <1>5, <1>10, <2>2, TopLineIs
    <3> QED BY <1>7, <2>1, <3>1
  <2>3. CASE line.key # EndMark
    <3>1. line.key \in Header /\ next = line.key
      BY <1>5, <1>9, <1>10, <2>3, SectionFacts
    <3>2. TopLine(r, line) = Enter([r EXCEPT !.value = ""], next)
      BY <1>1, <3>1, TopLineIs
    <3> QED BY <1>6, <1>8, <2>1, <3>2
  <2> QED BY <2>2, <2>3
<1>11. CASE m = IsaTable
  <2>1. ReadLine(r, line) = IsaLine(r, line)
    BY <1>2, <1>3, <1>11, ReadLineIs, SectionFacts
  <2>2. CASE line.key = EndMark
    <3>1. IsaLine(r, line) = Enter(r, next)
      BY <1>1, <1>5, <2>2, IsaLineIs
    <3> QED BY <1>2, <1>6, <2>1, <3>1
  <2>3. CASE line.key # EndMark
    <3>1. IsaLine(r, line) = r /\ next = m
      BY <1>1, <1>5, <1>11, <2>3, IsaLineIs
    <3> QED BY <1>7, <2>1, <3>1
  <2> QED BY <2>2, <2>3
<1>12. CASE m # Top /\ m # IsaTable
  <2>1. m \in Header \ {IsaTable} /\ m # Failed
    BY <1>3, <1>12, SectionFacts DEF Sections
  <2>2. ReadLine(r, line) = Leave(r, line.key)
    <3>1. ReadLine(r, line) = SectionLine(r, line)
      BY <1>2, <1>3, <1>12, ReadLineIs
    <3> QED BY <1>1, <3>1 DEF SectionLine
  <2>3. line.key \in Header => Position(line.key) > Position(m)
    BY <1>9, <2>1
  <2>4. Leave(r, line.key) = Enter(r, next)
    <3>1. CASE line.key = EndMark
      BY Zenon, <1>5, <3>1, SectionFacts DEF Leave
    <3>2. CASE line.key # EndMark
      <4>1. line.key \in Header
        BY <1>9, <1>12, <3>2
      <4>2. next = line.key /\ Position(line.key) > Position(r.section)
        BY <1>2, <1>5, <1>12, <2>3, <3>2, <4>1
      <4> QED BY Zenon, <3>2, <4>1, <4>2 DEF Leave
    <3> QED BY <3>1, <3>2
  <2> QED BY <1>2, <1>6, <2>2, <2>4
<1> QED BY <1>10, <1>11, <1>12

LEMMA ReadStep ==
    ASSUME NEW file \in Seq(FileLines), WellFormed(file), NEW k \in DOMAIN file,
           NEW r, Reads(file, k - 1, r)
    PROVE  Reads(file, k, ReadLine(r, file[k]))
<1>1. file[k].kind \in {"comment", "pair", "mark"}
  BY LineType
<1>2. CASE file[k].kind = "comment"
  <2>1. SectionOf(file, k) \in {Top, IsaTable}
    BY <1>2, LineForm
  <2>2. k - 1 + 1 = k
    OBVIOUS
  <2>3. r \in Readers /\ r.section = SectionOf(file, k)
        /\ r.maps = [m \in Sections |-> MeaningTo(file, k - 1, m)]
    BY <2>2 DEF Reads
  <2>4. ReadLine(r, file[k]) = r
    <3>1. TopLine(r, file[k]) = r /\ IsaLine(r, file[k]) = r
      BY <1>2, TopLineIs, IsaLineIs
    <3>2. r.section \in {Top, IsaTable} /\ r.section \in Sections
      BY <2>1, <2>3, SectionFacts DEF Sections
    <3> QED BY Zenon, <3>1, <3>2, ReadLineIs
  <2>5. SectionOf(file, k + 1) = SectionOf(file, k)
        /\ \A m \in Sections : MeaningTo(file, k, m) = MeaningTo(file, k - 1, m)
    BY <1>2, SectionNext, MeaningStep
  <2> QED BY <2>3, <2>4, <2>5 DEF Reads
<1> QED BY <1>1, <1>2, ReadPair, ReadMark

\* The fold over all lines.
LEMMA ReadAll ==
    ASSUME NEW file \in Seq(FileLines), WellFormed(file)
    PROVE  Reads(file, Len(file), read_config(file))
<1> DEFINE N == Len(file)
           S == 1 .. N
           Unfolds(g) == g = [s \in SUBSET S |->
                                IF s = {} THEN NewReader
                                ELSE ReadLine(g[s \ {Max(s)}], file[Max(s)])]
           iter == CHOOSE g : Unfolds(g)
           step == [i \in S |-> [r \in Readers |-> ReadLine(r, file[i])]]
           pick == [s \in SUBSET S |-> Max(s)]
<1>1. N \in Nat /\ DOMAIN file = S /\ \A i \in S : file[i] \in FileLines
  OBVIOUS
<1>2. read_config(file) = iter[S]
  BY <1>1 DEF read_config, FoldLeft, MapThenFoldSet
<1>3. ASSUME NEW i \in S, NEW r \in Readers PROVE ReadLine(r, file[i]) \in Readers
  BY <1>1, ReadType
<1>4. NewReader \in Readers
  <2>1. <<>> \in [{} -> Texts] /\ {} \in SUBSET Texts
    OBVIOUS
  <2>2. <<>> \in UNION {[K -> Texts] : K \in SUBSET Texts}
    BY <2>1
  <2>3. "" \in Texts /\ Top \in Sections
    BY DEF Texts, Sections
  <2> QED BY <2>2, <2>3 DEF NewReader, Readers, Sections
<1>5. ASSUME NEW s \in SUBSET S, s # {} PROVE Max(s) \in s
  BY <1>1, <1>5, FoldIndices
<1>6. IsFiniteSet(S)
  BY <1>1, FoldIndices
<1>7. \E g : Unfolds(g)
  <2>1. Picks(pick, S)
    BY <1>5 DEF Picks
  <2>2. Keeps(step, S, Readers)
    BY <1>3 DEF Keeps
  <2>3. PICK g \in [SUBSET S -> Readers] : Folds(g, S, NewReader, pick, step)
    <3> HIDE DEF pick, step, S
    <3> QED BY <1>4, <1>6, <2>1, <2>2, FoldExists
  <2>4. ASSUME NEW s \in SUBSET S
        PROVE  g[s] = IF s = {} THEN NewReader
                      ELSE ReadLine(g[s \ {Max(s)}], file[Max(s)])
    <3>1. CASE s = {}
      BY <2>3, <3>1 DEF Folds
    <3>2. CASE s # {}
      <4>1. Max(s) \in S /\ pick[s] = Max(s) /\ s \ {Max(s)} \in SUBSET S
        BY <1>5, <3>2
      <4>2. g[s \ {Max(s)}] \in Readers
        BY <4>1
      <4>3. g[s] = step[Max(s)][g[s \ {Max(s)}]]
        BY <2>3, <3>2, <4>1 DEF Folds
      <4>4. step[Max(s)][g[s \ {Max(s)}]] = ReadLine(g[s \ {Max(s)}], file[Max(s)])
        BY <4>1, <4>2
      <4> HIDE DEF step, S
      <4> QED BY <3>2, <4>3, <4>4
    <3> QED BY <3>1, <3>2
  <2>5. g = [s \in SUBSET S |-> IF s = {} THEN NewReader
                                ELSE ReadLine(g[s \ {Max(s)}], file[Max(s)])]
    <3> HIDE DEF S
    <3> QED BY <2>4
  <2> QED BY <2>5
<1>8. Unfolds(iter)
  <2> HIDE DEF Unfolds
  <2> QED BY <1>7
<1> HIDE DEF iter
<1>9. ASSUME NEW k \in 1 .. N, Reads(file, k - 1, iter[1 .. k - 1])
      PROVE  Reads(file, k, iter[1 .. k])
  <2>1. 1 .. k \in SUBSET S /\ 1 .. k # {} /\ Max(1 .. k) = k /\ (1 .. k) \ {k} = 1 .. k - 1
    BY <1>1, FoldIndices
  <2>2. iter[1 .. k] = ReadLine(iter[(1 .. k) \ {Max(1 .. k)}], file[Max(1 .. k)])
    BY <1>8, <2>1
  <2>3. iter[1 .. k] = ReadLine(iter[1 .. k - 1], file[k])
    BY <2>1, <2>2
  <2>4. k \in DOMAIN file
    BY <1>1
  <2> QED BY <1>9, <2>3, <2>4, ReadStep
<1> DEFINE H == {k \in 0 .. N : Reads(file, k, iter[1 .. k])}
<1>10. 0 \in H
  <2>1. 1 .. 0 = {} /\ 0 \in 0 .. N /\ 0 + 1 = 1
    BY <1>1
  <2>2. iter[1 .. 0] = NewReader
    BY <1>8, <2>1
  <2>3. \A m \in Sections : MeaningTo(file, 0, m) = <<>>
    <3>1. \A m \in Sections : Here(file, 0, m) = {}
      BY <1>1 DEF Here
    <3>2. \A m \in Sections : MeaningTo(file, 0, m) = [x \in {} |-> file[First(file, {}, x)].value]
      BY <3>1 DEF MeaningTo
    <3> QED BY <3>2
  <2>4. NewReader.section = SectionOf(file, 1) /\ NewReader.maps = [m \in Sections |-> <<>>]
    BY SectionFirst DEF NewReader, Sections
  <2>5. Reads(file, 0, NewReader)
    BY <1>4, <2>1, <2>3, <2>4 DEF Reads
  <2> QED BY <2>1, <2>2, <2>5
<1>11. ASSUME NEW k \in 1 .. N, k - 1 \in H PROVE k \in H
  <2>1. k \in 0 .. N
    OBVIOUS
  <2> QED BY <1>9, <1>11, <2>1
<1>12. N \in H
  <2> HIDE DEF H
  <2>1. \A k \in 0 .. N : k \in H
    BY <1>1, <1>10, <1>11, CountUp
  <2> QED BY <1>1, <2>1
<1> QED BY <1>2, <1>12

\* The end of a well-formed file is outside of the sections that only a mark
\* ends.
LEMMA EndOutside ==
    ASSUME NEW file \in Seq(FileLines), WellFormed(file)
    PROVE  SectionOf(file, Len(file) + 1) \in {Top, IsaTable}
<1> DEFINE N == Len(file)
           longer == Append(file, Mark(""))
<1>1. /\ N \in Nat /\ DOMAIN file = 1 .. N /\ DOMAIN longer = 1 .. N + 1
      /\ \A j \in 1 .. N : longer[j] = file[j]
  <2> DEFINE e == Mark("")
  <2>1. N \in Nat /\ DOMAIN file = 1 .. N
    OBVIOUS
  <2>2. file \in Seq(FileLines \cup {e})
    <3>1. \A j \in DOMAIN file : file[j] \in FileLines
      OBVIOUS
    <3> HIDE DEF e
    <3> QED BY <2>1, <3>1
  <2>3. longer = Append(file, e)
    OBVIOUS
  <2> HIDE DEF e, longer
  <2>4. DOMAIN longer = 1 .. N + 1 /\ \A j \in 1 .. N : longer[j] = file[j]
    BY <2>2, <2>3
  <2> QED BY <2>1, <2>4
<1> HIDE DEF longer, N
<1>2. \A j : j \in Marks(longer) /\ j < N + 1 <=> j \in Marks(file)
  BY <1>1 DEF Marks
<1>3. \A j \in Marks(file) : j \in 1 .. N /\ j < N + 1
  BY <1>1 DEF Marks
<1>4. ASSUME NEW j \in Marks(file) PROVE Closing(longer, j) <=> Closing(file, j)
  <2>1. ASSUME NEW key
        PROVE  {k \in Marks(longer) : k < j /\ longer[k].key = key}
                   = {k \in Marks(file) : k < j /\ file[k].key = key}
    <3>1. \A k : k \in Marks(longer) => k \in Nat
      BY <1>1 DEF Marks
    <3>2. \A k : k \in Marks(longer) /\ k < j <=> k \in Marks(file) /\ k < j
      BY <1>1, <1>2, <1>3, <3>1
    <3> QED BY <1>1, <1>3, <3>2
  <2>2. TableOpen(longer, j) <=> TableOpen(file, j)
    <3>1. {k \in Marks(longer) : k < j /\ longer[k].key = IsaTable}
              = {k \in Marks(file) : k < j /\ file[k].key = IsaTable}
      BY <2>1
    <3>2. {k \in Marks(longer) : k < j /\ longer[k].key = EndMark}
              = {k \in Marks(file) : k < j /\ file[k].key = EndMark}
      BY <2>1
    <3> QED BY Zenon, <3>1, <3>2 DEF TableOpen
  <2> QED BY <1>1, <1>3, <2>2, ClosingIs
<1>5. Borders(longer, N + 1) = Borders(file, N + 1)
  BY <1>1, <1>2, <1>3, <1>4 DEF Borders
<1>6. LastBorder(longer, N + 1) = LastBorder(file, N + 1)
  BY <1>5 DEF LastBorder
<1>7. Borders(file, N + 1) # {} => LastBorder(file, N + 1) \in 1 .. N
  <2> SUFFICES ASSUME Borders(file, N + 1) # {} PROVE LastBorder(file, N + 1) \in 1 .. N
    OBVIOUS
  <2>1. Borders(file, N + 1) \subseteq 1 .. N
    BY <1>3 DEF Borders
  <2>2. IsFiniteSet(Borders(file, N + 1))
    <3>1. IsFiniteSet(1 .. N)
      BY <1>1, FS_Interval
    <3> QED BY <2>1, <3>1, FS_Subset
  <2>3. \E j \in Borders(file, N + 1) : \A i \in Borders(file, N + 1) : i <= j
    <3>1. Borders(file, N + 1) \in SUBSET Int
      BY <1>1, <2>1
    <3> QED BY <2>2, <3>1, MaxGreatest
  <2> QED BY <2>1, <2>3 DEF LastBorder
<1>8. SectionOf(longer, N + 1) = SectionOf(file, N + 1)
  BY <1>1, <1>5, <1>6, <1>7, SectionIs
<1>9. SectionOf(longer, N + 1) \in {Top, IsaTable}
  BY Zenon DEF WellFormed, longer, N
<1> QED BY <1>8, <1>9 DEF N

\* A file of the form of gpu.config and gpu_isa_latency.config is read to its
\* end and every map holds what the file says, for files of any length, with
\* any keys and values in any order of sections (config_reader.cpp,
\* gpu_config::read_config).
THEOREM ReadAsWritten ==
    ASSUME NEW file \in Seq(FileLines), WellFormed(file)
    PROVE  /\ ~Stuck(read_config(file))
           /\ read_config(file).section # Failed
           /\ \A m \in Header \cup {Top} : read_config(file).maps[m] = Meaning(file, m)
<1> DEFINE r == read_config(file)
<1>1. Reads(file, Len(file), r)
  BY ReadAll
<1>2. r.section \in {Top, IsaTable}
  BY <1>1, EndOutside DEF Reads
<1>3. ASSUME NEW m PROVE MeaningTo(file, Len(file), m) = Meaning(file, m)
  <2> DEFINE here == {k \in DOMAIN file : file[k].kind = "pair" /\ SectionOf(file, k) = m}
  <2>1. Here(file, Len(file), m) = here
    BY DEF Here
  <2>2. Meaning(file, m) = [key \in {file[k].key : k \in here} |-> file[First(file, here, key)].value]
    BY DEF Meaning, First
  <2> HIDE DEF here
  <2> QED BY <2>1, <2>2 DEF MeaningTo
<1>4. \A m \in Sections : r.maps[m] = Meaning(file, m)
  BY <1>1, <1>3 DEF Reads
<1> QED BY <1>2, <1>4, SectionFacts DEF Stuck, Sections

\* What a behaviour has computed when its task is a file.
ConfigInv ==
    /\ task \in Tasks
    /\ Done("config") => result = read_config(task[2])

\* So the configuration a behaviour reads is what its file says.
THEOREM ConfigCorrect == Spec => []ConfigAsWritten
<1>1. Init => ConfigInv
  BY DEF Init, ConfigInv, Done
<1>2. ConfigInv /\ [Next]_vars => ConfigInv'
  BY DEF ConfigInv, Next, vars, ReadConfig, Occupy, MakeRequests, UseSlice, Stride, Do, Done
<1>3. ConfigInv => ConfigAsWritten
  <2> SUFFICES ASSUME ConfigInv, Done("config"), WellFormed(task[2])
               PROVE  /\ ~Stuck(result)
                      /\ result.section # Failed
                      /\ \A m \in Header \cup {Top} : result.maps[m] = Meaning(task[2], m)
    BY DEF ConfigAsWritten
  <2>1. task[1] = "config" /\ result = read_config(task[2])
    BY DEF ConfigInv, Done
  <2>2. task[2] \in Files
    BY <2>1 DEF ConfigInv, Tasks
  <2>3. task[2] \in Seq(FileLines)
    BY <2>2, AlgorithmsAssumption
  <2> QED BY <2>1, <2>3, ReadAsWritten
<1> QED BY <1>1, <1>2, <1>3, PTL DEF Spec
=============================================================================
