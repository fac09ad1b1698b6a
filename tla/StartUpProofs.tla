--------------------------- MODULE StartUpProofs ----------------------------
(***************************************************************************)
(* Proofs about StartUp: types, that the blocks the first loop gives out   *)
(* are the first ones of the grid, and that instructions and accesses are  *)
(* paired by counting them in two files.                                   *)
(***************************************************************************)
EXTENDS StartUp, FiniteSetTheorems, WellFoundedInduction, TLAPS

-----------------------------------------------------------------------------
(* The greatest element of a finite set of numbers, without induction: the *)
(* sets of what is above an element are well-founded under inclusion.      *)

LEMMA MaxIsIn ==
    ASSUME NEW S \in SUBSET Nat, IsFiniteSet(S), S # {}
    PROVE  Max(S) \in S
<1> DEFINE Above(n) == {m \in S : m > n}
           T == {Above(n) : n \in S}
<1>1. T \subseteq FiniteSubsetsOf(S)
  BY FS_Subset DEF FiniteSubsetsOf
<1>2. T # {}
  OBVIOUS
<1>3. PICK x \in T : \A y \in T : ~ (<<y, x>> \in StrictSubsetOrdering(S))
  <2> HIDE DEF T
  <2> QED BY <1>1, <1>2, WFMin, FS_StrictSubsetOrderingWellFounded
<1>4. PICK n \in S : x = Above(n)
  BY <1>3
<1>5. \A m \in S : n >= m
  <2> SUFFICES ASSUME NEW m \in S, m > n PROVE FALSE
    OBVIOUS
  <2>0. m \in Nat /\ n \in Nat /\ \A k \in S : k \in Nat
    OBVIOUS
  <2>1. m \in Above(n) /\ m \notin Above(m)
    BY <2>0
  <2>2. ASSUME NEW k \in Above(m) PROVE k \in Above(n)
    <3>1. k \in S /\ k > m
      OBVIOUS
    <3>2. k > n
      BY <2>0, <3>1
    <3> QED BY <3>1, <3>2
  <2>3. Above(m) \in SUBSET S /\ Above(n) \in SUBSET S
    OBVIOUS
  <2>4. <<Above(m), Above(n)>> \in StrictSubsetOrdering(S)
    <3> HIDE DEF Above
    <3> QED BY <2>1, <2>2, <2>3 DEF StrictSubsetOrdering
  <2> QED BY <2>4, <1>3, <1>4
<1> QED BY <1>5 DEF Max

-----------------------------------------------------------------------------
(* The inductive invariant.                                                *)

\* The kernel's blocks are numbered from 0.
GridInv == \E g \in Nat : DOMAIN m_blocks = 0 .. g - 1

\* No kernel, and no block on any SM.
Idle ==
    /\ m_blocks = <<>> /\ m_mem_inst = <<>>
    /\ index = 0 /\ next_block = 0 /\ block_vec = EmptySMs /\ block_pointer = 0

\* Nothing is left of a kernel when the simulator does not run one.
IdleInv ==
    proc \notin {"spawn", "gpu_cycle"} => Idle

\* The SMs before index have one block more than those from index on.
Level(q) ==
    /\ index > 0 => q < max_blocks
    /\ \A s \in SMs : Len(block_vec[s]) =
          IF s >= active_sms THEN 0 ELSE IF s < index THEN q + 1 ELSE q

TurnInv ==
    /\ index > 0 => index < active_sms
    /\ \E q \in 0 .. max_blocks : Level(q)

\* The loop gives out every block until the SM whose turn it is is full,
\* and none from then on.
GivenInv ==
    /\ block_pointer \in Nat /\ block_pointer <= next_block
    /\ UNION {Range(block_vec[s]) : s \in SMs} = 0 .. block_pointer - 1
    /\ block_pointer = next_block \/ Len(block_vec[index]) = max_blocks

IInv ==
    /\ trace \in Traces
    /\ TypeOK
    /\ GridInv /\ IdleInv /\ TurnInv /\ GivenInv

-----------------------------------------------------------------------------
(* The size of the grid and the number of SMs that get blocks.             *)

LEMMA IntervalSize ==
    ASSUME NEW g \in Nat
    PROVE  Cardinality(0 .. g - 1) = g
<1>1. Cardinality(0 .. g - 1) = IF 0 > g - 1 THEN 0 ELSE g - 1 - 0 + 1
  BY FS_Interval
<1> QED BY <1>1

LEMMA GridSize ==
    ASSUME NEW g \in Nat, DOMAIN m_blocks = 0 .. g - 1
    PROVE  grid_size = g /\ active_sms = IF g < sm_num THEN g ELSE sm_num
  BY IntervalSize DEF grid_size, active_sms

LEMMA NoGrid ==
    ASSUME m_blocks = <<>>
    PROVE  GridInv /\ grid_size = 0 /\ active_sms = 0
<1>1. DOMAIN m_blocks = 0 .. 0 - 1
  OBVIOUS
<1>2. grid_size = 0 /\ active_sms = IF 0 < sm_num THEN 0 ELSE sm_num
  BY <1>1, GridSize
<1> QED BY <1>1, <1>2, StartUpAssumption DEF GridInv

LEMMA KernelInfoType ==
    ASSUME trace \in Traces, NEW h \in Header
    PROVE  kernelInfo(trace, h) \in Nat
<1> DEFINE lines == {k \in DOMAIN trace.sass : trace.sass[k].header = h}
<1>1. CASE lines = {}
  BY <1>1 DEF kernelInfo
<1>2. CASE lines # {}
  <2>1. lines \in SUBSET Nat /\ IsFiniteSet(lines)
    BY StartUpAssumption, FS_Subset
  <2>2. Max(lines) \in lines
    <3> HIDE DEF lines
    <3> QED BY <1>2, <2>1, MaxIsIn
  <2>3. trace.sass[Max(lines)].value \in Nat
    BY <2>2, StartUpAssumption
  <2> QED BY <1>2, <2>3 DEF kernelInfo
<1> QED BY <1>1, <1>2

LEMMA NextIndex ==
    ASSUME NEW n \in Nat, NEW i \in Nat, i < n
    PROVE  (i + 1) % n = IF i + 1 < n THEN i + 1 ELSE 0
<1>1. CASE i + 1 < n
  <2>1. i + 1 \in 0 .. n - 1
    BY <1>1
  <2> QED BY <1>1, <2>1
<1>2. CASE i + 1 = n
  BY <1>2
<1> QED BY <1>1, <1>2

-----------------------------------------------------------------------------
(* The invariant is inductive.                                             *)

LEMMA NoBlocks == UNION {Range(EmptySMs[s]) : s \in SMs} = {}
<1>1. ASSUME NEW s \in SMs PROVE Range(EmptySMs[s]) = {}
  BY DEF EmptySMs, Range
<1> QED BY <1>1

\* What the invariant says of the kernel and the loop.
LoopInv ==
    /\ GridInv /\ IdleInv /\ TurnInv /\ GivenInv
    /\ index \in SMs /\ next_block \in 0 .. grid_size
    /\ block_vec \in [SMs -> Seq(Nat)]
    /\ DOMAIN m_mem_inst = UNION {Range(block_vec[s]) : s \in SMs}

\* A simulator without a kernel satisfies it.
LEMMA IdleIsFine == Idle => LoopInv
<1> SUFFICES ASSUME Idle PROVE LoopInv
  OBVIOUS
<1>0. /\ m_blocks = <<>> /\ m_mem_inst = <<>> /\ index = 0 /\ next_block = 0
      /\ block_vec = EmptySMs /\ block_pointer = 0
  BY DEF Idle
<1>1. GridInv /\ grid_size = 0 /\ active_sms = 0
  BY <1>0, NoGrid
<1>2. IdleInv
  BY <1>0 DEF IdleInv
<1>3. Level(0)
  <2>1. \A s \in SMs : block_vec[s] = <<>>
    BY <1>0 DEF EmptySMs
  <2>2. \A s \in SMs : s >= active_sms
    BY <1>1, StartUpAssumption DEF SMs
  <2>3. \A s \in SMs : Len(block_vec[s]) = 0
    BY <2>1
  <2>4. ~ (index > 0)
    BY <1>0
  <2> QED BY <2>2, <2>3, <2>4 DEF Level
<1>4. TurnInv
  BY <1>0, <1>1, <1>3, StartUpAssumption DEF TurnInv
<1>5. GivenInv
  <2>1. UNION {Range(block_vec[s]) : s \in SMs} = {}
    BY <1>0, NoBlocks
  <2>2. 0 .. block_pointer - 1 = {} /\ block_pointer \in Nat /\ block_pointer = next_block
    BY <1>0
  <2> QED BY <2>1, <2>2 DEF GivenInv
<1>6. index \in SMs /\ block_vec \in [SMs -> Seq(Nat)]
  BY <1>0, StartUpAssumption DEF SMs, EmptySMs
<1>7. DOMAIN m_mem_inst = {}
  BY <1>0
<1> QED BY <1>0, <1>1, <1>2, <1>4, <1>5, <1>6, <1>7, NoBlocks DEF LoopInv

LEMMA InitInv == Init => IInv
<1> SUFFICES ASSUME Init PROVE IInv
  OBVIOUS
<1>1. trace \in Traces /\ Len(trace.mem) \in Nat
  BY StartUpAssumption DEF Init
<1>2. file \in [TracedBlocks(trace) -> Seq(Lines)]
  BY DEF Init
<1>3. LoopInv
  BY IdleIsFine DEF Init, Idle
<1>4. TypeOK
  <2>1. /\ exists = {} /\ proc = "off" /\ line_no = 1 /\ starts = 0
    BY DEF Init
  <2>2. line_no \in 1 .. Len(trace.mem) + 1
    BY <1>1, <2>1
  <2>3. starts \in 0 .. MaxStarts
    BY <2>1, StartUpAssumption
  <2>4. exists \subseteq TracedBlocks(trace)
    BY <2>1
  <2>5. short \cup doubled \subseteq TracedBlocks(trace)
    BY DEF Init
  <2> QED BY <1>2, <1>3, <2>1, <2>2, <2>3, <2>4, <2>5 DEF TypeOK, LoopInv
<1> QED BY <1>1, <1>3, <1>4 DEF IInv, LoopInv

\* A step that leaves the kernel and the loop alone keeps what is said of
\* them.
LEMMA LoopUnchanged ==
    ASSUME IInv, UNCHANGED <<kernelVars, spawnVars>>,
           proc' \notin {"spawn", "gpu_cycle"} => proc \notin {"spawn", "gpu_cycle"}
    PROVE  LoopInv'
<1>0. /\ m_blocks' = m_blocks /\ m_mem_inst' = m_mem_inst /\ index' = index
      /\ next_block' = next_block /\ block_vec' = block_vec /\ block_pointer' = block_pointer
  BY DEF kernelVars, spawnVars
<1>1. GridInv' /\ GivenInv'
  BY <1>0 DEF IInv, GridInv, GivenInv
<1>2. IdleInv'
  BY <1>0 DEF IInv, IdleInv, Idle
<1>3. grid_size' = grid_size /\ active_sms' = active_sms
  BY <1>0 DEF grid_size, active_sms
<1>4. TurnInv'
  <2>1. PICK q \in 0 .. max_blocks : Level(q)
    BY DEF IInv, TurnInv
  <2>2. Level(q)'
    BY <1>0, <1>3, <2>1 DEF Level
  <2> QED BY <1>0, <1>3, <2>2 DEF IInv, TurnInv
<1> QED BY <1>0, <1>1, <1>2, <1>3, <1>4 DEF IInv, TypeOK, LoopInv

\* The steps of the split and between the phases.
LEMMA SplitStep ==
    ASSUME IInv, Start \/ Open \/ Write \/ EndOfFile \/ Simulate
    PROVE  IInv'
<1>1. UNCHANGED <<kernelVars, spawnVars>>
  BY DEF Start, Open, Write, EndOfFile, Simulate, kernelVars, spawnVars
<1>2. trace' = trace /\ trace \in Traces /\ TypeOK
  BY DEF IInv, Start, Open, Write, EndOfFile, Simulate
<1>3. proc' \notin {"spawn", "gpu_cycle"} => proc \notin {"spawn", "gpu_cycle"}
  BY DEF Start, Open, Write, EndOfFile, Simulate
<1>4. LoopInv'
  BY <1>1, <1>3, LoopUnchanged
<1>5. Len(trace.mem) \in Nat /\ DOMAIN trace.mem = 1 .. Len(trace.mem)
  BY <1>2, StartUpAssumption
<1>6. /\ exists' \subseteq TracedBlocks(trace)
      /\ proc' \in {"off", "open", "write", "launch", "spawn", "gpu_cycle"}
      /\ line_no' \in 1 .. Len(trace.mem) + 1
      /\ proc' = "write" => line_no' <= Len(trace.mem)
      /\ starts' \in 0 .. MaxStarts
      /\ file' \in [TracedBlocks(trace) -> Seq(Lines)]
  <2>1. CASE Start
    BY <1>2, <1>5, <2>1, StartUpAssumption DEF Start, TypeOK, fileVars
  <2>2. CASE Open
    <3>1. line_no \in DOMAIN trace.mem
      BY <1>2, <1>5, <2>2 DEF Open, TypeOK
    <3>2. trace.mem[line_no].block \in TracedBlocks(trace)
      BY <3>1 DEF TracedBlocks
    <3> QED BY <1>2, <1>5, <2>2, <3>2 DEF Open, TypeOK
  <2>3. CASE Write
    <3> DEFINE line == trace.mem[line_no]
               l    == [warp |-> line.warp, pc |-> line.pc, n |-> line.n]
    <3>1. line_no \in DOMAIN trace.mem
      BY <1>2, <1>5, <2>3 DEF Write, TypeOK
    <3>2. line.block \in TracedBlocks(trace)
      BY <3>1 DEF TracedBlocks
    <3>3. l \in Lines
      BY <1>2, <3>1, StartUpAssumption DEF Lines
    <3>4. file' = [file EXCEPT ![line.block] = Append(@, l)]
      BY <2>3 DEF Write
    <3>5. file' \in [TracedBlocks(trace) -> Seq(Lines)]
      <4> HIDE DEF l, line
      <4>1. file \in [TracedBlocks(trace) -> Seq(Lines)]
        BY <1>2 DEF TypeOK
      <4>2. Append(file[line.block], l) \in Seq(Lines)
        BY <3>2, <3>3, <4>1
      <4> QED BY <3>2, <3>4, <4>1, <4>2
    <3>6. /\ exists' = exists /\ proc' = "open" /\ line_no' = line_no + 1
          /\ starts' = starts /\ line_no <= Len(trace.mem)
      BY <1>2, <2>3 DEF Write, TypeOK
    <3> QED BY <1>2, <1>5, <3>5, <3>6 DEF TypeOK
  <2>4. CASE EndOfFile
    BY <1>2, <1>5, <2>4 DEF EndOfFile, TypeOK, fileVars
  <2>5. CASE Simulate
    BY <1>2, <1>5, <2>5 DEF Simulate, TypeOK, fileVars
  <2> QED BY <2>1, <2>2, <2>3, <2>4, <2>5
<1>7. (short \cup doubled)' = short \cup doubled
  BY DEF Start, Open, Write, EndOfFile, Simulate
<1>8. TypeOK'
  BY <1>2, <1>4, <1>6, <1>7 DEF TypeOK, LoopInv
<1> QED BY <1>2, <1>4, <1>8 DEF IInv, LoopInv

\* After a stop only the files are left.
LEMMA StopStep ==
    ASSUME IInv, Stop
    PROVE  IInv'
<1>1. /\ m_blocks' = <<>> /\ m_mem_inst' = <<>> /\ index' = 0 /\ next_block' = 0
      /\ block_vec' = EmptySMs /\ block_pointer' = 0
      /\ trace' = trace /\ exists' = exists /\ file' = file /\ starts' = starts
      /\ proc' = "off" /\ line_no' = 1
  BY DEF Stop, fileVars
<1>2. LoopInv'
  <2>1. Idle'
    BY <1>1 DEF Idle
  <2> QED BY <2>1, IdleIsFine, PTL
<1>3. Len(trace.mem) \in Nat
  BY StartUpAssumption DEF IInv
<1>4. TypeOK'
  <2>1. line_no' \in 1 .. Len(trace'.mem) + 1
    BY <1>1, <1>3
  <2>2. /\ exists' \subseteq TracedBlocks(trace')
        /\ file' \in [TracedBlocks(trace') -> Seq(Lines)]
        /\ starts' \in 0 .. MaxStarts
    BY <1>1 DEF IInv, TypeOK
  <2>3. TracedBlocks(trace)' = TracedBlocks(trace')
    BY DEF TracedBlocks
  <2>4. (short \cup doubled)' \subseteq TracedBlocks(trace)
    <3>1. Unfinished \subseteq TracedBlocks(trace) /\ Begun \subseteq TracedBlocks(trace)
      BY DEF Unfinished, Begun, TracedBlocks
    <3>2. short' \subseteq short \cup Unfinished /\ doubled' \subseteq doubled \cup Begun
      BY DEF Stop
    <3> QED BY <3>1, <3>2 DEF IInv, TypeOK
  <2> QED BY <1>1, <1>2, <2>1, <2>2, <2>3, <2>4 DEF TypeOK, LoopInv
<1> QED BY <1>1, <1>2, <1>4 DEF IInv, LoopInv

\* launch_kernel numbers the blocks of the grid from 0 and starts the loop.
LEMMA LaunchStep ==
    ASSUME IInv, launch_kernel
    PROVE  IInv'
<1> DEFINE g == kernelInfo(trace, "grid_size")
<1>1. g \in Nat
  BY KernelInfoType DEF IInv, Header
<1>2. Idle
  BY DEF IInv, IdleInv, launch_kernel
<1>3. /\ proc' = "spawn" /\ DOMAIN m_blocks' = 0 .. g - 1
      /\ m_mem_inst' = m_mem_inst /\ index' = index /\ next_block' = next_block
      /\ block_vec' = block_vec /\ block_pointer' = block_pointer
      /\ trace' = trace /\ exists' = exists /\ file' = file
      /\ line_no' = line_no /\ starts' = starts
      /\ short' = short /\ doubled' = doubled
  BY DEF launch_kernel, fileVars, spawnVars
<1> HIDE DEF g
<1>4. grid_size' = g
  BY <1>1, <1>3, IntervalSize DEF grid_size
<1>5. active_sms' \in Nat
  BY <1>1, <1>4, StartUpAssumption DEF active_sms
<1>6. GridInv' /\ IdleInv'
  BY <1>1, <1>3 DEF GridInv, IdleInv
<1>7. TurnInv'
  <2>1. \A s \in SMs : Len(block_vec'[s]) = 0
    BY <1>2, <1>3 DEF Idle, EmptySMs
  <2>2. ~ (index' > 0) /\ \A s \in SMs : ~ (s < index')
    BY <1>2, <1>3, StartUpAssumption DEF Idle, SMs
  <2>3. Level(0)'
    BY <2>1, <2>2 DEF Level
  <2> QED BY <2>2, <2>3, StartUpAssumption DEF TurnInv
<1>8. GivenInv'
  BY <1>3 DEF IInv, GivenInv, Idle
<1>9. TypeOK'
  <2>1. next_block' \in 0 .. grid_size'
    BY <1>1, <1>2, <1>3, <1>4 DEF Idle
  <2> QED BY <1>3, <2>1 DEF IInv, TypeOK, TracedBlocks
<1> QED BY <1>3, <1>6, <1>7, <1>8, <1>9 DEF IInv

-----------------------------------------------------------------------------
(* The loop that gives out the first blocks.                               *)

\* The SM whose turn it is exists, and has as many blocks as the SMs behind
\* it.
LEMMA TurnOf ==
    ASSUME IInv, next_block < grid_size, NEW q \in 0 .. max_blocks, Level(q)
    PROVE  /\ active_sms \in 1 .. sm_num /\ index \in 0 .. active_sms - 1
           /\ Len(block_vec[index]) = q
<1>1. PICK n \in Nat : DOMAIN m_blocks = 0 .. n - 1
  BY DEF IInv, GridInv
<1>2. grid_size = n /\ active_sms = IF n < sm_num THEN n ELSE sm_num
  BY <1>1, GridSize
<1>3. index \in SMs /\ next_block \in 0 .. n
  BY <1>2 DEF IInv, TypeOK
<1>4. active_sms \in 1 .. sm_num
  BY <1>2, <1>3, StartUpAssumption
<1>5. index \in 0 .. active_sms - 1
  BY <1>3, <1>4 DEF IInv, TurnInv, SMs
<1> QED BY <1>3, <1>4, <1>5 DEF Level, SMs

\* A full SM: the block goes nowhere, and block_pointer stays.
LEMMA FullStep ==
    ASSUME IInv, SpawnBlock, ~ (Len(block_vec[index]) < max_blocks)
    PROVE  LoopInv'
<1>1. PICK q \in 0 .. max_blocks : Level(q)
  BY DEF IInv, TurnInv
<1>2. /\ active_sms \in 1 .. sm_num /\ index \in 0 .. active_sms - 1
      /\ Len(block_vec[index]) = q
  BY <1>1, TurnOf DEF SpawnBlock
<1>3. Len(block_vec[index]) = max_blocks
  BY <1>1, <1>2, StartUpAssumption
<1>4. /\ m_blocks' = m_blocks /\ m_mem_inst' = m_mem_inst /\ index' = index
      /\ next_block' = next_block + 1 /\ block_vec' = block_vec
      /\ block_pointer' = block_pointer /\ proc' = proc
      /\ proc = "spawn" /\ next_block < grid_size
  BY DEF SpawnBlock
<1>5. grid_size' = grid_size /\ active_sms' = active_sms
  BY <1>4 DEF grid_size, active_sms
<1>6. GridInv' /\ IdleInv'
  BY <1>4 DEF IInv, GridInv, IdleInv
<1>7. TurnInv'
  <2>1. Level(q)'
    BY <1>1, <1>4, <1>5 DEF Level
  <2> QED BY <1>4, <1>5, <2>1 DEF IInv, TurnInv
<1>8. next_block \in Nat /\ grid_size \in Nat
  <2>1. PICK n \in Nat : DOMAIN m_blocks = 0 .. n - 1
    BY DEF IInv, GridInv
  <2>2. grid_size = n
    BY <2>1, GridSize
  <2>3. next_block \in 0 .. grid_size
    BY DEF IInv, TypeOK
  <2> QED BY <2>2, <2>3
<1>9. GivenInv'
  BY <1>3, <1>4, <1>8 DEF IInv, GivenInv
<1>10. next_block' \in 0 .. grid_size'
  BY <1>4, <1>5, <1>8
<1> QED BY <1>4, <1>6, <1>7, <1>9, <1>10 DEF LoopInv, IInv, TypeOK

\* A place: the SM gets the block, and the next one gets the turn.
LEMMA PlaceStep ==
    ASSUME IInv, SpawnBlock, Len(block_vec[index]) < max_blocks
    PROVE  LoopInv'
<1> DEFINE b == next_block
<1>1. PICK q \in 0 .. max_blocks : Level(q)
  BY DEF IInv, TurnInv
<1>2. /\ active_sms \in 1 .. sm_num /\ index \in 0 .. active_sms - 1
      /\ Len(block_vec[index]) = q
  BY <1>1, TurnOf DEF SpawnBlock
<1>3. /\ m_blocks' = m_blocks /\ index' = (index + 1) % active_sms
      /\ next_block' = b + 1
      /\ block_vec' = [block_vec EXCEPT ![index] = Append(@, b)]
      /\ block_pointer' = block_pointer + 1 /\ proc' = proc
      /\ proc = "spawn" /\ b < grid_size
  BY DEF SpawnBlock
<1>4. DOMAIN m_mem_inst' = {b} \cup DOMAIN m_mem_inst
  BY DEF SpawnBlock, load_mem_request
<1>5. grid_size' = grid_size /\ active_sms' = active_sms
  BY <1>3 DEF grid_size, active_sms
<1>6. GridInv' /\ IdleInv'
  BY <1>3 DEF IInv, GridInv, IdleInv
<1>7. b \in Nat /\ grid_size \in Nat
  <2>1. PICK n \in Nat : DOMAIN m_blocks = 0 .. n - 1
    BY DEF IInv, GridInv
  <2>2. grid_size = n
    BY <2>1, GridSize
  <2>3. next_block \in 0 .. grid_size
    BY DEF IInv, TypeOK
  <2> QED BY <2>2, <2>3
<1>8. index \in SMs /\ block_vec \in [SMs -> Seq(Nat)]
  BY DEF IInv, TypeOK
<1> HIDE DEF b
<1>9. block_vec' \in [SMs -> Seq(Nat)]
  <2>1. Append(block_vec[index], b) \in Seq(Nat)
    BY <1>7, <1>8
  <2> QED BY <1>3, <1>8, <2>1
<1>10. \A s \in SMs : block_vec'[s] = IF s = index THEN Append(block_vec[s], b)
                                                   ELSE block_vec[s]
  BY <1>3, <1>8
<1>11. \A s \in SMs : Len(block_vec'[s]) = IF s = index THEN q + 1 ELSE Len(block_vec[s])
  <2>1. block_vec[index] \in Seq(Nat)
    BY <1>8
  <2>2. Len(Append(block_vec[index], b)) = Len(block_vec[index]) + 1
    BY <1>7, <2>1
  <2> QED BY <1>2, <1>10, <2>2
<1>12. index' = IF index + 1 < active_sms THEN index + 1 ELSE 0
  BY <1>2, <1>3, NextIndex
<1>13. index' \in SMs /\ (index' > 0 => index' < active_sms)
  BY <1>2, <1>12, StartUpAssumption DEF SMs
<1>14. TurnInv'
  <2>1. \A s \in SMs : Len(block_vec[s]) = IF s >= active_sms THEN 0
                                           ELSE IF s < index THEN q + 1 ELSE q
    BY <1>1 DEF Level
  <2>2. q < max_blocks
    BY <1>2
  <2>3. CASE index + 1 < active_sms
    <3>1. \A s \in SMs : Len(block_vec'[s]) = IF s >= active_sms THEN 0
                                              ELSE IF s < index + 1 THEN q + 1 ELSE q
      <4> TAKE s \in SMs
      <4>1. s \in Nat /\ index \in Nat /\ active_sms \in Nat
        BY <1>2, StartUpAssumption DEF SMs
      <4> QED BY <1>2, <1>11, <2>1, <2>3, <4>1
    <3>2. index' = index + 1
      BY <1>12, <2>3
    <3>3. Level(q)'
      BY <1>5, <2>2, <3>1, <3>2 DEF Level
    <3> QED BY <1>5, <1>13, <3>3 DEF TurnInv
  <2>4. CASE ~ (index + 1 < active_sms)
    <3>1. \A s \in SMs : Len(block_vec'[s]) = IF s >= active_sms THEN 0 ELSE q + 1
      <4> TAKE s \in SMs
      <4>1. s \in Nat /\ index \in Nat /\ active_sms \in Nat
        BY <1>2, StartUpAssumption DEF SMs
      <4> QED BY <1>2, <1>11, <2>1, <2>4, <4>1
    <3>2. index' = 0
      BY <1>12, <2>4
    <3>3. \A s \in SMs : ~ (s < index')
      BY <3>2, StartUpAssumption DEF SMs
    <3>4. Level(q + 1)'
      BY <1>5, <3>1, <3>2, <3>3 DEF Level
    <3>5. q + 1 \in 0 .. max_blocks
      BY <2>2, StartUpAssumption
    <3> QED BY <1>5, <1>13, <3>4, <3>5 DEF TurnInv
  <2> QED BY <2>3, <2>4
<1>15. UNION {Range(block_vec'[s]) : s \in SMs}
         = {b} \cup UNION {Range(block_vec[s]) : s \in SMs}
  <2>1. \A s \in SMs : block_vec[s] \in Seq(Nat)
    BY <1>8
  <2>2. Range(Append(block_vec[index], b)) = Range(block_vec[index]) \cup {b}
    <3> DEFINE q0 == block_vec[index]
    <3>1. q0 \in Seq(Nat) /\ Len(q0) \in Nat /\ DOMAIN q0 = 1 .. Len(q0)
      BY <1>8, <2>1
    <3> HIDE DEF q0
    <3>2. /\ DOMAIN Append(q0, b) = 1 .. Len(q0) + 1
          /\ Append(q0, b)[Len(q0) + 1] = b
          /\ \A k \in 1 .. Len(q0) : Append(q0, b)[k] = q0[k]
      BY <1>7, <3>1
    <3>3. Range(Append(q0, b)) = Range(q0) \cup {b}
      BY <3>1, <3>2 DEF Range
    <3> QED BY <3>3 DEF q0
  <2>3. \A s \in SMs : Range(block_vec'[s]) =
           IF s = index THEN Range(block_vec[s]) \cup {b} ELSE Range(block_vec[s])
    BY <1>10, <2>2
  <2> QED BY <1>8, <2>3
<1>16. GivenInv'
  <2>1. block_pointer = b
    BY <1>2 DEF IInv, GivenInv, b
  <2>2. UNION {Range(block_vec[s]) : s \in SMs} = 0 .. block_pointer - 1
    BY DEF IInv, GivenInv
  <2>3. {b} \cup (0 .. b - 1) = 0 .. (b + 1) - 1
    BY <1>7
  <2>4. UNION {Range(block_vec'[s]) : s \in SMs} = 0 .. block_pointer' - 1
    BY <1>3, <1>15, <2>1, <2>2, <2>3
  <2> QED BY <1>3, <1>7, <2>1, <2>4 DEF GivenInv
<1>17. next_block' \in 0 .. grid_size'
  BY <1>3, <1>5, <1>7 DEF b
<1>18. DOMAIN m_mem_inst' = UNION {Range(block_vec'[s]) : s \in SMs}
  BY <1>4, <1>15 DEF IInv, TypeOK
<1> QED BY <1>6, <1>9, <1>13, <1>14, <1>16, <1>17, <1>18 DEF LoopInv

LEMMA SpawnStep ==
    ASSUME IInv, SpawnBlock
    PROVE  IInv'
<1>1. LoopInv'
  BY FullStep, PlaceStep
<1>2. /\ trace' = trace /\ exists' = exists /\ file' = file /\ proc' = proc
      /\ line_no' = line_no /\ starts' = starts
      /\ short' = short /\ doubled' = doubled
  BY DEF SpawnBlock, fileVars
<1>3. TypeOK'
  BY <1>1, <1>2 DEF IInv, TypeOK, TracedBlocks, LoopInv
<1> QED BY <1>1, <1>2, <1>3 DEF IInv, LoopInv

LEMMA StutterStep ==
    ASSUME IInv, UNCHANGED vars
    PROVE  IInv'
<1>1. /\ trace' = trace /\ exists' = exists /\ file' = file /\ proc' = proc
      /\ line_no' = line_no /\ starts' = starts /\ UNCHANGED <<kernelVars, spawnVars>>
      /\ short' = short /\ doubled' = doubled
  BY DEF vars, fileVars
<1>2. LoopInv'
  BY <1>1, LoopUnchanged
<1>3. TypeOK'
  BY <1>1, <1>2 DEF IInv, TypeOK, TracedBlocks, LoopInv
<1> QED BY <1>1, <1>2, <1>3 DEF IInv, LoopInv

LEMMA StepInv == IInv /\ [Next]_vars => IInv'
<1> SUFFICES ASSUME IInv, [Next]_vars PROVE IInv'
  OBVIOUS
<1>1. CASE Start \/ Open \/ Write \/ EndOfFile \/ Simulate
  BY <1>1, SplitStep
<1>2. CASE launch_kernel
  BY <1>2, LaunchStep
<1>3. CASE SpawnBlock
  BY <1>3, SpawnStep
<1>4. CASE Stop
  BY <1>4, StopStep
<1>5. CASE UNCHANGED vars
  BY <1>5, StutterStep
<1> QED BY <1>1, <1>2, <1>3, <1>4, <1>5 DEF Next

LEMMA InvAlways == Spec => []IInv
<1> QED BY InitInv, StepInv, PTL DEF Spec

-----------------------------------------------------------------------------
(* The theorems.                                                           *)

\* The start-up keeps to its types, for every kernel and every number of SMs
\* and starts: the split never reads a line behind the last, the loop never
\* uses an SM that does not exist, and the blocks whose accesses were loaded
\* are exactly those some SM has.
THEOREM TypeCorrect == Spec => []TypeOK
<1>1. IInv => TypeOK
  BY DEF IInv
<1> QED BY <1>1, InvAlways, PTL

LEMMA LevelSpawned == IInv => SpawnedPrefix
<1> SUFFICES ASSUME IInv PROVE SpawnedPrefix
  OBVIOUS
<1>1. UNION {Range(block_vec[s]) : s \in SMs} = 0 .. block_pointer - 1
  BY DEF IInv, GivenInv
<1>2. PICK q \in 0 .. max_blocks : Level(q)
  BY DEF IInv, TurnInv
<1>3. \A s \in SMs : Len(block_vec[s]) = IF s >= active_sms THEN 0
                                         ELSE IF s < index THEN q + 1 ELSE q
  BY <1>2 DEF Level
<1>4. /\ q \in Nat /\ q <= max_blocks /\ max_blocks \in Nat
      /\ index \in Nat /\ (index > 0 => q < max_blocks)
      /\ \A s \in SMs : s \in Nat
  BY <1>2, StartUpAssumption DEF Level, IInv, TypeOK, SMs
<1>5. \A s, r \in SMs : s < active_sms /\ r < active_sms =>
         Len(block_vec[s]) <= Len(block_vec[r]) + 1
  <2>0. active_sms \in Nat
    <3>1. PICK n \in Nat : DOMAIN m_blocks = 0 .. n - 1
      BY DEF IInv, GridInv
    <3> QED BY <3>1, GridSize, StartUpAssumption
  <2> TAKE s, r \in SMs
  <2> HAVE s < active_sms /\ r < active_sms
  <2>1. Len(block_vec[s]) \in {q, q + 1} /\ Len(block_vec[r]) \in {q, q + 1}
    BY <1>3, <1>4, <2>0
  <2> QED BY <1>4, <2>1
<1>6. \A s \in SMs : Len(block_vec[s]) <= max_blocks
  <2> TAKE s \in SMs
  <2>1. CASE s < index
    BY <1>3, <1>4, <2>1
  <2>2. CASE ~ (s < index)
    BY <1>3, <1>4, <2>2
  <2> QED BY <2>1, <2>2
<1> QED BY <1>1, <1>5, <1>6 DEF SpawnedPrefix

\* first_spawn_block gives out the first blocks of the grid and no other,
\* one in turn to every SM and no more than an SM takes, whatever the size of
\* the grid: so the block sm_cycle takes next is one nobody has.
THEOREM SpawnsPrefix == Spec => []SpawnedPrefix
<1> QED BY InvAlways, LevelSpawned, PTL
-----------------------------------------------------------------------------
(* The files, line by line.  A split writes the lines of a block behind    *)
(* what the file has, in their order: each is part of a copy of the lines, *)
(* which may lack the last ones.  A block that is not doubled has all of   *)
(* its lines first; what is behind them is of no account.                  *)

\* The lines of a block before line m, and what is written for a line.
BlockLines(b, m) == {k \in DOMAIN trace.mem : k < m /\ trace.mem[k].block = b}
Place(b, k)      == Cardinality(BlockLines(b, k)) + 1
Record(k)        == [warp |-> trace.mem[k].warp, pc |-> trace.mem[k].pc, n |-> trace.mem[k].n]
AllLines         == Len(trace.mem) + 1

\* Behind its first o lines the file of b has the lines of b before m.
Copied(b, m, o) ==
    \A k \in BlockLines(b, m) : /\ o + Place(b, k) \in DOMAIN file[b]
                                /\ file[b][o + Place(b, k)] = Record(k)

\* These are the last ones; these are all there are; all lines are there.
CopyEnds(b, m, o) == Copied(b, m, o) /\ Len(file[b]) = o + Cardinality(BlockLines(b, m))
Partial(b, m)  == CopyEnds(b, m, 0)
Whole(b)       == \E o \in Nat : Copied(b, AllLines, o)

\* Line q of the file of b is the last one of a copy.
LastOfCopy(b, q) == \E o \in Nat, k \in BlockLines(b, AllLines) :
                       q = o + Place(b, k) /\ Copied(b, k + 1, o)

\* How far a first copy that is not complete can be.
Reached(b, m) ==
    CASE proc \in {"open", "write"} -> m = line_no
      [] proc = "off" -> IF 0 \in exists THEN b \in short ELSE m = 1
      [] proc \in {"launch", "spawn", "gpu_cycle"} -> b \in short

SplitDone == IF proc = "off" THEN 0 \in exists ELSE proc \notin {"open", "write"}

ExistsInv ==
    /\ \A b \in TracedBlocks(trace) : file[b] # <<>> => b \in exists
    /\ short # {} => 0 \in exists
    /\ proc = "write" => trace.mem[line_no].block \in exists

TailInv == proc \in {"open", "write"} =>
              \A b \in TracedBlocks(trace) : \E o \in Nat : CopyEnds(b, line_no, o)

WholeInv == SplitDone => \A b \in TracedBlocks(trace) : b \in short \/ Whole(b)

FirstInv == \A b \in TracedBlocks(trace) :
               \/ b \in doubled \/ Copied(b, AllLines, 0)
               \/ \E m \in 1 .. AllLines : Partial(b, m) /\ Reached(b, m)

LinesInv == \A b \in TracedBlocks(trace) : \A q \in DOMAIN file[b] : LastOfCopy(b, q)

FilesInv == ExistsInv /\ TailInv /\ WholeInv /\ FirstInv /\ LinesInv

\* What the kernel and the blocks have of the files.
Accesses(b, w) == [k \in {j \in DOMAIN read_mem(b) : read_mem(b)[j].warp = w} |-> read_mem(b)[k]]

LoadInv ==
    /\ \A b \in DOMAIN m_blocks : /\ b \in 0 .. kernelInfo(trace, "grid_size") - 1
                                  /\ m_blocks[b] = [w \in warp_vec(b) |-> m_insts(b, w)]
    /\ \A b \in DOMAIN m_mem_inst :
          /\ b \in DOMAIN m_blocks
          /\ m_mem_inst[b] = [w \in DOMAIN m_blocks[b] |-> Accesses(b, w)]

-----------------------------------------------------------------------------
(* Counting in ordered sets.                                               *)

LEMMA ImageCount ==
    ASSUME NEW S, IsFiniteSet(S), NEW f, \A x, y \in S : f[x] = f[y] => x = y
    PROVE  /\ IsFiniteSet({f[x] : x \in S})
           /\ Cardinality({f[x] : x \in S}) = Cardinality(S)
<1> DEFINE T == {f[x] : x \in S}
           g == [x \in S |-> f[x]]
<1>1. g \in Bijection(S, T)
  BY DEF Bijection, Injection, Surjection, IsInjective
<1>2. ExistsBijection(S, T)
  BY <1>1 DEF ExistsBijection
<1> HIDE DEF T, g
<1>3. IsFiniteSet(T) /\ Cardinality(T) = Cardinality(S)
  BY <1>2, FS_Bijection
<1> QED BY <1>3 DEF T

\* An element of a set of numbers is found by the number of those below it.
LEMMA SameRank ==
    ASSUME NEW S \in SUBSET Nat, IsFiniteSet(S), NEW x \in S, NEW y \in S,
           Cardinality({z \in S : z < x}) = Cardinality({z \in S : z < y})
    PROVE  x = y
<1>1. ASSUME NEW u \in S, NEW v \in S, u < v,
             Cardinality({z \in S : z < u}) = Cardinality({z \in S : z < v})
      PROVE  FALSE
  <2> DEFINE U == {z \in S : z < u}
             V == {z \in S : z < v}
  <2>0. u \in Nat /\ \A z \in S : z \in Nat
    OBVIOUS
  <2>1. /\ \A z \in S : z < u => z < v
        /\ ~ (u < u)
    BY <1>1, <2>0
  <2>4. U \in SUBSET V /\ u \in V /\ u \notin U
    BY <1>1, <2>1
  <2>2. IsFiniteSet(V)
    <3>1. V \in SUBSET S
      OBVIOUS
    <3> HIDE DEF V
    <3> QED BY <3>1, FS_Subset
  <2>3. Cardinality(U) = Cardinality(V)
    BY <1>1
  <2> HIDE DEF U, V
  <2> QED BY <2>4, <2>2, <2>3, FS_Subset
<1>2. x < y \/ y < x \/ x = y
  OBVIOUS
<1> QED BY <1>1, <1>2

\* As long as the values rise with the lines, there are as many lines before
\* a line as there are values below its value.
LEMMA RisingRank ==
    ASSUME NEW K \in SUBSET Nat, IsFiniteSet(K), NEW f, \A k \in K : f[k] \in Nat,
           \A j, k \in K : j < k => f[j] < f[k], NEW k \in K
    PROVE  Cardinality({j \in K : j < k}) = Cardinality({x \in {f[j] : j \in K} : x < f[k]})
<1> DEFINE J == {j \in K : j < k}
<1>1. \A i, j \in K : f[i] = f[j] => i = j
  <2> TAKE i, j \in K
  <2>1. i < j \/ j < i \/ i = j
    OBVIOUS
  <2>2. f[i] \in Nat /\ f[j] \in Nat
    OBVIOUS
  <2> QED BY <2>1, <2>2
<1>2. {x \in {f[j] : j \in K} : x < f[k]} = {f[j] : j \in J}
  <2>1. ASSUME NEW j \in K, f[j] < f[k] PROVE j < k
    <3>1. j < k \/ k < j \/ j = k
      OBVIOUS
    <3>2. f[j] \in Nat /\ f[k] \in Nat
      OBVIOUS
    <3> QED BY <2>1, <3>1, <3>2
  <2> QED BY <2>1
<1>3. IsFiniteSet(J)
  <2>1. J \in SUBSET K
    OBVIOUS
  <2> HIDE DEF J
  <2> QED BY <2>1, FS_Subset
<1>4. \A i, j \in J : f[i] = f[j] => i = j
  BY <1>1
<1> HIDE DEF J
<1>5. Cardinality({f[j] : j \in J}) = Cardinality(J)
  BY <1>3, <1>4, ImageCount
<1> QED BY <1>2, <1>5 DEF J

-----------------------------------------------------------------------------
(* The places of the lines of a block.                                     *)

LEMMA MemType ==
    ASSUME trace \in Traces
    PROVE  /\ Len(trace.mem) \in Nat /\ DOMAIN trace.mem = 1 .. Len(trace.mem)
           /\ AllLines \in Nat
           /\ \A k \in DOMAIN trace.mem :
                 /\ k \in Nat /\ k < AllLines
                 /\ trace.mem[k].block \in TracedBlocks(trace)
                 /\ Record(k) \in Lines /\ trace.mem[k].n \in Nat
<1>1. Len(trace.mem) \in Nat /\ DOMAIN trace.mem = 1 .. Len(trace.mem)
  BY StartUpAssumption
<1>2. \A k \in DOMAIN trace.mem : trace.mem[k].block \in TracedBlocks(trace)
  BY DEF TracedBlocks
<1>3. \A k \in DOMAIN trace.mem : Record(k) \in Lines /\ trace.mem[k].n \in Nat
  BY StartUpAssumption DEF Record, Lines
<1> QED BY <1>1, <1>2, <1>3 DEF AllLines

LEMMA BlockLinesType ==
    ASSUME trace \in Traces, NEW b, NEW m
    PROVE  /\ BlockLines(b, m) \in SUBSET Nat /\ IsFiniteSet(BlockLines(b, m))
           /\ Cardinality(BlockLines(b, m)) \in Nat
<1>1. BlockLines(b, m) \in SUBSET (1 .. Len(trace.mem))
  BY MemType DEF BlockLines
<1>2. IsFiniteSet(1 .. Len(trace.mem))
  BY MemType, FS_Interval
<1>3. IsFiniteSet(BlockLines(b, m))
  BY <1>1, <1>2, FS_Subset
<1> QED BY <1>1, <1>3, FS_CardinalityType

\* The first line of a block is at place 1, and so on.
LEMMA PlaceRises ==
    ASSUME trace \in Traces, NEW b, NEW m \in Nat,
           NEW j \in BlockLines(b, m), NEW k \in BlockLines(b, m), j < k
    PROVE  Place(b, j) < Place(b, k)
<1>1. BlockLines(b, j) \in SUBSET BlockLines(b, k) /\ j \in BlockLines(b, k)
      /\ j \notin BlockLines(b, j)
  BY MemType DEF BlockLines
<1>2. /\ Cardinality(BlockLines(b, j)) <= Cardinality(BlockLines(b, k))
      /\ Cardinality(BlockLines(b, j)) # Cardinality(BlockLines(b, k))
  BY <1>1, BlockLinesType, FS_Subset
<1> QED BY <1>2, BlockLinesType DEF Place

LEMMA PlaceInjective ==
    ASSUME trace \in Traces, NEW b, NEW m \in Nat,
           NEW j \in BlockLines(b, m), NEW k \in BlockLines(b, m)
    PROVE  /\ Place(b, j) \in Nat \ {0}
           /\ Place(b, j) < Place(b, k) => j < k
           /\ Place(b, j) = Place(b, k) => j = k
<1>1. j \in Nat /\ k \in Nat /\ Place(b, j) \in Nat \ {0} /\ Place(b, k) \in Nat
  BY BlockLinesType DEF Place
<1>2. j < k \/ k < j \/ j = k
  BY <1>1
<1>3. j < k => Place(b, j) < Place(b, k)
  BY PlaceRises
<1>4. k < j => Place(b, k) < Place(b, j)
  BY PlaceRises
<1> QED BY <1>1, <1>2, <1>3, <1>4

LEMMA PlacesFilled ==
    ASSUME trace \in Traces, NEW b, NEW m \in Nat
    PROVE  {Place(b, k) : k \in BlockLines(b, m)} = 1 .. Cardinality(BlockLines(b, m))
<1> DEFINE D == BlockLines(b, m)
           f == [k \in D |-> Place(b, k)]
           T == {f[k] : k \in D}
<1>1. IsFiniteSet(D) /\ D \in SUBSET Nat /\ Cardinality(D) \in Nat
  BY BlockLinesType
<1>2. \A j, k \in D : f[j] = f[k] => j = k
  BY PlaceInjective
<1>3. ASSUME NEW k \in D PROVE f[k] \in 1 .. Cardinality(D)
  <2>1. BlockLines(b, k) \in SUBSET D /\ k \notin BlockLines(b, k)
    BY MemType DEF BlockLines
  <2>2. /\ Cardinality(BlockLines(b, k)) <= Cardinality(D)
        /\ Cardinality(BlockLines(b, k)) # Cardinality(D)
    <3> HIDE DEF D
    <3> QED BY <1>1, <2>1, FS_Subset
  <2> QED BY <1>1, <2>2, BlockLinesType DEF Place
<1>4. T \in SUBSET (1 .. Cardinality(D))
  BY <1>3
<1> HIDE DEF D, f
<1>5. IsFiniteSet(T) /\ Cardinality(T) = Cardinality(D)
  BY <1>1, <1>2, ImageCount
<1> HIDE DEF T
<1>6. /\ IsFiniteSet(1 .. Cardinality(D))
      /\ Cardinality(1 .. Cardinality(D)) = Cardinality(D)
  <2>1. Cardinality(1 .. Cardinality(D)) =
           IF 1 > Cardinality(D) THEN 0 ELSE Cardinality(D) - 1 + 1
    BY <1>1, FS_Interval
  <2> QED BY <1>1, <2>1, FS_Interval
<1>7. T = 1 .. Cardinality(D)
  BY <1>4, <1>5, <1>6, FS_Subset
<1> QED BY <1>7 DEF T, f, D

LEMMA NextLine ==
    ASSUME trace \in Traces, NEW b, NEW m \in DOMAIN trace.mem
    PROVE  /\ BlockLines(b, m + 1) = IF trace.mem[m].block = b THEN BlockLines(b, m) \cup {m}
                                                               ELSE BlockLines(b, m)
           /\ trace.mem[m].block = b =>
                 Cardinality(BlockLines(b, m + 1)) = Cardinality(BlockLines(b, m)) + 1
<1>1. BlockLines(b, m + 1) = IF trace.mem[m].block = b THEN BlockLines(b, m) \cup {m}
                                                       ELSE BlockLines(b, m)
  <2>1. \A k \in DOMAIN trace.mem : k < m + 1 <=> k < m \/ k = m
    BY MemType
  <2> QED BY <2>1 DEF BlockLines
<1>2. m \notin BlockLines(b, m)
  BY MemType DEF BlockLines
<1> QED BY <1>1, <1>2, BlockLinesType, FS_AddElement
-----------------------------------------------------------------------------
(* FilesInv is inductive.                                                  *)

LEMMA SameTrace ==
    ASSUME trace' = trace
    PROVE  /\ \A b, m : BlockLines(b, m)' = BlockLines(b, m)
           /\ \A b, k : Place(b, k)' = Place(b, k)
           /\ \A k : Record(k)' = Record(k)
           /\ TracedBlocks(trace)' = TracedBlocks(trace) /\ AllLines' = AllLines
<1>1. \A b, m : BlockLines(b, m)' = BlockLines(b, m)
  BY DEF BlockLines
<1>2. \A b, k : Place(b, k)' = Place(b, k)
  BY <1>1 DEF Place
<1> QED BY <1>1, <1>2 DEF Record, TracedBlocks, AllLines

LEMMA SameFiles ==
    ASSUME trace' = trace, file' = file
    PROVE  /\ \A b, m, o : Copied(b, m, o)' <=> Copied(b, m, o)
           /\ \A b, m, o : CopyEnds(b, m, o)' <=> CopyEnds(b, m, o)
           /\ \A b, m : Partial(b, m)' <=> Partial(b, m)
           /\ \A b : Whole(b)' <=> Whole(b)
           /\ \A b, q : LastOfCopy(b, q)' <=> LastOfCopy(b, q)
<1>1. \A b, m, o : Copied(b, m, o)' <=> Copied(b, m, o)
  BY SameTrace DEF Copied
<1>2. \A b, m, o : CopyEnds(b, m, o)' <=> CopyEnds(b, m, o)
  BY <1>1, SameTrace DEF CopyEnds
<1>3. \A b, m : Partial(b, m)' <=> Partial(b, m)
  BY <1>2 DEF Partial
<1>4. \A b : Whole(b)' <=> Whole(b)
  BY <1>1, SameTrace DEF Whole
<1>5. \A b, q : LastOfCopy(b, q)' <=> LastOfCopy(b, q)
  BY <1>1, SameTrace DEF LastOfCopy
<1> QED BY <1>1, <1>2, <1>3, <1>4, <1>5

\* Before its first line a copy is empty.
LEMMA NothingCopied ==
    ASSUME trace \in Traces, NEW b, Len(file[b]) \in Nat
    PROVE  CopyEnds(b, 1, Len(file[b])) /\ 1 \in 1 .. AllLines
<1>1. BlockLines(b, 1) = {}
  BY MemType DEF BlockLines
<1>2. Cardinality(BlockLines(b, 1)) = 0
  BY <1>1, FS_EmptySet
<1> QED BY <1>1, <1>2, MemType DEF CopyEnds, Copied, AllLines

LEMMA EmptyFile ==
    ASSUME trace \in Traces, NEW b, file[b] = <<>>
    PROVE  Partial(b, 1) /\ 1 \in 1 .. AllLines
<1>1. Len(file[b]) = 0
  OBVIOUS
<1> QED BY <1>1, NothingCopied DEF Partial

LEMMA FilesInit == Init => FilesInv
<1> SUFFICES ASSUME Init PROVE FilesInv
  OBVIOUS
<1>1. /\ trace \in Traces /\ exists = {} /\ proc = "off" /\ short = {}
      /\ \A b \in TracedBlocks(trace) : file[b] = <<>>
  BY DEF Init
<1>2. ExistsInv /\ TailInv /\ WholeInv
  BY <1>1 DEF ExistsInv, TailInv, WholeInv, SplitDone
<1>3. FirstInv
  <2> SUFFICES ASSUME NEW b \in TracedBlocks(trace)
               PROVE  \E m \in 1 .. AllLines : Partial(b, m) /\ Reached(b, m)
    BY DEF FirstInv
  <2>1. Reached(b, 1)
    BY <1>1 DEF Reached
  <2> QED BY <1>1, <2>1, EmptyFile
<1>4. LinesInv
  BY <1>1 DEF LinesInv
<1> QED BY <1>2, <1>3, <1>4 DEF FilesInv

\* The steps that neither write nor stop.
LEMMA FilesReadStep ==
    ASSUME IInv, FilesInv,
           Start \/ Open \/ EndOfFile \/ launch_kernel \/ SpawnBlock \/ Simulate \/ UNCHANGED vars
    PROVE  FilesInv'
<1>1. /\ trace' = trace /\ file' = file /\ short' = short /\ doubled' = doubled
      /\ exists \subseteq exists' /\ trace \in Traces
      /\ TracedBlocks(trace)' = TracedBlocks(trace) /\ AllLines' = AllLines
  BY SameTrace DEF Start, Open, EndOfFile, launch_kernel, SpawnBlock, Simulate, vars, fileVars, IInv
<1>2. \/ /\ proc = "off" /\ proc' \in {"open", "launch"} /\ exists' = exists
         /\ (proc' = "launch" <=> 0 \in exists) /\ (proc' = "open" => line_no' = 1)
      \/ proc = "open" /\ proc' = "write" /\ line_no' = line_no
      \/ proc = "open" /\ proc' = "launch" /\ line_no = AllLines /\ exists' = exists
      \/ /\ proc \in {"launch", "spawn"} /\ proc' \in {"spawn", "gpu_cycle"} /\ exists' = exists
      \/ proc' = proc /\ exists' = exists /\ line_no' = line_no
  <2>1. CASE Start
    BY <2>1 DEF Start, fileVars
  <2>2. CASE Open
    BY <2>2 DEF Open
  <2>3. CASE EndOfFile
    <3>1. line_no \in 1 .. Len(trace.mem) + 1 /\ line_no > Len(trace.mem) /\ Len(trace.mem) \in Nat
      BY <1>1, <2>3, MemType DEF EndOfFile, IInv, TypeOK
    <3> QED BY <2>3, <3>1 DEF EndOfFile, fileVars, AllLines
  <2>4. CASE launch_kernel \/ SpawnBlock \/ Simulate
    BY <2>4 DEF launch_kernel, SpawnBlock, Simulate, fileVars
  <2>5. CASE UNCHANGED vars
    BY <2>5 DEF vars, fileVars
  <2> QED BY <2>1, <2>2, <2>3, <2>4, <2>5
<1>3. ExistsInv'
  <2>1. proc' = "write" => trace.mem[line_no'].block \in exists'
    BY DEF Start, Open, EndOfFile, launch_kernel, SpawnBlock, Simulate, vars, fileVars,
           FilesInv, ExistsInv
  <2> QED BY <1>1, <2>1 DEF FilesInv, ExistsInv
<1>4. TailInv'
  <2> SUFFICES ASSUME proc' \in {"open", "write"}, NEW b \in TracedBlocks(trace)
               PROVE  \E o \in Nat : CopyEnds(b, line_no', o)
    BY <1>1, SameFiles DEF TailInv
  <2>1. CASE proc = "off"
    <3>1. line_no' = 1 /\ Len(file[b]) \in Nat
      BY <1>2, <2>1 DEF IInv, TypeOK
    <3> QED BY <1>1, <3>1, NothingCopied
  <2>2. CASE proc # "off"
    <3>1. proc \in {"open", "write"} /\ line_no' = line_no
      BY <1>2, <2>2
    <3> QED BY <3>1 DEF FilesInv, TailInv
  <2> QED BY <2>1, <2>2
<1>5. WholeInv'
  <2> SUFFICES ASSUME SplitDone', NEW b \in TracedBlocks(trace), b \notin short
               PROVE  Whole(b)
    BY <1>1, SameFiles DEF WholeInv
  <2>1. CASE SplitDone
    BY <2>1 DEF FilesInv, WholeInv
  <2>2. CASE ~SplitDone
    <3>1. proc = "open" /\ line_no = AllLines
      BY <1>2, <2>2 DEF SplitDone
    <3> QED BY <3>1 DEF FilesInv, TailInv, CopyEnds, Whole
  <2> QED BY <2>1, <2>2
<1>6. FirstInv'
  <2> SUFFICES ASSUME NEW b \in TracedBlocks(trace), b \notin doubled, ~Copied(b, AllLines, 0)
               PROVE  \E m \in 1 .. AllLines : Partial(b, m) /\ Reached(b, m)'
    BY <1>1, SameFiles DEF FirstInv
  <2>1. PICK m \in 1 .. AllLines : Partial(b, m) /\ Reached(b, m)
    BY DEF FilesInv, FirstInv
  <2>2. Reached(b, m)'
    <3>1. CASE proc = "open" /\ line_no = AllLines /\ proc' = "launch"
      BY <2>1, <3>1 DEF Reached, Partial, CopyEnds
    <3>2. CASE ~ (proc = "open" /\ line_no = AllLines /\ proc' = "launch")
      BY <1>1, <1>2, <2>1, <3>2 DEF Reached
    <3> QED BY <3>1, <3>2
  <2> QED BY <2>1, <2>2
<1>7. LinesInv'
  BY <1>1, SameFiles DEF FilesInv, LinesInv
<1> QED BY <1>3, <1>4, <1>5, <1>6, <1>7 DEF FilesInv

\* When no line of a block is left, or as many were written as it has, these
\* were all.
LEMMA NoneLeft ==
    ASSUME trace \in Traces, NEW b, NEW m \in 1 .. AllLines
    PROVE  /\ b \notin {trace.mem[k].block : k \in {j \in DOMAIN trace.mem : j >= m}} =>
                 BlockLines(b, m) = BlockLines(b, AllLines)
           /\ LineCount(b) = Cardinality(BlockLines(b, AllLines))
           /\ LineCount(b) <= Cardinality(BlockLines(b, m)) =>
                 BlockLines(b, m) = BlockLines(b, AllLines)
<1>1. AllLines \in Nat /\ m \in Nat /\ \A k \in DOMAIN trace.mem : k \in Nat /\ k < AllLines
  BY MemType
<1>2. BlockLines(b, m) \in SUBSET BlockLines(b, AllLines)
  BY <1>1 DEF BlockLines
<1>3. BlockLines(b, AllLines) = {k \in DOMAIN trace.mem : trace.mem[k].block = b}
  BY <1>1 DEF BlockLines
<1>4. ASSUME b \notin {trace.mem[k].block : k \in {j \in DOMAIN trace.mem : j >= m}}
      PROVE  BlockLines(b, m) = BlockLines(b, AllLines)
  <2>1. \A k \in DOMAIN trace.mem : trace.mem[k].block = b => k < m
    BY <1>1, <1>4
  <2> QED BY <1>3, <2>1 DEF BlockLines
<1>5. ASSUME LineCount(b) <= Cardinality(BlockLines(b, m))
      PROVE  BlockLines(b, m) = BlockLines(b, AllLines)
  <2>1. Cardinality(BlockLines(b, m)) <= Cardinality(BlockLines(b, AllLines))
    BY <1>2, BlockLinesType, FS_Subset
  <2>2. Cardinality(BlockLines(b, m)) = Cardinality(BlockLines(b, AllLines))
    BY <1>3, <1>5, <2>1, BlockLinesType DEF LineCount
  <2> QED BY <1>2, <2>2, BlockLinesType, FS_Subset
<1> QED BY <1>3, <1>4, <1>5 DEF LineCount

LEMMA CopiedAll ==
    ASSUME NEW b, NEW m, NEW o, Copied(b, m, o), BlockLines(b, m) = BlockLines(b, AllLines)
    PROVE  Copied(b, AllLines, o)
  BY DEF Copied

\* A stop: what was written so far stays.
LEMMA FilesStopStep ==
    ASSUME IInv, FilesInv, Stop
    PROVE  FilesInv'
<1> DEFINE splitting == proc \in {"open", "write"}
<1>1. /\ trace' = trace /\ file' = file /\ exists' = exists /\ proc' = "off" /\ proc # "off"
      /\ short' = short \cup IF splitting /\ 0 \in exists THEN Unfinished ELSE {}
      /\ doubled' = doubled \cup IF splitting /\ 0 \notin exists THEN Begun ELSE {}
  BY DEF Stop, fileVars
<1>2. /\ TracedBlocks(trace)' = TracedBlocks(trace) /\ AllLines' = AllLines
      /\ trace \in Traces /\ line_no \in 1 .. AllLines
      /\ \A b \in TracedBlocks(trace) : file[b] \in Seq(Lines) /\ Len(file[b]) \in Nat
  BY <1>1, SameTrace DEF IInv, TypeOK, AllLines
<1>3. ExistsInv'
  BY <1>1, <1>2 DEF FilesInv, ExistsInv
<1>4. TailInv' /\ LinesInv'
  BY <1>1, <1>2, SameFiles DEF FilesInv, TailInv, LinesInv
<1>5. WholeInv'
  <2> SUFFICES ASSUME 0 \in exists, NEW b \in TracedBlocks(trace), b \notin short'
               PROVE  Whole(b)
    BY <1>1, <1>2, SameFiles DEF WholeInv, SplitDone
  <2>1. CASE ~splitting
    BY <1>1, <2>1 DEF FilesInv, WholeInv, SplitDone
  <2>2. CASE splitting
    <3>1. b \notin Unfinished
      BY <1>1, <2>2
    <3>2. BlockLines(b, line_no) = BlockLines(b, AllLines)
      BY <1>2, <3>1, NoneLeft DEF Unfinished
    <3>3. PICK o \in Nat : Copied(b, line_no, o)
      BY <2>2 DEF FilesInv, TailInv, CopyEnds
    <3> QED BY <3>2, <3>3, CopiedAll DEF Whole
  <2> QED BY <2>1, <2>2
<1>6. FirstInv'
  <2> SUFFICES ASSUME NEW b \in TracedBlocks(trace), b \notin doubled', ~Copied(b, AllLines, 0)
               PROVE  \E m \in 1 .. AllLines : Partial(b, m) /\ Reached(b, m)'
    BY <1>1, <1>2, SameFiles DEF FirstInv
  <2>1. PICK m \in 1 .. AllLines : Partial(b, m) /\ Reached(b, m)
    BY <1>1 DEF FilesInv, FirstInv
  <2>2. CASE b \in short'
    <3>1. Reached(b, m)'
      BY <1>1, <1>3, <2>2 DEF Reached, ExistsInv
    <3> QED BY <2>1, <3>1
  <2>3. CASE b \notin short'
    <3>1. splitting /\ m = line_no
      BY <1>1, <2>1, <2>3 DEF Reached, IInv, TypeOK
    <3>2. BlockLines(b, m) # BlockLines(b, AllLines)
      BY <2>1, CopiedAll DEF Partial, CopyEnds
    <3>3. 0 \notin exists
      <4>1. b \in Unfinished
        BY <1>2, <3>1, <3>2, NoneLeft DEF Unfinished
      <4> QED BY <1>1, <2>3, <3>1, <4>1
    <3>4. b \notin Begun
      BY <1>1, <3>1, <3>3
    <3>5. Len(file[b]) = Cardinality(BlockLines(b, m)) /\ LineCount(b) \in Nat
      BY <1>2, <2>1, NoneLeft, BlockLinesType DEF Partial, CopyEnds
    <3>6. ~ (LineCount(b) <= Len(file[b]))
      BY <1>2, <3>2, <3>5, NoneLeft
    <3>7. Len(file[b]) = 0
      BY <1>2, <3>4, <3>5, <3>6 DEF Begun
    <3>8. file[b] = <<>>
      BY <1>2, <3>7
    <3>9. Reached(b, 1)'
      BY <1>1, <3>3 DEF Reached
    <3> QED BY <1>2, <3>8, <3>9, EmptyFile
  <2> QED BY <2>2, <2>3
<1> QED BY <1>3, <1>4, <1>5, <1>6 DEF FilesInv

\* A line is written: it goes behind the others of its block.
LEMMA CopiedAppend ==
    ASSUME file \in [TracedBlocks(trace) -> Seq(Lines)], trace' = trace,
           NEW c \in TracedBlocks(trace), NEW r \in Lines,
           file' = [file EXCEPT ![c] = Append(@, r)],
           NEW b \in TracedBlocks(trace), NEW m, NEW o, Copied(b, m, o)
    PROVE  Copied(b, m, o)'
<1>1. file[c] \in Seq(Lines) /\ Len(file[c]) \in Nat /\ DOMAIN file[c] = 1 .. Len(file[c])
  OBVIOUS
<1>2. /\ DOMAIN Append(file[c], r) = 1 .. Len(file[c]) + 1
      /\ \A q \in 1 .. Len(file[c]) : Append(file[c], r)[q] = file[c][q]
  BY <1>1
<1>3. file'[b] = IF b = c THEN Append(file[c], r) ELSE file[b]
  OBVIOUS
<1>4. \A q \in DOMAIN file[b] : q \in DOMAIN file'[b] /\ file'[b][q] = file[b][q]
  BY <1>1, <1>2, <1>3
<1> QED BY <1>4, SameTrace DEF Copied

\* A copy at the end of a file gets the next line.
LEMMA CopyGrows ==
    ASSUME trace \in Traces, trace' = trace, file \in [TracedBlocks(trace) -> Seq(Lines)],
           NEW l \in DOMAIN trace.mem,
           file' = [file EXCEPT ![trace.mem[l].block] = Append(@, Record(l))],
           NEW b \in TracedBlocks(trace), NEW o \in Nat, CopyEnds(b, l, o)
    PROVE  CopyEnds(b, l + 1, o)' /\ (trace.mem[l].block = b => Len(file'[b]) = o + Place(b, l))
<1> DEFINE c == trace.mem[l].block
           r == Record(l)
<1>1. c \in TracedBlocks(trace) /\ r \in Lines /\ l \in Nat
  BY MemType
<1>2. file' = [file EXCEPT ![c] = Append(@, r)]
  OBVIOUS
<1> HIDE DEF c, r
<1>3. Copied(b, l, o) /\ Copied(b, l, o)' /\ Len(file[b]) = o + Cardinality(BlockLines(b, l))
  BY <1>1, <1>2, CopiedAppend DEF CopyEnds
<1>4. file[b] \in Seq(Lines) /\ Len(file[b]) \in Nat /\ Cardinality(BlockLines(b, l)) \in Nat
  BY BlockLinesType
<1>5. CASE b # c
  <2>1. BlockLines(b, l + 1) = BlockLines(b, l)
    BY <1>5, NextLine DEF c
  <2>2. file'[b] = file[b]
    BY <1>1, <1>2, <1>5
  <2>3. BlockLines(b, l + 1)' = BlockLines(b, l)' /\ BlockLines(b, l)' = BlockLines(b, l)
    BY <2>1, SameTrace
  <2> QED BY <1>3, <1>5, <2>1, <2>2, <2>3 DEF Copied, CopyEnds, c
<1>6. CASE b = c
  <2>1. /\ BlockLines(b, l + 1) = BlockLines(b, l) \cup {l}
        /\ Cardinality(BlockLines(b, l + 1)) = Cardinality(BlockLines(b, l)) + 1
    BY <1>6, NextLine DEF c
  <2>2. file'[b] = Append(file[b], r)
    BY <1>1, <1>2, <1>6
  <2>3. /\ DOMAIN file'[b] = 1 .. Len(file[b]) + 1
        /\ file'[b][Len(file[b]) + 1] = r /\ Len(file'[b]) = Len(file[b]) + 1
    BY <1>1, <1>4, <2>2
  <2>4. o + Place(b, l) = Len(file[b]) + 1
    BY <1>3, <1>4 DEF Place
  <2>5. \A k \in BlockLines(b, l) :
           o + Place(b, k) \in DOMAIN file'[b] /\ file'[b][o + Place(b, k)] = Record(k)
    BY <1>3, SameTrace DEF Copied
  <2>6. o + Place(b, l) \in DOMAIN file'[b] /\ file'[b][o + Place(b, l)] = Record(l)
    BY <1>4, <2>3, <2>4 DEF r
  <2>7. \A k \in BlockLines(b, l + 1) :
           o + Place(b, k) \in DOMAIN file'[b] /\ file'[b][o + Place(b, k)] = Record(k)
    BY <2>1, <2>5, <2>6
  <2>8. Copied(b, l + 1, o)'
    BY <2>7, SameTrace DEF Copied
  <2>9. Len(file'[b]) = o + Cardinality(BlockLines(b, l + 1))
    BY <1>3, <1>4, <2>1, <2>3
  <2> QED BY <2>3, <2>4, <2>8, <2>9, SameTrace DEF CopyEnds
<1> QED BY <1>5, <1>6

LEMMA FilesWriteStep ==
    ASSUME IInv, FilesInv, Write
    PROVE  FilesInv'
<1>0. PICK l : l = line_no
  OBVIOUS
<1> DEFINE c == trace.mem[l].block
           r == Record(l)
<1>1. /\ trace \in Traces /\ file \in [TracedBlocks(trace) -> Seq(Lines)]
      /\ l \in DOMAIN trace.mem /\ c \in exists /\ proc = "write"
  BY <1>0, MemType DEF Write, IInv, TypeOK, FilesInv, ExistsInv
<1>2. c \in TracedBlocks(trace) /\ r \in Lines /\ l \in Nat /\ l \in 1 .. AllLines
      /\ l + 1 \in 1 .. AllLines
  BY <1>1, MemType DEF AllLines
<1>3. /\ file' = [file EXCEPT ![c] = Append(@, r)]
      /\ trace' = trace /\ exists' = exists /\ short' = short /\ doubled' = doubled
      /\ proc' = "open" /\ line_no' = l + 1
  BY <1>0 DEF Write, Record
<1>4. TracedBlocks(trace)' = TracedBlocks(trace) /\ AllLines' = AllLines
  BY <1>3, SameTrace
<1>5. \A b \in TracedBlocks(trace) : \A m, o : Copied(b, m, o) => Copied(b, m, o)'
  <2> HIDE DEF c, r
  <2> QED BY <1>1, <1>2, <1>3, CopiedAppend
<1>6. \A b \in TracedBlocks(trace), o \in Nat : CopyEnds(b, l, o) =>
         CopyEnds(b, l + 1, o)' /\ (b = c => Len(file'[b]) = o + Place(b, l))
  BY <1>1, <1>3, CopyGrows
<1>7. \A b \in TracedBlocks(trace) : \E o \in Nat : CopyEnds(b, l, o)
  BY <1>0, <1>1 DEF FilesInv, TailInv
<1> HIDE DEF c, r
<1>8. ExistsInv'
  BY <1>1, <1>2, <1>3, <1>4 DEF FilesInv, ExistsInv
<1>9. TailInv' /\ WholeInv'
  BY <1>3, <1>4, <1>6, <1>7 DEF TailInv, WholeInv, SplitDone
<1>10. FirstInv'
  <2> SUFFICES ASSUME NEW b \in TracedBlocks(trace), b \notin doubled, ~Copied(b, AllLines, 0)'
               PROVE  Partial(b, l + 1)' /\ Reached(b, l + 1)'
    BY <1>2, <1>3, <1>4 DEF FirstInv
  <2>1. ~Copied(b, AllLines, 0)
    BY <1>4, <1>5
  <2>2. Partial(b, l)
    BY <1>0, <1>1, <2>1 DEF FilesInv, FirstInv, Reached
  <2> QED BY <1>3, <1>6, <2>2 DEF Partial, Reached
<1>11. LinesInv'
  <2> SUFFICES ASSUME NEW b \in TracedBlocks(trace), NEW q \in DOMAIN file'[b]
               PROVE  LastOfCopy(b, q)'
    BY <1>4 DEF LinesInv
  <2>1. CASE q \in DOMAIN file[b]
    <3>1. PICK o \in Nat, k \in BlockLines(b, AllLines) :
             q = o + Place(b, k) /\ Copied(b, k + 1, o)
      BY <2>1 DEF FilesInv, LinesInv, LastOfCopy
    <3>2. Copied(b, k + 1, o)' /\ k \in BlockLines(b, AllLines)' /\ q = o + Place(b, k)'
      BY <1>3, <1>5, <3>1, SameTrace
    <3> QED BY <3>2 DEF LastOfCopy
  <2>2. CASE q \notin DOMAIN file[b]
    <3>1. file[b] \in Seq(Lines) /\ Len(file[b]) \in Nat /\ DOMAIN file[b] = 1 .. Len(file[b])
      BY <1>1
    <3>2. b = c
      BY <1>1, <1>2, <1>3, <2>2
    <3>3. file'[b] = Append(file[b], r)
      BY <1>1, <1>2, <1>3, <3>2
    <3>4. q = Len(file'[b])
      BY <1>2, <2>2, <3>1, <3>3
    <3>5. PICK o \in Nat : CopyEnds(b, l, o)
      BY <1>7
    <3>6. q = o + Place(b, l) /\ Copied(b, l + 1, o)'
      BY <1>6, <3>2, <3>4, <3>5 DEF CopyEnds
    <3>7. l \in BlockLines(b, AllLines)
      BY <1>1, <3>2, MemType DEF BlockLines, c
    <3>8. l \in BlockLines(b, AllLines)' /\ q = o + Place(b, l)'
      BY <1>3, <3>6, <3>7, SameTrace
    <3> QED BY <3>6, <3>8 DEF LastOfCopy
  <2> QED BY <2>1, <2>2
<1> QED BY <1>8, <1>9, <1>10, <1>11 DEF FilesInv

LEMMA FilesStep == IInv /\ FilesInv /\ [Next]_vars => FilesInv'
BY FilesReadStep, FilesStopStep, FilesWriteStep DEF Next

-----------------------------------------------------------------------------
(* LoadInv is inductive.                                                   *)

LEMMA SameProgram ==
    ASSUME trace' = trace
    PROVE  /\ kernelInfo(trace, "grid_size")' = kernelInfo(trace, "grid_size")
           /\ \A b : warp_vec(b)' = warp_vec(b)
           /\ \A b, w : m_insts(b, w)' = m_insts(b, w)
<1>1. kernelInfo(trace, "grid_size")' = kernelInfo(trace, "grid_size")
  BY DEF kernelInfo
<1>2. trace_insts' = trace_insts
  BY DEF trace_insts, InstLines, SassKey
<1>3. \A b : warp_vec(b)' = warp_vec(b)
  BY <1>2 DEF warp_vec
<1>4. \A b, w : m_insts(b, w)' = m_insts(b, w)
  BY <1>2 DEF m_insts, RestrictValues, Restrict
<1> QED BY <1>1, <1>3, <1>4

LEMMA SameAccesses ==
    ASSUME file' = file, exists' = exists
    PROVE  \A b, w : Accesses(b, w)' = Accesses(b, w)
<1>1. \A b : read_mem(b)' = read_mem(b)
  BY DEF read_mem
<1> QED BY <1>1 DEF Accesses

LEMMA NothingLoaded == m_blocks = <<>> /\ m_mem_inst = <<>> => LoadInv
BY DEF LoadInv

LEMMA LoadInit == Init => LoadInv
BY NothingLoaded DEF Init

LEMMA LoadStep ==
    ASSUME IInv, LoadInv, [Next]_vars
    PROVE  LoadInv'
<1>1. CASE Start \/ Open \/ Write \/ EndOfFile \/ Stop
  <2>1. m_blocks' = <<>> /\ m_mem_inst' = <<>>
    BY <1>1 DEF Start, Open, Write, EndOfFile, Stop, kernelVars, IInv, IdleInv, Idle
  <2> QED BY <2>1 DEF LoadInv
<1>2. CASE launch_kernel
  <2>1. /\ m_mem_inst' = <<>> /\ trace' = trace
        /\ m_blocks' = [b \in 0 .. kernelInfo(trace, "grid_size") - 1 |->
                           [w \in warp_vec(b) |-> m_insts(b, w)]]
    BY <1>2 DEF launch_kernel, IInv, IdleInv, Idle
  <2> QED BY <2>1, SameProgram DEF LoadInv
<1>3. CASE SpawnBlock
  <2>1. /\ m_blocks' = m_blocks /\ trace' = trace /\ file' = file /\ exists' = exists
        /\ next_block < grid_size
    BY <1>3 DEF SpawnBlock, fileVars
  <2>2. next_block \in DOMAIN m_blocks
    <3>1. PICK n \in Nat : DOMAIN m_blocks = 0 .. n - 1
      BY DEF IInv, GridInv
    <3>2. grid_size = n /\ next_block \in 0 .. grid_size
      BY <3>1, GridSize DEF IInv, TypeOK
    <3> QED BY <2>1, <3>1, <3>2
  <2>3. \/ m_mem_inst' = m_mem_inst
        \/ m_mem_inst' = [c \in {next_block} \cup DOMAIN m_mem_inst |->
                             IF c = next_block
                             THEN [w \in DOMAIN m_blocks[next_block] |-> Accesses(next_block, w)]
                             ELSE m_mem_inst[c]]
    BY <1>3 DEF SpawnBlock, load_mem_request, RestrictValues, Restrict, Accesses
  <2>4. \A b \in DOMAIN m_mem_inst' :
           /\ b \in DOMAIN m_blocks
           /\ m_mem_inst'[b] = [w \in DOMAIN m_blocks[b] |-> Accesses(b, w)]
    BY <2>2, <2>3 DEF LoadInv
  <2>5. \A b, w : Accesses(b, w)' = Accesses(b, w)
    BY <2>1, SameAccesses
  <2> QED BY <2>1, <2>4, <2>5, SameProgram DEF LoadInv
<1>4. CASE Simulate \/ UNCHANGED vars
  <2>1. /\ m_blocks' = m_blocks /\ m_mem_inst' = m_mem_inst /\ trace' = trace
        /\ file' = file /\ exists' = exists
    BY <1>4 DEF Simulate, vars, fileVars, kernelVars
  <2>2. \A b, w : Accesses(b, w)' = Accesses(b, w)
    BY <2>1, SameAccesses
  <2> QED BY <2>1, <2>2, SameProgram DEF LoadInv
<1> QED BY <1>1, <1>2, <1>3, <1>4 DEF Next
-----------------------------------------------------------------------------
(* Both numbers of an execution.  n rises along the lines of a warp in both *)
(* files, so the number of a line among those with its pc is the number of  *)
(* executions of that pc that came before: the same set in both files.      *)

\* The lines of both files for a pc of warp w of block b, and its executions.
MemLines(b, w, p)  == {k \in MemOf(trace, b, w) : trace.mem[k].pc = p}
InstsOf(b, w, p)   == {k \in SassOf(trace, b, w) : trace.sass[k].pc = p}
Executions(b, w, p) == {trace.mem[k].n : k \in MemLines(b, w, p)}
Earlier(b, w, p, n) == Cardinality({x \in Executions(b, w, p) : x < n})

\* The number read_mem gives to line q of the file of b.
FileRank(b, q) ==
    Cardinality({j \in DOMAIN file[b] : /\ j < q
                                        /\ file[b][j].warp = file[b][q].warp
                                        /\ file[b][j].pc = file[b][q].pc})

LEMMA MemLinesType ==
    ASSUME trace \in Traces, NEW b, NEW w, NEW p
    PROVE  /\ MemLines(b, w, p) \in SUBSET Nat /\ IsFiniteSet(MemLines(b, w, p))
           /\ MemLines(b, w, p) \subseteq BlockLines(b, AllLines)
           /\ \A k \in MemLines(b, w, p) : trace.mem[k].n \in Nat
           /\ Executions(b, w, p) \in SUBSET Nat /\ IsFiniteSet(Executions(b, w, p))
<1>1. MemLines(b, w, p) \in SUBSET BlockLines(b, AllLines)
  BY MemType DEF MemLines, MemOf, BlockLines
<1>2. \A k \in MemLines(b, w, p) : trace.mem[k].n \in Nat
  BY MemType DEF MemLines, MemOf
<1>3. IsFiniteSet(MemLines(b, w, p)) /\ MemLines(b, w, p) \in SUBSET Nat
  BY <1>1, BlockLinesType, FS_Subset
<1>4. IsFiniteSet(Executions(b, w, p))
  <2> DEFINE f == [k \in MemLines(b, w, p) |-> trace.mem[k].n]
  <2>1. f \in Surjection(MemLines(b, w, p), Executions(b, w, p))
    BY DEF Surjection, Executions
  <2> HIDE DEF f
  <2> QED BY <1>3, <2>1, FS_Surjection
<1> QED BY <1>1, <1>2, <1>3, <1>4 DEF Executions

LEMMA MemRank ==
    ASSUME trace \in Traces, NEW b, NEW w, NEW p, InOrder(trace.mem, MemOf(trace, b, w))
    PROVE  /\ \A k \in MemLines(b, w, p) : Cardinality({j \in MemLines(b, w, p) : j < k})
                                              = Earlier(b, w, p, trace.mem[k].n)
           /\ Cardinality(MemLines(b, w, p)) = Cardinality(Executions(b, w, p))
<1> DEFINE K == MemLines(b, w, p)
           f == [k \in K |-> trace.mem[k].n]
<1>1. K \in SUBSET Nat /\ IsFiniteSet(K) /\ \A k \in K : f[k] \in Nat
  BY MemLinesType
<1>2. \A j, k \in K : j < k => f[j] < f[k]
  BY DEF InOrder, MemLines
<1>3. {f[k] : k \in K} = Executions(b, w, p)
  BY DEF Executions
<1>4. \A j, k \in K : f[j] = f[k] => j = k
  <2> TAKE j, k \in K
  <2>1. j < k \/ k < j \/ j = k
    BY <1>1
  <2>2. f[j] \in Nat /\ f[k] \in Nat
    BY <1>1
  <2> QED BY <1>2, <2>1, <2>2
<1>5. \A k \in K : f[k] = trace.mem[k].n
  OBVIOUS
<1> HIDE DEF K, f
<1>6. Cardinality({f[k] : k \in K}) = Cardinality(K)
  BY <1>1, <1>4, ImageCount
<1>7. \A k \in K : Cardinality({j \in K : j < k})
                      = Cardinality({x \in {f[j] : j \in K} : x < f[k]})
  BY <1>1, <1>2, RisingRank
<1> QED BY <1>3, <1>5, <1>6, <1>7 DEF K, Earlier

LEMMA CopiedLine ==
    ASSUME NEW b, NEW m, NEW o, Copied(b, m, o), NEW j \in BlockLines(b, m)
    PROVE  /\ o + Place(b, j) \in DOMAIN file[b] /\ j \in DOMAIN trace.mem /\ trace.mem[j].block = b
           /\ file[b][o + Place(b, j)].warp = trace.mem[j].warp
           /\ file[b][o + Place(b, j)].pc = trace.mem[j].pc
           /\ file[b][o + Place(b, j)].n = trace.mem[j].n
<1>1. o + Place(b, j) \in DOMAIN file[b] /\ file[b][o + Place(b, j)] = Record(j)
  BY DEF Copied
<1>2. /\ Record(j).warp = trace.mem[j].warp /\ Record(j).pc = trace.mem[j].pc
      /\ Record(j).n = trace.mem[j].n
  BY DEF Record
<1> QED BY <1>1, <1>2 DEF BlockLines

LEMMA FirstLine ==
    ASSUME trace \in Traces, NEW b, NEW m, Copied(b, m, 0), NEW j \in BlockLines(b, m)
    PROVE  /\ Place(b, j) \in DOMAIN file[b] /\ j \in DOMAIN trace.mem /\ trace.mem[j].block = b
           /\ file[b][Place(b, j)].warp = trace.mem[j].warp
           /\ file[b][Place(b, j)].pc = trace.mem[j].pc
           /\ file[b][Place(b, j)].n = trace.mem[j].n
<1>1. 0 + Place(b, j) = Place(b, j)
  BY BlockLinesType DEF Place
<1>2. /\ 0 + Place(b, j) \in DOMAIN file[b] /\ j \in DOMAIN trace.mem /\ trace.mem[j].block = b
      /\ file[b][0 + Place(b, j)].warp = trace.mem[j].warp
      /\ file[b][0 + Place(b, j)].pc = trace.mem[j].pc
      /\ file[b][0 + Place(b, j)].n = trace.mem[j].n
  BY CopiedLine
<1> QED BY <1>1, <1>2

\* A line of the first copy has the number of its execution.
LEMMA PlaceRank ==
    ASSUME trace \in Traces, NEW m \in Nat, NEW b, Copied(b, m, 0), NEW k \in BlockLines(b, m),
           DOMAIN file[b] \subseteq Nat \ {0},
           InOrder(trace.mem, MemOf(trace, b, trace.mem[k].warp))
    PROVE  FileRank(b, Place(b, k))
              = Earlier(b, trace.mem[k].warp, trace.mem[k].pc, trace.mem[k].n)
<1> DEFINE w == trace.mem[k].warp
           p == trace.mem[k].pc
           J == {j \in MemLines(b, w, p) : j < k}
           q == Place(b, k)
           f == [j \in BlockLines(b, m) |-> Place(b, j)]
           R == {j \in DOMAIN file[b] : /\ j < q
                                        /\ file[b][j].warp = file[b][q].warp
                                        /\ file[b][j].pc = file[b][q].pc}
<1>1. /\ k \in Nat /\ k \in DOMAIN trace.mem /\ trace.mem[k].block = b
      /\ k < m /\ k \in MemLines(b, w, p)
  BY MemType DEF BlockLines, MemLines, MemOf
<1>2. J \subseteq BlockLines(b, m)
  <2>1. \A j \in MemLines(b, w, p) : j \in Nat /\ j \in DOMAIN trace.mem /\ trace.mem[j].block = b
    BY MemType DEF MemLines, MemOf
  <2> QED BY <1>1, <2>1 DEF BlockLines
<1>3. \A j \in BlockLines(b, m) :
         /\ Place(b, j) \in DOMAIN file[b] /\ j \in DOMAIN trace.mem /\ trace.mem[j].block = b
         /\ file[b][Place(b, j)].warp = trace.mem[j].warp
         /\ file[b][Place(b, j)].pc = trace.mem[j].pc
  BY FirstLine
<1>4. q \in 1 .. Cardinality(BlockLines(b, m)) /\ Cardinality(BlockLines(b, m)) \in Nat
  BY PlacesFilled, BlockLinesType
<1>5. ASSUME NEW j \in J PROVE f[j] \in R
  <2>1. j \in BlockLines(b, m) /\ j < k /\ trace.mem[j].warp = w /\ trace.mem[j].pc = p
    BY <1>2 DEF MemLines, MemOf
  <2>2. Place(b, j) < Place(b, k)
    BY <2>1, PlaceRises
  <2> QED BY <1>3, <2>1, <2>2
<1>6. ASSUME NEW r \in R PROVE \E j \in J : f[j] = r
  <2>1. r \in 1 .. Cardinality(BlockLines(b, m))
    BY <1>4
  <2>2. PICK j \in BlockLines(b, m) : r = Place(b, j)
    BY <2>1, PlacesFilled
  <2>3. j < k
    BY <2>2, PlaceInjective
  <2>4. j \in MemLines(b, w, p)
    BY <1>3, <2>2 DEF MemLines, MemOf
  <2> QED BY <2>2, <2>3, <2>4
<1>7. {f[j] : j \in J} = R
  <2> HIDE DEF J, R, f
  <2> QED BY <1>5, <1>6
<1>8. \A i, j \in J : f[i] = f[j] => i = j
  BY <1>2, PlaceInjective
<1>9. IsFiniteSet(J)
  <2>1. J \in SUBSET MemLines(b, w, p)
    OBVIOUS
  <2> HIDE DEF J
  <2> QED BY <2>1, MemLinesType, FS_Subset
<1>10. Cardinality(J) = Earlier(b, w, p, trace.mem[k].n)
  BY <1>1, MemRank
<1> HIDE DEF J, f
<1>11. Cardinality({f[j] : j \in J}) = Cardinality(J)
  BY <1>8, <1>9, ImageCount
<1> QED BY <1>7, <1>10, <1>11 DEF FileRank

\* A line behind the first copy has a number no execution has.
LEMMA BehindRank ==
    ASSUME trace \in Traces, NEW b, Copied(b, AllLines, 0), NEW q \in DOMAIN file[b],
           DOMAIN file[b] \subseteq Nat \ {0}, IsFiniteSet(DOMAIN file[b]),
           q > Cardinality(BlockLines(b, AllLines)),
           InOrder(trace.mem, MemOf(trace, b, file[b][q].warp))
    PROVE  Cardinality(Executions(b, file[b][q].warp, file[b][q].pc)) <= FileRank(b, q)
<1> DEFINE w == file[b][q].warp
           p == file[b][q].pc
           K == MemLines(b, w, p)
           f == [j \in BlockLines(b, AllLines) |-> Place(b, j)]
           T == {f[j] : j \in K}
           R == {j \in DOMAIN file[b] : j < q /\ file[b][j].warp = w /\ file[b][j].pc = p}
<1>0. AllLines \in Nat
  BY MemType
<1>1. K \subseteq BlockLines(b, AllLines) /\ IsFiniteSet(K)
  BY MemLinesType
<1>2. ASSUME NEW j \in K PROVE f[j] \in R
  <2>1. /\ Place(b, j) \in DOMAIN file[b] /\ file[b][Place(b, j)].warp = w
        /\ file[b][Place(b, j)].pc = p
    BY <1>1, FirstLine DEF MemLines, MemOf
  <2>2. Place(b, j) \in 1 .. Cardinality(BlockLines(b, AllLines))
    BY <1>0, <1>1, PlacesFilled
  <2>3. Place(b, j) < q
    BY <2>2, BlockLinesType
  <2> QED BY <1>1, <2>1, <2>3
<1>3. \A i, j \in K : f[i] = f[j] => i = j
  BY <1>0, <1>1, PlaceInjective
<1>4. T \in SUBSET R
  BY <1>2
<1>5. R \in SUBSET DOMAIN file[b]
  OBVIOUS
<1>6. Cardinality(K) = Cardinality(Executions(b, w, p))
  BY MemRank
<1> HIDE DEF K, f
<1>7. Cardinality(T) = Cardinality(K)
  BY <1>1, <1>3, ImageCount
<1>8. FileRank(b, q) = Cardinality(R)
  BY DEF FileRank
<1> HIDE DEF T, R
<1>9. IsFiniteSet(R)
  BY <1>5, FS_Subset
<1>10. Cardinality(T) <= Cardinality(R)
  BY <1>4, <1>9, FS_Subset
<1> QED BY <1>6, <1>7, <1>8, <1>10

\* An earlier execution has a smaller number.
LEMMA EarlierLess ==
    ASSUME trace \in Traces, NEW b, NEW w, NEW p, NEW n \in Executions(b, w, p)
    PROVE  /\ Earlier(b, w, p, n) \in Nat
           /\ Cardinality(Executions(b, w, p)) \in Nat
           /\ Earlier(b, w, p, n) < Cardinality(Executions(b, w, p))
           /\ \A x \in Executions(b, w, p) :
                 /\ Earlier(b, w, p, x) = Earlier(b, w, p, n) => x = n
                 /\ Earlier(b, w, p, x) <= Earlier(b, w, p, n) => x <= n
<1> DEFINE S == Executions(b, w, p)
           T == {x \in S : x < n}
<1>1. S \in SUBSET Nat /\ IsFiniteSet(S)
  BY MemLinesType
<1>2. T \in SUBSET S /\ n \notin T /\ n \in S
  BY <1>1
<1>3. Earlier(b, w, p, n) = Cardinality(T)
  BY DEF Earlier
<1>4. \A x \in S : Cardinality({z \in S : z < x}) = Cardinality({z \in S : z < n}) => x = n
  BY <1>1, <1>2, SameRank
<1>5. \A x \in S : Earlier(b, w, p, x) = Earlier(b, w, p, n) => x = n
  BY <1>4 DEF Earlier
<1>7. ASSUME NEW x \in S, n < x PROVE ~ (Earlier(b, w, p, x) <= Earlier(b, w, p, n))
  <2> DEFINE X == {z \in S : z < x}
  <2>1. \A z \in S : z < n => z < x
    BY <1>1, <1>2, <1>7
  <2>2. T \in SUBSET X /\ n \in X /\ X \in SUBSET S
    BY <1>2, <1>7, <2>1
  <2>3. Earlier(b, w, p, x) = Cardinality(X)
    BY DEF Earlier
  <2> HIDE DEF X, T, S
  <2>4. IsFiniteSet(X)
    BY <1>1, <2>2, FS_Subset
  <2>5. IsFiniteSet(T)
    BY <1>1, <1>2, FS_Subset
  <2>6. /\ Cardinality(T) <= Cardinality(X) /\ Cardinality(T) # Cardinality(X)
        /\ Cardinality(T) \in Nat /\ Cardinality(X) \in Nat
    BY <1>2, <2>2, <2>4, <2>5, FS_Subset, FS_CardinalityType
  <2> QED BY <1>3, <2>3, <2>6
<1>8. \A x \in S : Earlier(b, w, p, x) <= Earlier(b, w, p, n) => x <= n
  BY <1>1, <1>2, <1>7
<1> HIDE DEF S, T
<1>6. /\ Cardinality(T) <= Cardinality(S) /\ Cardinality(T) # Cardinality(S)
      /\ Cardinality(T) \in Nat /\ Cardinality(S) \in Nat
  BY <1>1, <1>2, FS_Subset, FS_CardinalityType
<1> QED BY <1>3, <1>5, <1>6, <1>8 DEF S

\* Before the last line of a copy is at least the rest of the copy.
LEMMA CopyRank ==
    ASSUME trace \in Traces, NEW b, NEW o \in Nat, NEW k \in BlockLines(b, AllLines),
           Copied(b, k + 1, o), DOMAIN file[b] \subseteq Nat \ {0}, IsFiniteSet(DOMAIN file[b]),
           InOrder(trace.mem, MemOf(trace, b, trace.mem[k].warp))
    PROVE  Earlier(b, trace.mem[k].warp, trace.mem[k].pc, trace.mem[k].n)
              <= FileRank(b, o + Place(b, k))
<1> DEFINE w == trace.mem[k].warp
           p == trace.mem[k].pc
           q == o + Place(b, k)
           K == {j \in MemLines(b, w, p) : j < k}
           f == [j \in BlockLines(b, AllLines) |-> o + Place(b, j)]
           T == {f[j] : j \in K}
           R == {j \in DOMAIN file[b] : /\ j < q
                                        /\ file[b][j].warp = file[b][q].warp
                                        /\ file[b][j].pc = file[b][q].pc}
<1>0. /\ AllLines \in Nat /\ k \in Nat /\ k \in DOMAIN trace.mem /\ k \in MemLines(b, w, p)
      /\ k \in BlockLines(b, k + 1)
  BY MemType DEF BlockLines, MemLines, MemOf
<1>1. \A j \in K : /\ j \in BlockLines(b, AllLines) /\ j \in BlockLines(b, k + 1) /\ j < k
                   /\ trace.mem[j].warp = w /\ trace.mem[j].pc = p
  <2>1. \A j \in MemLines(b, w, p) : /\ j \in BlockLines(b, AllLines) /\ j \in Nat
                                     /\ trace.mem[j].warp = w /\ trace.mem[j].pc = p
    BY MemLinesType DEF MemLines, MemOf
  <2> QED BY <1>0, <2>1 DEF BlockLines
<1>2. file[b][q].warp = w /\ file[b][q].pc = p
  BY <1>0, CopiedLine
<1>3. ASSUME NEW j \in K PROVE f[j] \in R
  <2>1. /\ o + Place(b, j) \in DOMAIN file[b] /\ file[b][o + Place(b, j)].warp = w
        /\ file[b][o + Place(b, j)].pc = p
    BY <1>1, CopiedLine
  <2>2. Place(b, j) < Place(b, k) /\ Place(b, j) \in Nat /\ Place(b, k) \in Nat
    BY <1>0, <1>1, PlaceRises, PlaceInjective
  <2>3. o + Place(b, j) < q
    BY <2>2
  <2>4. f[j] = o + Place(b, j)
    BY <1>1
  <2> QED BY <1>2, <2>1, <2>3, <2>4
<1>4. \A i, j \in K : f[i] = f[j] => i = j
  <2> TAKE i, j \in K
  <2>1. f[i] = o + Place(b, i) /\ f[j] = o + Place(b, j)
    BY <1>1
  <2>2. /\ Place(b, i) \in Nat /\ Place(b, j) \in Nat
        /\ Place(b, i) = Place(b, j) => i = j
    BY <1>0, <1>1, PlaceInjective
  <2> QED BY <2>1, <2>2
<1>5. T \in SUBSET R
  BY <1>3
<1>6. R \in SUBSET DOMAIN file[b]
  OBVIOUS
<1>7. IsFiniteSet(K)
  <2>1. K \in SUBSET MemLines(b, w, p)
    OBVIOUS
  <2> HIDE DEF K
  <2> QED BY <2>1, MemLinesType, FS_Subset
<1>8. Cardinality(K) = Earlier(b, w, p, trace.mem[k].n)
  BY <1>0, MemRank
<1> HIDE DEF K, f
<1>9. Cardinality(T) = Cardinality(K)
  BY <1>4, <1>7, ImageCount
<1>10. FileRank(b, q) = Cardinality(R)
  BY DEF FileRank
<1> HIDE DEF T, R
<1>11. IsFiniteSet(R)
  BY <1>6, FS_Subset
<1>12. Cardinality(T) <= Cardinality(R)
  BY <1>5, <1>11, FS_Subset
<1> QED BY <1>8, <1>9, <1>10, <1>12

\* The numbers of the elements of a set are 0, 1, ... up to its size.
LEMMA RanksFilled ==
    ASSUME NEW S \in SUBSET Nat, IsFiniteSet(S), NEW n \in Nat, n < Cardinality(S)
    PROVE  \E x \in S : Cardinality({y \in S : y < x}) = n
<1> DEFINE f == [x \in S |-> Cardinality({y \in S : y < x})]
           T == {f[x] : x \in S}
<1>1. Cardinality(S) \in Nat
  BY FS_CardinalityType
<1>2. ASSUME NEW x \in S PROVE f[x] \in 0 .. Cardinality(S) - 1
  <2> DEFINE Y == {y \in S : y < x}
  <2>1. Y \in SUBSET S /\ x \notin Y
    OBVIOUS
  <2>2. f[x] = Cardinality(Y)
    OBVIOUS
  <2> HIDE DEF Y, f
  <2>3. /\ Cardinality(Y) <= Cardinality(S) /\ Cardinality(Y) # Cardinality(S)
        /\ Cardinality(Y) \in Nat
    BY <2>1, FS_Subset, FS_CardinalityType
  <2> QED BY <1>1, <2>2, <2>3
<1>3. \A x, y \in S : f[x] = f[y] => x = y
  BY SameRank
<1>4. T \in SUBSET (0 .. Cardinality(S) - 1)
  BY <1>2
<1>5. n \in 0 .. Cardinality(S) - 1
  BY <1>1
<1> HIDE DEF f
<1>6. IsFiniteSet(T) /\ Cardinality(T) = Cardinality(S)
  BY <1>3, ImageCount
<1> HIDE DEF T
<1>7. IsFiniteSet(0 .. Cardinality(S) - 1) /\ Cardinality(0 .. Cardinality(S) - 1) = Cardinality(S)
  <2>1. Cardinality(S) - 1 \in Int
    BY <1>1
  <2>2. IsFiniteSet(0 .. Cardinality(S) - 1)
    BY <2>1, FS_Interval
  <2> QED BY <1>1, <2>2, IntervalSize
<1>8. n \in T
  BY <1>4, <1>5, <1>6, <1>7, FS_Subset
<1>9. PICK x \in S : f[x] = n
  BY <1>8 DEF T
<1> QED BY <1>9 DEF f

\* In a file with all lines of a block every execution has a line with its
\* number.
LEMMA NumberGiven ==
    ASSUME trace \in Traces, NEW b, Whole(b), DOMAIN file[b] \subseteq Nat \ {0},
           IsFiniteSet(DOMAIN file[b]), NEW w, NEW p, NEW n \in Executions(b, w, p),
           InOrder(trace.mem, MemOf(trace, b, w))
    PROVE  \E q \in DOMAIN file[b] : /\ file[b][q].warp = w /\ file[b][q].pc = p
                                     /\ FileRank(b, q) = Earlier(b, w, p, n)
<1> DEFINE K == MemLines(b, w, p)
           Q == {q \in DOMAIN file[b] : file[b][q].warp = w /\ file[b][q].pc = p}
<1>1. PICK o \in Nat : Copied(b, AllLines, o)
  BY DEF Whole
<1> DEFINE f == [j \in BlockLines(b, AllLines) |-> o + Place(b, j)]
           T == {f[j] : j \in K}
<1>2. /\ AllLines \in Nat /\ IsFiniteSet(K)
      /\ \A j \in K : /\ j \in BlockLines(b, AllLines)
                      /\ trace.mem[j].warp = w /\ trace.mem[j].pc = p
  BY MemType, MemLinesType DEF MemLines, MemOf
<1>3. ASSUME NEW j \in K PROVE f[j] \in Q
  BY <1>1, <1>2, CopiedLine
<1>4. \A i, j \in K : f[i] = f[j] => i = j
  <2> TAKE i, j \in K
  <2>1. f[i] = o + Place(b, i) /\ f[j] = o + Place(b, j)
    BY <1>2
  <2>2. /\ Place(b, i) \in Nat /\ Place(b, j) \in Nat
        /\ Place(b, i) = Place(b, j) => i = j
    BY <1>2, PlaceInjective
  <2> QED BY <2>1, <2>2
<1>5. T \in SUBSET Q
  BY <1>3
<1>6. Q \in SUBSET DOMAIN file[b] /\ Q \in SUBSET Nat
  OBVIOUS
<1>7. Cardinality(K) = Cardinality(Executions(b, w, p))
  BY MemRank
<1>8. ASSUME NEW q \in Q PROVE FileRank(b, q) = Cardinality({y \in Q : y < q})
  <2>1. {j \in DOMAIN file[b] : /\ j < q
                                /\ file[b][j].warp = file[b][q].warp
                                /\ file[b][j].pc = file[b][q].pc} = {y \in Q : y < q}
    OBVIOUS
  <2> HIDE DEF Q
  <2> QED BY <2>1 DEF FileRank
<1>9. \A q \in Q : q \in DOMAIN file[b] /\ file[b][q].warp = w /\ file[b][q].pc = p
  OBVIOUS
<1> HIDE DEF K, f
<1>10. Cardinality(T) = Cardinality(K)
  BY <1>2, <1>4, ImageCount
<1> HIDE DEF T, Q
<1>11. IsFiniteSet(Q)
  BY <1>6, FS_Subset
<1>12. Cardinality(T) <= Cardinality(Q) /\ Cardinality(Q) \in Nat
  BY <1>5, <1>11, FS_Subset, FS_CardinalityType
<1>13. /\ Earlier(b, w, p, n) \in Nat /\ Cardinality(Executions(b, w, p)) \in Nat
       /\ Earlier(b, w, p, n) < Cardinality(Executions(b, w, p))
  BY EarlierLess
<1>14. Earlier(b, w, p, n) < Cardinality(Q)
  BY <1>7, <1>10, <1>12, <1>13
<1>15. PICK q \in Q : Cardinality({y \in Q : y < q}) = Earlier(b, w, p, n)
  BY <1>6, <1>11, <1>13, <1>14, RanksFilled
<1> QED BY <1>8, <1>9, <1>15

\* An instruction that accesses memory has the number of its execution.
LEMMA InstRank ==
    ASSUME trace \in Traces, NEW b \in 0 .. kernelInfo(trace, "grid_size") - 1,
           NEW l \in InstLines(trace), trace.sass[l].memory,
           trace.block_sim_mode = 1 => trace.sass[l].block = b
    PROVE  LET w == trace.sass[l].warp
               p == trace.sass[l].pc
               n == trace.sass[l].n
           IN  /\ n \in Executions(b, w, p)
               /\ trace_insts[l].pc_index = Earlier(b, w, p, n)
<1> DEFINE w == trace.sass[l].warp
           p == trace.sass[l].pc
           K == InstsOf(b, w, p)
           f == [k \in K |-> trace.sass[k].n]
           keys == [k \in InstLines(trace) |-> SassKey(trace.sass[k])]
<1>1. trace.block_sim_mode \in {0, 1} /\ DOMAIN trace.sass \in SUBSET Nat
      /\ IsFiniteSet(DOMAIN trace.sass)
  BY StartUpAssumption
<1>2. K \in SUBSET DOMAIN trace.sass /\ l \in K /\ K \subseteq InstLines(trace)
  BY DEF InstsOf, SassOf, InstLines
<1>3. K \in SUBSET Nat /\ IsFiniteSet(K)
  <2> HIDE DEF K
  <2> QED BY <1>1, <1>2, FS_Subset
<1>4. /\ InOrder(trace.sass, SassOf(trace, b, w))
      /\ Executed(trace.mem, MemOf(trace, b, w))
           = Executed(trace.sass, {k \in SassOf(trace, b, w) : trace.sass[k].memory})
  <2>1. w \in {trace.sass[k].warp : k \in InstLines(trace)}
    OBVIOUS
  <2> HIDE DEF w, p, K, f, keys
  <2>2. \A v \in {trace.sass[k].warp : k \in InstLines(trace)} :
           /\ InOrder(trace.sass, SassOf(trace, b, v))
           /\ Executed(trace.mem, MemOf(trace, b, v))
                = Executed(trace.sass, {k \in SassOf(trace, b, v) : trace.sass[k].memory})
    BY TracesAssumption
  <2> QED BY <2>1, <2>2
<1>5. /\ \A k \in K : f[k] \in Nat
      /\ \A j, k \in K : j < k => f[j] < f[k]
  <2>1. \A k \in K : f[k] \in Nat
    BY <1>2, TracesAssumption
  <2> QED BY <1>4, <2>1 DEF InOrder, InstsOf
<1>6. \A k \in K : trace.sass[k].memory /\ k \in SassOf(trace, b, w) /\ trace.sass[k].pc = p
  <2>1. \A k \in K : k \in SassOf(trace, b, w) /\ trace.sass[k].pc = p
    BY DEF InstsOf
  <2> QED BY <1>2, <2>1, TracesAssumption
<1>7. {f[k] : k \in K} = Executions(b, w, p)
  <2>1. ASSUME NEW k \in K PROVE f[k] \in Executions(b, w, p)
    <3>1. <<p, trace.sass[k].n>>
            \in Executed(trace.sass, {j \in SassOf(trace, b, w) : trace.sass[j].memory})
      BY <1>6 DEF Executed
    <3>2. PICK j \in MemOf(trace, b, w) : <<p, trace.sass[k].n>> = <<trace.mem[j].pc, trace.mem[j].n>>
      BY <1>4, <3>1 DEF Executed
    <3> QED BY <3>2 DEF Executions, MemLines
  <2>2. ASSUME NEW x \in Executions(b, w, p) PROVE \E k \in K : f[k] = x
    <3>1. PICK j \in MemOf(trace, b, w) : trace.mem[j].pc = p /\ trace.mem[j].n = x
      BY DEF Executions, MemLines
    <3>2. <<p, x>> \in Executed(trace.mem, MemOf(trace, b, w))
      BY <3>1 DEF Executed
    <3>3. PICK k \in SassOf(trace, b, w) : <<p, x>> = <<trace.sass[k].pc, trace.sass[k].n>>
      BY <1>4, <3>2 DEF Executed
    <3> QED BY <3>3 DEF InstsOf
  <2> HIDE DEF K, f
  <2> QED BY <2>1, <2>2
<1>8. trace_insts[l].pc_index = Cardinality({j \in K : j < l})
  <2>1. \A j \in InstLines(trace) : keys[j] = keys[l] <=> j \in K
    <3>1. CASE trace.block_sim_mode = 0
      BY <3>1 DEF SassKey, InstsOf, SassOf
    <3>2. CASE trace.block_sim_mode = 1
      BY <3>2 DEF SassKey, InstsOf, SassOf
    <3> QED BY <1>1, <3>1, <3>2
  <2>2. trace_insts[l].pc_index = Cardinality({j \in InstLines(trace) : j < l /\ keys[j] = keys[l]})
    BY DEF trace_insts, pc_index
  <2>3. {j \in InstLines(trace) : j < l /\ keys[j] = keys[l]} = {j \in K : j < l}
    <3> HIDE DEF K, keys
    <3> QED BY <1>2, <2>1
  <2> QED BY <2>2, <2>3
<1>9. f[l] = trace.sass[l].n /\ f[l] \in {f[k] : k \in K}
  BY <1>2
<1> HIDE DEF K, f
<1>10. Cardinality({j \in K : j < l}) = Cardinality({x \in {f[k] : k \in K} : x < f[l]})
  BY <1>2, <1>3, <1>5, RisingRank
<1> QED BY <1>7, <1>8, <1>9, <1>10 DEF Earlier

\* What read_mem makes of a line.
LEMMA ReadMemLine ==
    ASSUME NEW b
    PROVE  /\ b \notin exists => DOMAIN read_mem(b) = {}
           /\ b \in exists =>
                 /\ DOMAIN read_mem(b) = DOMAIN file[b]
                 /\ \A q \in DOMAIN file[b] :
                       /\ read_mem(b)[q].warp = file[b][q].warp
                       /\ read_mem(b)[q].pc = file[b][q].pc
                       /\ read_mem(b)[q].n = file[b][q].n
                       /\ read_mem(b)[q].pc_index = FileRank(b, q)
<1>1. CASE b \notin exists
  BY <1>1 DEF read_mem
<1>2. CASE b \in exists
  <2> DEFINE keys == [k \in DOMAIN file[b] |-> <<file[b][k].warp, file[b][k].pc>>]
  <2>1. read_mem(b) = [k \in DOMAIN file[b] |->
            [warp |-> file[b][k].warp, pc |-> file[b][k].pc, pc_index |-> pc_index(keys, k),
             n |-> file[b][k].n]]
    BY <1>2 DEF read_mem
  <2>2. ASSUME NEW q \in DOMAIN file[b] PROVE pc_index(keys, q) = FileRank(b, q)
    <3>1. \A j \in DOMAIN file[b] : keys[j] = keys[q] <=>
             file[b][j].warp = file[b][q].warp /\ file[b][j].pc = file[b][q].pc
      OBVIOUS
    <3>2. DOMAIN keys = DOMAIN file[b]
      OBVIOUS
    <3> HIDE DEF keys
    <3> QED BY <3>1, <3>2 DEF pc_index, FileRank
  <2> HIDE DEF keys
  <2> QED BY <1>2, <2>1, <2>2
<1> QED BY <1>1, <1>2

\* A line of a file has the number of its execution, or one no execution has.
LEMMA AccessRank ==
    ASSUME IInv, FilesInv, NEW b \in exists, b \notin doubled, NEW q \in DOMAIN file[b],
           InOrder(trace.mem, MemOf(trace, b, file[b][q].warp))
    PROVE  LET w == file[b][q].warp
               p == file[b][q].pc
               n == file[b][q].n
           IN  \/ n \in Executions(b, w, p) /\ FileRank(b, q) = Earlier(b, w, p, n)
               \/ Cardinality(Executions(b, w, p)) <= FileRank(b, q)
<1>1. /\ trace \in Traces /\ b \in TracedBlocks(trace) /\ AllLines \in Nat
      /\ file[b] \in Seq(Lines) /\ Len(file[b]) \in Nat /\ DOMAIN file[b] = 1 .. Len(file[b])
  BY MemType DEF IInv, TypeOK
<1>2. DOMAIN file[b] \subseteq Nat \ {0} /\ IsFiniteSet(DOMAIN file[b]) /\ q \in Nat \ {0}
  <2>1. IsFiniteSet(1 .. Len(file[b]))
    BY <1>1, FS_Interval
  <2> QED BY <1>1, <2>1
<1>3. PICK m \in Nat : /\ Copied(b, m, 0)
                       /\ m = AllLines \/ q <= Cardinality(BlockLines(b, m))
  <2>1. CASE Copied(b, AllLines, 0)
    BY <1>1, <2>1
  <2>2. CASE \E m \in 1 .. AllLines : Partial(b, m)
    <3>1. PICK m \in 1 .. AllLines : Partial(b, m)
      BY <2>2
    <3>2. m \in Nat /\ Copied(b, m, 0) /\ Len(file[b]) = Cardinality(BlockLines(b, m))
      BY <1>1, <3>1, BlockLinesType DEF Partial, CopyEnds
    <3> QED BY <1>1, <3>2
  <2> QED BY <1>1, <2>1, <2>2 DEF FilesInv, FirstInv
<1>4. CASE q <= Cardinality(BlockLines(b, m))
  <2>1. q \in 1 .. Cardinality(BlockLines(b, m))
    BY <1>1, <1>2, <1>4, BlockLinesType
  <2>2. PICK k \in BlockLines(b, m) : q = Place(b, k)
    BY <1>1, <2>1, PlacesFilled
  <2>3. /\ k \in DOMAIN trace.mem /\ trace.mem[k].block = b
        /\ file[b][q].warp = trace.mem[k].warp /\ file[b][q].pc = trace.mem[k].pc
        /\ file[b][q].n = trace.mem[k].n
    BY <1>1, <1>3, <2>2, FirstLine
  <2>4. FileRank(b, q) = Earlier(b, trace.mem[k].warp, trace.mem[k].pc, trace.mem[k].n)
    BY <1>1, <1>2, <1>3, <2>2, <2>3, PlaceRank
  <2>5. trace.mem[k].n \in Executions(b, trace.mem[k].warp, trace.mem[k].pc)
    BY <2>3 DEF Executions, MemLines, MemOf
  <2> QED BY <2>3, <2>4, <2>5
<1>5. CASE ~ (q <= Cardinality(BlockLines(b, m)))
  <2>1. Copied(b, AllLines, 0) /\ q > Cardinality(BlockLines(b, AllLines))
    BY <1>1, <1>2, <1>3, <1>5, BlockLinesType
  <2> QED BY <1>1, <1>2, <2>1, BehindRank
<1> QED BY <1>4, <1>5

-----------------------------------------------------------------------------
(* The pairs.                                                              *)

\* What the pairing says of an instruction of a block that was loaded.
PairedAt(b, w, i) ==
    /\ \A n \in Found(b, w, i) : IF b \in doubled THEN n <= i.n ELSE n = i.n
    /\ b \in short \/ Found(b, w, i) # {}

LEMMA InstPaired ==
    ASSUME IInv, FilesInv, LoadInv, NEW b \in DOMAIN m_mem_inst,
           NEW w \in DOMAIN m_blocks[b], NEW i \in Range(m_blocks[b][w]), i.memory
    PROVE  PairedAt(b, w, i)
<1> DEFINE p == i.pc
<1>0. trace \in Traces /\ exists \subseteq TracedBlocks(trace)
  BY DEF IInv, TypeOK
<1>1. /\ b \in 0 .. kernelInfo(trace, "grid_size") - 1
      /\ m_blocks[b][w] = m_insts(b, w) /\ m_mem_inst[b][w] = Accesses(b, w)
  BY DEF LoadInv
<1>2. PICK l \in InstLines(trace) :
         /\ i = trace_insts[l] /\ trace_insts[l].warp = w
         /\ trace.block_sim_mode = 1 => trace_insts[l].block = b
  <2>1. DOMAIN trace_insts = InstLines(trace)
    BY DEF trace_insts
  <2>2. m_insts(b, w) = [k \in {j \in DOMAIN trace_insts :
                                 /\ trace_insts[j].warp = w
                                 /\ trace.block_sim_mode = 1 => trace_insts[j].block = b}
                            |-> trace_insts[k]]
    BY DEF m_insts, RestrictValues, Restrict
  <2> QED BY <1>1, <2>1, <2>2 DEF Range
<1>3. /\ trace.sass[l].warp = w /\ trace.sass[l].pc = p /\ trace.sass[l].n = i.n
      /\ trace.sass[l].memory
      /\ trace.block_sim_mode = 1 => trace.sass[l].block = b
  BY <1>2 DEF trace_insts
<1>4. i.n \in Executions(b, w, p) /\ i.pc_index = Earlier(b, w, p, i.n)
  <2>1. /\ trace.sass[l].n \in Executions(b, trace.sass[l].warp, trace.sass[l].pc)
        /\ trace_insts[l].pc_index
             = Earlier(b, trace.sass[l].warp, trace.sass[l].pc, trace.sass[l].n)
    BY <1>0, <1>1, <1>3, InstRank
  <2> QED BY <1>2, <1>3, <2>1
<1>5. InOrder(trace.mem, MemOf(trace, b, w))
  <2>1. w \in {trace.sass[k].warp : k \in InstLines(trace)}
    BY <1>3
  <2> QED BY <1>0, <1>1, <2>1, TracesAssumption
<1>6. ASSUME b \in TracedBlocks(trace)
      PROVE  /\ file[b] \in Seq(Lines) /\ DOMAIN file[b] \subseteq Nat \ {0}
             /\ IsFiniteSet(DOMAIN file[b])
  <2>1. file[b] \in Seq(Lines) /\ Len(file[b]) \in Nat /\ DOMAIN file[b] = 1 .. Len(file[b])
    BY <1>6 DEF IInv, TypeOK
  <2>2. IsFiniteSet(1 .. Len(file[b]))
    BY <2>1, FS_Interval
  <2> QED BY <2>1, <2>2
<1>7. ASSUME NEW n \in Found(b, w, i) PROVE IF b \in doubled THEN n <= i.n ELSE n = i.n
  <2>1. PICK r \in Range(m_mem_inst[b][w]) : r.pc = p /\ r.pc_index = i.pc_index /\ r.n = n
    BY DEF Found, get_mem_inst
  <2>2. PICK q \in DOMAIN read_mem(b) : r = read_mem(b)[q] /\ read_mem(b)[q].warp = w
    BY <1>1 DEF Accesses, Range
  <2>3. /\ b \in exists /\ q \in DOMAIN file[b] /\ file[b][q].warp = w /\ file[b][q].pc = p
        /\ n = file[b][q].n /\ FileRank(b, q) = Earlier(b, w, p, i.n)
    BY <1>4, <2>1, <2>2, ReadMemLine
  <2>4. CASE b \notin doubled
    <3>1. \/ n \in Executions(b, w, p) /\ FileRank(b, q) = Earlier(b, w, p, n)
          \/ Cardinality(Executions(b, w, p)) <= FileRank(b, q)
      BY <1>5, <2>3, <2>4, AccessRank
    <3> QED BY <1>0, <1>4, <2>3, <2>4, <3>1, EarlierLess
  <2>5. CASE b \in doubled
    <3>1. b \in TracedBlocks(trace)
      BY <1>0, <2>3
    <3>2. PICK o \in Nat, k \in BlockLines(b, AllLines) :
             q = o + Place(b, k) /\ Copied(b, k + 1, o)
      BY <2>3, <3>1 DEF FilesInv, LinesInv, LastOfCopy
    <3>3. k \in BlockLines(b, k + 1) /\ k \in DOMAIN trace.mem /\ trace.mem[k].block = b
      BY <1>0, MemType DEF BlockLines
    <3>4. trace.mem[k].warp = w /\ trace.mem[k].pc = p /\ trace.mem[k].n = n
      BY <2>3, <3>2, <3>3, CopiedLine
    <3>5. Earlier(b, w, p, n) <= Earlier(b, w, p, i.n)
      <4>1. Earlier(b, trace.mem[k].warp, trace.mem[k].pc, trace.mem[k].n)
               <= FileRank(b, o + Place(b, k))
        BY <1>0, <1>5, <1>6, <3>1, <3>2, <3>4, CopyRank
      <4> QED BY <2>3, <3>2, <3>4, <4>1
    <3>6. n \in Executions(b, w, p)
      BY <3>3, <3>4 DEF Executions, MemLines, MemOf
    <3> QED BY <1>0, <1>4, <2>5, <3>5, <3>6, EarlierLess
  <2> QED BY <2>4, <2>5
<1>8. ASSUME b \notin short PROVE Found(b, w, i) # {}
  <2>1. SplitDone
    BY DEF IInv, IdleInv, Idle, SplitDone
  <2>2. PICK k \in MemLines(b, w, p) : trace.mem[k].n = i.n
    BY <1>4 DEF Executions
  <2>3. k \in BlockLines(b, AllLines) /\ b \in TracedBlocks(trace)
    BY <1>0, <2>2, MemLinesType, MemType DEF MemLines, MemOf
  <2>4. Whole(b)
    BY <1>8, <2>1, <2>3 DEF FilesInv, WholeInv
  <2>5. PICK q \in DOMAIN file[b] : /\ file[b][q].warp = w /\ file[b][q].pc = p
                                    /\ FileRank(b, q) = Earlier(b, w, p, i.n)
    BY <1>0, <1>4, <1>5, <1>6, <2>3, <2>4, NumberGiven
  <2>6. b \in exists
    BY <2>3, <2>5 DEF FilesInv, ExistsInv
  <2> DEFINE r == read_mem(b)[q]
  <2>7. q \in DOMAIN read_mem(b) /\ r.warp = w /\ r.pc = p /\ r.pc_index = i.pc_index
    BY <1>4, <2>5, <2>6, ReadMemLine
  <2>8. r \in Range(m_mem_inst[b][w])
    BY <1>1, <2>7 DEF Accesses, Range
  <2>9. r \in get_mem_inst(b, w, i)
    BY <2>7, <2>8 DEF get_mem_inst
  <2> QED BY <2>9 DEF Found
<1> QED BY <1>7, <1>8 DEF PairedAt

LEMMA FilesPaired == IInv /\ FilesInv /\ LoadInv => Paired
BY InstPaired DEF Paired, EveryAccess, PairedAt

\* For all traces, interleavings of warps and blocks, stops and restarts: the
\* number a line of a block's file gets and the one an instruction gets are
\* the same for the same execution, in every block but those whose split was
\* stopped and done over behind what it had left; there the addresses are
\* those of the same pc at this or an earlier execution.  And only where a
\* stopped split was never done over is nothing found.
THEOREM AddressesPaired == Spec => []Paired
<1>1. Init => FilesInv /\ LoadInv
  BY FilesInit, LoadInit
<1>2. IInv /\ FilesInv /\ LoadInv /\ [Next]_vars => FilesInv' /\ LoadInv'
  BY FilesStep, LoadStep
<1> QED BY <1>1, <1>2, InvAlways, FilesPaired, PTL DEF Spec

=============================================================================
