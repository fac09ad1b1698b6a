------------------------------ MODULE StartUp ------------------------------
(***************************************************************************)
(* From the files of the tracing tool to blocks that can run: sim_gpu      *)
(* (main.cpp), trace_reader, launch_kernel with kernel::init_blocks, and   *)
(* first_spawn_block with block::load_mem_request.                         *)
(*                                                                         *)
(* The tool leaves two files for a kernel: the instructions of the warps   *)
(* (.sass, one block for all; or .allsass, every block) and the addresses  *)
(* of their memory accesses (.mem).  The first start splits the second one *)
(* into a file per block, line by line, in append mode; a later start goes *)
(* by the existence of block 0's file and does not split again.  The files *)
(* survive a stop of the simulator, everything else does not.  Nothing in  *)
(* the two files says which access belongs to which instruction: both are  *)
(* numbered per warp and pc while they are read, and get_mem_inst compares *)
(* the numbers.                                                            *)
(*                                                                         *)
(* A line carries "n", the position of its instruction in what the warp    *)
(* executed.  The code does not have it: in an access it stands for the    *)
(* addresses, in an instruction it is there for the properties.            *)
(***************************************************************************)
EXTENDS Integers, SequencesExt

CONSTANTS
    Traces,             \* what the tool may have left: records
                        \* [block_sim_mode, sass, mem]
    sm_num, max_blocks,
    MaxStarts           \* bound: starts of the simulator

\* Header lines of the instruction file, "grid_size = 2".
Header == {"kernel_id", "grid_size", "block_size", "shared_mem_bytes", "num_registers"}

ASSUME StartUpAssumption ==
    /\ sm_num \in Nat \ {0} /\ max_blocks \in Nat \ {0} /\ MaxStarts \in Nat
    /\ \A t \in Traces :
          /\ t.block_sim_mode \in {0, 1}
          /\ Len(t.mem) \in Nat /\ DOMAIN t.mem = 1 .. Len(t.mem)
          /\ \A k \in DOMAIN t.mem : /\ t.mem[k].block \in Nat /\ t.mem[k].warp \in Nat
                                      /\ t.mem[k].pc \in Nat /\ t.mem[k].n \in Nat
          /\ DOMAIN t.sass \subseteq Nat /\ IsFiniteSet(DOMAIN t.sass)
          /\ \A k \in DOMAIN t.sass :
                t.sass[k].header \in Header => t.sass[k].value \in Nat

VARIABLES
    trace,          \* the tool's files; they never change
    exists,         \* blocks that have a file of their own
    file,           \* what is in it
    proc,           \* what the simulator does next
    line_no,        \* the next line of the .mem file
    m_blocks,       \* of the kernel: the instructions of each block and warp
    m_mem_inst,     \* of each block that was loaded: its accesses
    index, next_block, block_vec, block_pointer,    \* first_spawn_block
    starts,
    short,          \* history: blocks whose split was stopped and is not
                    \* done again
    doubled         \* history: blocks whose lines are written once more
                    \* behind some, not all, of them

fileVars   == <<exists, file>>
kernelVars == <<m_blocks, m_mem_inst>>
spawnVars  == <<index, next_block, block_vec, block_pointer>>
vars == <<trace, fileVars, proc, line_no, kernelVars, spawnVars, starts, short, doubled>>

TracedBlocks(t) == {t.mem[k].block : k \in DOMAIN t.mem}
SMs == 0 .. sm_num - 1
EmptySMs == [s \in SMs |-> <<>>]

Init ==
    /\ trace \in Traces
    /\ exists = {}
    /\ file = [b \in TracedBlocks(trace) |-> <<>>]
    /\ proc = "off"
    /\ line_no = 1
    /\ m_blocks = <<>> /\ m_mem_inst = <<>>
    /\ index = 0 /\ next_block = 0 /\ block_vec = EmptySMs /\ block_pointer = 0
    /\ starts = 0 /\ short = {} /\ doubled = {}

-----------------------------------------------------------------------------
(* sim_gpu: only the file of block 0 is looked for.                        *)

Start ==
    /\ proc = "off" /\ starts < MaxStarts
    /\ proc' = IF 0 \in exists THEN "launch" ELSE "open"
    /\ line_no' = 1
    /\ starts' = starts + 1
    /\ UNCHANGED <<trace, fileVars, kernelVars, spawnVars, short, doubled>>

\* gen_block_mem_trace: the block of the next line is opened for appending,
\* which creates its file, and the line is written when it is closed.  The
\* test for LDG, STG or ATOM lets every line pass: it compares 32 bits with
\* the 64 bits of npos.
Open ==
    /\ proc = "open" /\ line_no <= Len(trace.mem)
    /\ exists' = exists \cup {trace.mem[line_no].block}
    /\ proc' = "write"
    /\ UNCHANGED <<trace, file, line_no, kernelVars, spawnVars, starts, short, doubled>>

Write ==
    LET line == trace.mem[line_no] IN
    /\ proc = "write"
    /\ file' = [file EXCEPT ![line.block] =
                   Append(@, [warp |-> line.warp, pc |-> line.pc, n |-> line.n])]
    /\ line_no' = line_no + 1
    /\ proc' = "open"
    /\ UNCHANGED <<trace, exists, kernelVars, spawnVars, starts, short, doubled>>

EndOfFile ==
    /\ proc = "open" /\ line_no > Len(trace.mem)
    /\ proc' = "launch"
    /\ UNCHANGED <<trace, fileVars, line_no, kernelVars, spawnVars, starts, short, doubled>>

-----------------------------------------------------------------------------
(* Numbers per key.  The maps block_pc_num of the readers count the lines  *)
(* with a key: a line's pc_index is the number of those before it.  Lists  *)
(* that are part of a file are functions on its line numbers.              *)

pc_index(keys, k) == Cardinality({j \in DOMAIN keys : j < k /\ keys[j] = keys[k]})

-----------------------------------------------------------------------------
(* launch_kernel: read_trace and init_blocks.                              *)

\* kernelInfo starts as zeros; a header that comes again overwrites.
kernelInfo(t, h) ==
    LET lines == {k \in DOMAIN t.sass : t.sass[k].header = h}
    IN  IF lines = {} THEN 0 ELSE t.sass[Max(lines)].value

InstLines(t) == {k \in DOMAIN t.sass : t.sass[k].header \notin Header}

\* What the tool leaves for warp w of block b.  In mode 0 every block
\* executes the instructions of the one in the file.  The tool writes a line
\* when the warp executes the instruction, an address line for each that
\* accesses memory, and an instruction is one that does or one that does not.
SassOf(t, b, w) == {k \in InstLines(t) : /\ t.sass[k].warp = w
                                         /\ t.block_sim_mode = 1 => t.sass[k].block = b}
MemOf(t, b, w)  == {k \in DOMAIN t.mem : t.mem[k].block = b /\ t.mem[k].warp = w}

InOrder(lines, K)  == \A j, k \in K : j < k => lines[j].n < lines[k].n
Executed(lines, K) == {<<lines[k].pc, lines[k].n>> : k \in K}

ASSUME TracesAssumption ==
    \A t \in Traces :
        /\ \A k \in InstLines(t) : t.sass[k].n \in Nat
        /\ \A j, k \in InstLines(t) :
               t.sass[j].pc = t.sass[k].pc => t.sass[j].memory = t.sass[k].memory
        /\ \A b \in 0 .. kernelInfo(t, "grid_size") - 1 :
              \A w \in {t.sass[k].warp : k \in InstLines(t)} :
                 /\ InOrder(t.sass, SassOf(t, b, w)) /\ InOrder(t.mem, MemOf(t, b, w))
                 /\ Executed(t.mem, MemOf(t, b, w))
                      = Executed(t.sass, {k \in SassOf(t, b, w) : t.sass[k].memory})

\* Mutant: read_all_block_sass counts as read_sass does, per warp and pc.
SassKey_NoBlock(line) == <<line.warp, line.pc>>

\* read_sass counts per warp and pc, read_all_block_sass per block as well.
SassKey(line) ==
    IF trace.block_sim_mode = 0 THEN <<line.warp, line.pc>>
                                ELSE <<line.block, line.warp, line.pc>>

trace_insts ==
    LET keys == [k \in InstLines(trace) |-> SassKey(trace.sass[k])]
    IN  [k \in InstLines(trace) |->
            [block    |-> IF trace.block_sim_mode = 0 THEN -1 ELSE trace.sass[k].block,
             warp     |-> trace.sass[k].warp,
             pc       |-> trace.sass[k].pc,
             pc_index |-> pc_index(keys, k),
             memory   |-> trace.sass[k].memory,
             n        |-> trace.sass[k].n]]

\* The warps of a block.  Mode 1 makes those that have a line.  Mode 0 makes
\* 0, 1, ... up to the size of static_warp_list, which grows by each number
\* it lacks as it is asked for it: so every number up to the largest.
warp_vec(b) ==
    LET made == {trace_insts[k].warp : k \in {j \in DOMAIN trace_insts :
                    trace.block_sim_mode = 1 => trace_insts[j].block = b}}
    IN  IF trace.block_sim_mode = 1 \/ made = {} THEN made ELSE 0 .. Max(made)

\* What a warp executes; <<>> for a number that list lacks (a null pointer).
m_insts(b, w) ==
    RestrictValues(trace_insts,
                   LAMBDA i : i.warp = w /\ (trace.block_sim_mode = 1 => i.block = b))

launch_kernel ==
    /\ proc = "launch"
    /\ proc' = "spawn"
    /\ m_blocks' = [b \in 0 .. kernelInfo(trace, "grid_size") - 1 |-> [w \in warp_vec(b) |-> m_insts(b, w)]]
    /\ UNCHANGED <<trace, fileVars, line_no, m_mem_inst, spawnVars, starts, short, doubled>>

-----------------------------------------------------------------------------
(* first_spawn_block.                                                      *)

\* read_mem: the accesses of a block, counted per warp and pc.  A block
\* without a file has none.
read_mem(b) ==
    LET lines == IF b \in exists THEN file[b] ELSE <<>>
        keys  == [k \in DOMAIN lines |-> <<lines[k].warp, lines[k].pc>>]
    IN  [k \in DOMAIN lines |->
            [warp |-> lines[k].warp, pc |-> lines[k].pc, pc_index |-> pc_index(keys, k),
             n |-> lines[k].n]]

\* load_mem_request.
load_mem_request(b) ==
    m_mem_inst' = [c \in {b} \cup DOMAIN m_mem_inst |->
                      IF c = b THEN [w \in DOMAIN m_blocks[b] |->
                                        RestrictValues(read_mem(b), LAMBDA i : i.warp = w)]
                               ELSE m_mem_inst[c]]

grid_size == Cardinality(DOMAIN m_blocks)
active_sms == IF grid_size < sm_num THEN grid_size ELSE sm_num

\* Mutant: block_pointer counts every block of the loop.
SpawnBlock_CountsAll ==
    /\ proc = "spawn" /\ next_block < grid_size
    /\ next_block' = next_block + 1
    /\ block_pointer' = block_pointer + 1
    /\ IF Len(block_vec[index]) < max_blocks
       THEN /\ load_mem_request(next_block)
            /\ block_vec' = [block_vec EXCEPT ![index] = Append(@, next_block)]
            /\ index' = (index + 1) % active_sms
       ELSE UNCHANGED <<m_mem_inst, block_vec, index>>
    /\ UNCHANGED <<trace, fileVars, proc, line_no, m_blocks, starts, short, doubled>>

\* Mutant: index is not reduced modulo active_sms.
SpawnBlock_NoWrap ==
    /\ proc = "spawn" /\ next_block < grid_size
    /\ next_block' = next_block + 1
    /\ IF Len(block_vec[index]) < max_blocks
       THEN /\ load_mem_request(next_block)
            /\ block_vec' = [block_vec EXCEPT ![index] = Append(@, next_block)]
            /\ block_pointer' = block_pointer + 1
            /\ index' = index + 1
       ELSE UNCHANGED <<m_mem_inst, block_vec, block_pointer, index>>
    /\ UNCHANGED <<trace, fileVars, proc, line_no, m_blocks, starts, short, doubled>>

\* One iteration of the loop: the block goes to the next SM, or nowhere when
\* that SM is full.
SpawnBlock ==
    /\ proc = "spawn" /\ next_block < grid_size
    /\ next_block' = next_block + 1
    /\ IF Len(block_vec[index]) < max_blocks
       THEN /\ load_mem_request(next_block)
            /\ block_vec' = [block_vec EXCEPT ![index] = Append(@, next_block)]
            /\ block_pointer' = block_pointer + 1
            /\ index' = (index + 1) % active_sms
       ELSE UNCHANGED <<m_mem_inst, block_vec, block_pointer, index>>
    /\ UNCHANGED <<trace, fileVars, proc, line_no, m_blocks, starts, short, doubled>>

\* gpu_cycle begins; the rest of the run is the business of module SmCycle.
Simulate ==
    /\ proc = "spawn" /\ next_block = grid_size
    /\ proc' = "gpu_cycle"
    /\ UNCHANGED <<trace, fileVars, line_no, kernelVars, spawnVars, starts, short, doubled>>

\* What a stop of the split leaves behind: the blocks that have lines left to
\* write, and those with the first of their lines only.
Unfinished == {trace.mem[k].block : k \in {j \in DOMAIN trace.mem : j >= line_no}}
LineCount(b) == Cardinality({k \in DOMAIN trace.mem : trace.mem[k].block = b})
Begun == {b \in TracedBlocks(trace) : Len(file[b]) \in 1 .. LineCount(b) - 1}

\* The simulator ends, or is stopped at any point.
Stop ==
    LET splitting == proc \in {"open", "write"} IN
    /\ proc # "off"
    /\ proc' = "off"
    /\ short'   = short \cup IF splitting /\ 0 \in exists THEN Unfinished ELSE {}
    /\ doubled' = doubled \cup IF splitting /\ 0 \notin exists THEN Begun ELSE {}
    /\ m_blocks' = <<>> /\ m_mem_inst' = <<>>
    /\ index' = 0 /\ next_block' = 0 /\ block_vec' = EmptySMs /\ block_pointer' = 0
    /\ line_no' = 1
    /\ UNCHANGED <<trace, fileVars, starts>>

Next ==
    \/ Start
    \/ Open \/ Write \/ EndOfFile
    \/ launch_kernel
    \/ SpawnBlock \/ Simulate
    \/ Stop

Spec == Init /\ [][Next]_vars

-----------------------------------------------------------------------------
(* Properties.                                                             *)

Lines == [warp : Nat, pc : Nat, n : Nat]

TypeOK ==
    /\ exists \subseteq TracedBlocks(trace)
    /\ file \in [TracedBlocks(trace) -> Seq(Lines)]
    /\ proc \in {"off", "open", "write", "launch", "spawn", "gpu_cycle"}
    /\ line_no \in 1 .. Len(trace.mem) + 1
    /\ proc = "write" => line_no <= Len(trace.mem)
    /\ index \in SMs
    /\ next_block \in 0 .. grid_size
    /\ block_vec \in [SMs -> Seq(Nat)]
    /\ DOMAIN m_mem_inst = UNION {Range(block_vec[s]) : s \in SMs}
    /\ starts \in 0 .. MaxStarts
    /\ short \cup doubled \subseteq TracedBlocks(trace)

\* What get_mem_inst(pc, pc_index) finds for an instruction of warp w of
\* block b, in a set (empty for nullptr; the numbers make it unique).
get_mem_inst(b, w, i) ==
    {r \in Range(m_mem_inst[b][w]) : r.pc = i.pc /\ r.pc_index = i.pc_index}

\* The executions whose addresses it finds.
Found(b, w, i) == {r.n : r \in get_mem_inst(b, w, i)}

\* P holds for all memory instructions of the blocks that were loaded.
EveryAccess(P(_, _, _)) ==
    \A b \in DOMAIN m_mem_inst : \A w \in DOMAIN m_blocks[b] :
        \A i \in Range(m_blocks[b][w]) : i.memory => P(b, w, i)

\* Every load and store that runs gets the addresses of that very execution,
\* in both modes, however the tool interleaved the warps, and however often
\* the simulator was stopped and started; in particular when every start does
\* the split over because block 0 makes no access and never gets a file: a
\* second copy of the lines is behind the first, complete one and gets numbers
\* nobody asks for.  Two kinds of blocks are worse off:
\*   - short: the split was stopped once block 0 had its file.  Accesses are
\*     missing (process_LDG_STG then takes the instruction for one without
\*     addresses), but none gets the addresses of another.
\*   - doubled: the split was stopped before block 0 had its file, and done
\*     over behind what there was of the block.  Its executions get addresses,
\*     but after the first few those of an earlier execution of the same pc.
Paired ==
    EveryAccess(LAMBDA b, w, i :
        /\ \A n \in Found(b, w, i) : IF b \in doubled THEN n <= i.n ELSE n = i.n
        /\ b \in short \/ Found(b, w, i) # {})

\* The blocks the loop gave out are the first ones, so the block sm_cycle
\* takes next, m_blocks[block_pointer], is the first one nobody has; and no
\* SM got two blocks more than another.
SpawnedPrefix ==
    /\ UNION {Range(block_vec[s]) : s \in SMs} = 0 .. block_pointer - 1
    /\ \A s, r \in SMs : s < active_sms /\ r < active_sms =>
          Len(block_vec[s]) <= Len(block_vec[r]) + 1
    /\ \A s \in SMs : Len(block_vec[s]) <= max_blocks
=============================================================================
