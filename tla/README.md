# TLA+ verification of Flex-GPUsim

Flex-GPUsim is a cycle-driven simulator of a GPU: it replays the instruction
and memory traces of a kernel on a model of streaming multiprocessors (SMs), L1
caches, a crossbar and the slices of an L2 cache, and counts cycles. It is one
thread in one loop (`gpu::gpu_cycle`), but what it simulates is concurrent: in
every cycle each slice, the crossbar and each SM do one step of their own, and
requests of many warps are under way at the same time. A request that is lost,
answered twice or waits for ever does not crash the simulator. It hangs, or ends
with a wrong number of cycles. These modules check that this does not happen.

## 1. Inventory

| Part | Source | State | Operations | Talks to |
|---|---|---|---|---|
| GPU loop | `gpu.cpp` `gpu_cycle` | `gpu_sim_cycles`, whether an SM is active | one cycle: slices, `Advance`, SMs | all |
| SM | `gpu.cpp`, `gpu.h` `streaming_multiprocessor` | `block_vec`, `cycles`, units, bank queues | `sm_cycle`: `write_back`, `write_back_request_l2`, `l1_cache_cycle`, `del_inactive_block`, `unit_cycle`, taking blocks, `schedule_warp` | kernel, L1, crossbar |
| Units | `gpu.h` `sm_unit` | `ready_time`, instruction and next request of an LDS unit | `unit_cycle`, `set_ldst_inst` | bank queues, warp counters |
| Kernel, blocks, warps | `kernel.h`, `kernel.cpp` | `block_pointer`; per warp `warp_point`, `completions`, `pending_request`, `m_pending_mem_request_num`, `pending_inst`, `active` | `init_blocks`, `is_active`, counters | SM |
| Dependency analysis | `kernel.cpp` `get_inst_dependency` | none kept | dependencies of each instruction | scheduler |
| L1 data cache | `cache.cpp` `l1_data_cache` | tags, MSHR table, `m_miss_queue`, `l1_to_sm`, TLB window | `l1_cache_cycle`, `cache_access`, `m_miss_queue_cycle`, `cache_fill` | banks, crossbar, `write_back` |
| L1 TLB | `tlb.cpp` | start of the window | `is_hit` | L1 |
| Crossbar | `crossbar.cpp` `LocalInterconnect`, `xbar_router` | per router `in_buffers`, `out_buffers`, `next_node_id` | `Push`, `Pop`, `HasBuffer`, `Advance` | SMs, slices |
| L2 slice | `cache.cpp` `l2_data_cache`, `gpu.h` `memory_partition` | tags, MSHR table, `m_l1_to_l2`, `l2_to_sm`, `l2_to_dram` | `l2_cache_cycle`, `cache_access` | crossbar |
| Tags, MSHR table | `cache.h`, `cache.cpp` | lines with sectors; lists of requests by sector | probe, access, fill; probe, full, add, `next_access` | both caches |
| Memory request | `mem_fetch.h` | address, sector, kind, SM, status, TLB outcome | slice hash | all |
| Launch | `gpu.cpp` `launch_kernel`, `first_spawn_block`; `kernel.cpp` `init_blocks`, `load_mem_request` | `m_blocks`, `block_vec`, `block_pointer` | make blocks and warps, give out the first blocks | traces, SM |
| Occupancy | `gpu.cpp` `max_block_*` | none kept | blocks per SM | launch |
| Traces | `trace_reader.cpp` `gen_block_mem_trace`, `read_*sass`; `kernel.cpp` `read_mem` | the files per block, which outlive a run | split the memory trace; number instructions and accesses by warp and pc | launch |
| Configuration | `config_reader.cpp` `read_config` | maps of settings | read the file section by section | everything |
| Addresses | `mem_fetch.h` `get_mem_sub_partition_id`, `cache.h` `set_index`, `kernel.cpp` `read_mem` | none | requests of a warp, slice and set of a line | caches |
| GPM crossbar | `g_crossbar.cpp` | as the crossbar | not built (not in `CMakeLists.txt`) | nobody |
| Driver | `main.cpp`, `toplevel.cpp`, `debug.cpp` | none | calls the rest once | |

The way of a load: `schedule_warp` issues it to an LDS unit, which makes one
request per cycle into a bank queue. `l1_cache_cycle` serves the front of every
bank: a hit goes to `l1_to_sm`, a miss joins the MSHR entry of its sector and,
if it is the first, goes to `m_miss_queue`, from there through the crossbar to a
slice, waits there for a latency that depends on the L2 lookup, and returns
through the crossbar. `write_back_request_l2` then releases every request of the
entry. The instruction is complete when its count of pending requests is zero.

What is hard, and where (each item is a hazard in `PROJECT.json`):

- order and retry: requests wait at the front of a bank, of `m_l1_to_l2` or of a
  crossbar buffer for entries or room that only other requests free;
- counters that must agree with where requests are (`pending_request`,
  `m_pending_mem_request_num`, `pending_inst`), changed in four functions;
- MSHR entries that hold plain pointers to requests owned by other queues;
- removal of a block between the calls that still need it;
- SMs that share `block_pointer`, and the condition that ends the simulation;
- arbitration that must starve nobody;
- files that survive a stop of the simulator in the middle of splitting a trace,
  and a test for one of them that stands for all;
- two traces that are paired by counting only: nothing in them says which access
  belongs to which instruction.

What makes each part correct: the crossbar delivers every packet once, in order
and within bounded time; a slice and an L1 cache answer every request exactly
once and keep their tables within limits; an instruction is complete exactly when
its requests are back; a block runs on exactly one SM until nothing of it is
under way; an instruction sees the results it depends on; the loop ends, and only
when all is done; every memory instruction is simulated with its own addresses;
the configuration is what the file says, and as many blocks run on an SM as fit.

## 2. Modules

| Module | Models |
|---|---|
| `Crossbar` | the two routers: state and the effect of every call |
| `Interconnect` | the crossbar with the calls of SMs and slices in the order of a cycle; its properties |
| `FifoChannels` | abstract specification: every message is with one device or in one FIFO channel between two |
| `CrossbarLoop` | the loop of `RR_Advance` statement by statement, to compare with `Advance` |
| `Requests` | requests and their attributes, shared by the caches |
| `SectorCache`, `MshrTable` | tag array, lines and sectors, MSHR table as operators on values |
| `L2Cache` | a slice: return loop, arrival, lookup |
| `L2System` | a slice and an environment that sends anything at any time; its properties |
| `Tlb` | the TLB window |
| `L1Cache` | memory side of an SM: LDS units, banks, L1, write back, counters |
| `L1System` | that, with warps that issue, a crossbar and an L2 left open; its properties |
| `RequestServer` | abstract specification: what is accepted is answered, once and some time |
| `InstDependency` | `get_inst_dependency` |
| `SmCycle` | blocks, warps, units and scheduling of all SMs, and the end of the loop; its properties |
| `MemorySystem` | `L1Cache`, `Crossbar` and `L2Cache` composed in the order of `gpu_cycle`; its properties |
| `StartUp` | trace splitter with its files, launch of a kernel, first blocks, stops and restarts; its properties |
| `Occupancy` | `max_block_per_sm` and the four limits it is the minimum of |
| `AddressMap` | requests of a warp, slice of an address, set of a line |
| `ConfigReader` | `read_config` |
| `Algorithms` | runs the three modules above on chosen inputs; their reference definitions |
| `CommonLemmas` | lemmas the proofs share: folds, induction, sequences without repetition, tag arrays |
| `InterconnectProofs`, `L2Proofs`, `L1Proofs`, `MemoryProofs`, `SmProofs`, `StartUpProofs`, `AlgorithmsProofs` | theorems about `Interconnect` (with `FifoChannels` and `CrossbarLoop`), `L2System`, `L1System`, `MemorySystem`, `SmCycle`, `StartUp`, `Algorithms` |
| `MC...` | instances for TLC |

`X.tla` with an environment is called `XSystem` where the component and its
environment are separate modules. Definitions keep the names of the source.
A definition called `F_Something` is a mutant of `F`: `F` with one plausible
bug, used to show that a property can fail; nothing else refers to it.

### Correspondence with the code

- `Crossbar`: a packet is what `Push` stores (`data`, `output_deviceID`); routers
  are indexed by `Interconnect_type`. `Advance` says what the loop of
  `RR_Advance` achieves: for every output with room the first node in scan order
  whose front packet wants it is served. `CrossbarLoop` has the loop itself. TLC
  checks that the two agree for all contents of four nodes, and section 4 proves
  it for any number of nodes and all contents.
- `Interconnect`: one action per call sequence of a device: `MemReply`/`MemPop`
  (`l2_cache_cycle`), `XbarAdvance`, `SmRequest`/`SmSilent` (`sm_cycle`,
  `m_miss_queue_cycle`). `turn` is the position in the loop of `gpu_cycle`.
  `waited` is a history variable. As channels: `Channels` is what is on the way
  from one device to another, `AtDevice` what an SM may ask for (`idle`) and what a
  slice has popped and not answered (`held`).
- `L2Cache`: `l2_cache_cycle` is one action. Its disjuncts are the branches of
  `cache_access`. The vector `l2_to_sm` with its countdowns is a set of records
  with the cycle in which the countdown ends, and all that are due are returned at
  once: that the code erases the vector while it traverses it is abstracted. DRAM
  is only a latency in the code.
- `L1Cache`: the calls of `sm_cycle` are actions in the order of `step`, one per
  bank and per LDS unit, because the order of these calls is what the counters
  depend on. A bank is a sector number, as in `l1_bank_hash`.
- `SmCycle`: the calls of `sm_cycle` again, now with blocks, warps and all kinds
  of units; the memory is replaced by any return of requests it holds.
  `write_back` there stands for both write back functions. Times are relative to
  the clock of the SM: the number of cycles until a completion, and the
  difference of `ready_time` and `cycles`, which may be negative because the code
  adds latencies to an old `ready_time`. Below minus the sum of all latencies the
  difference cannot matter any more and is cut (`Lag`). The vector
  `current_active_warps` is the set `ready_warps` with the order of the traversal
  (`Before`), and `del_inactive_block` renumbers the blocks that stay
  (`InOrder`): both say what the code's loops over vectors achieve. Each request
  under way has a number in `UnderWay`, so that `m_pending_mem_request_num` goes
  down by as many as came back. `early` is history: the instructions that
  `write_back` completed while a unit still had requests of theirs to make.
- `MemorySystem`: `turn` is the position in the loop of `gpu_cycle`: the slice,
  the crossbar, the SMs one by one. The actions are those of the three modules,
  conjoined where the code calls from one part into another: the slice pops a
  request (`PoppedBy`) and pushes its answers (`Replies`), an SM pops a reply and
  pushes the front of its miss queue. Only the moment at which a warp issues its
  next load or store is open, and `MaxHolds` bounds how often a warp that could
  issue does not. There is one slice. The writes to DRAM that are left when the
  loop ends (`stg_cycles`) are added to the cycles, as at the end of `gpu_cycle`.
- `L2Cache.l2_to_dram` is a set of records with the request and its countdown
  `left`, as in the code: every countdown goes down at the start of a cycle, and a
  write is added by the lookup, after that (`Written`). The code removes nothing
  from it and reads it once, after the loop. `at`, the cycle of the write, is
  history: the code does not keep it.
- `StartUp`: `Open` and `Write` are two actions because the program may be
  stopped between creating a file and writing the line. `exists` and `file`
  survive `Stop`, all else is lost. A line carries `n`, the position of its
  instruction in what the warp executed: the code does not have it; the
  properties use it to say which access belongs to which instruction, and
  `TracesAssumption` what the tool writes in which order. `short` and
  `doubled` are history, sets of blocks: those that had lines left to write when a
  split was stopped and, because block 0 had its file, taken for complete; and those
  that had some but not all of their lines when it was stopped before that, so that
  every later split writes behind a partial copy.
- `Occupancy` is in integers. The code computes with floats, but all operands are
  integers below 2^24, every quotient is rounded at once, and a correctly rounded
  quotient of such integers is an integer only if the quotient is one: `ceil` and
  `floor` give what integer division gives.
- `ConfigReader`: the four nested loops share `single_line`, `key` and `value`
  across sections. Here a step per line carries what they hold, and the file is a
  fold.
- `AddressMap`: shifts and masks by powers of two are quotients and remainders.
  A set index is computed from the number of the line.

## 3. Runs

Each run has its own cfg; each property has a mutant that TLC finds.

| Run | Shows |
|---|---|
| `interconnect` | `ReqInBufferBound`, `OneFlitPerOutput`, `BoundedWait`; the crossbar with its devices implements `FifoChannels`: no request is lost, doubled, misrouted or overtaken (`ImplementsFifo`); `EventuallyAnswered` |
| `rr_advance_loop` | `Advance` is the loop of `RR_Advance` |
| `l2_slice` | `ExactlyOnce`, `MshrCovered`, `MshrBounded`, `UniqueLine`, `FillStays` |
| `l1_sm` | `PendingExact`, `OnePlace`, `HitsInOrder`, `UniqueLine`, `NoEarlyCompletion` (one LDS unit) |
| `memory_system` | `OnceBelow`: no request is lost or doubled between the parts; `EndQuiet`, `DramDone`; every load and store completes (`ImplementsServer`); `KernelEnds` |
| `sm_units` | `RequestsHaveBlocks`, `InactiveForever`, `RegistersSettled`, `KernelEnds` (requests may return while their instruction is in its unit) |
| `sm_kernel` | `BlocksAccounted`, `EndsClean`, `RegistersSettled` (memory answers an instruction after its last request) |
| `start_up` | `Paired`: an instruction gets the addresses of its own execution; after a stopped split possibly none, and if the split was redone behind a partial one those of an earlier execution; `SpawnedPrefix` |
| `algorithms` | `ConfigAsWritten`, `OccupancyExact`, `RoutedToSlice`, `SliceUsesAllSets`, `StridesSpread` |
| `l2_store_allocates`, `l1_two_units`, `l1_store_hit` | violations, see section 6 |

Where a module has a type invariant, its run checks that too.

### Bounds, and why they are enough

- Crossbar: two SMs and two slices are the smallest system with contention on
  both sides and with a node that neither sends nor receives in a router. Four
  requests: two on one pair of devices (order), two that compete for a slice, two
  from different slices to one SM. Both limits are 1: SMs wait for their input
  buffer, an output is full with one packet, and replies, which no limit holds
  back, still queue behind each other.
- L2: one set of two ways with three lines (evictions), two sectors, two MSHR
  entries of two requests, and requests that merge, that only share the line, and
  stores to both; latencies 1, 3 and 8 are far enough apart for answers to overtake
  each other, and for a store to bring a sector back while the load that missed it
  is still waiting. The temporal run has four requests and one entry.
- L1: one set of two ways with three lines, two banks, two MSHR entries of two
  requests; two loads and a store that meet in a sector. `l1_hit_latency` 3 is
  not less than the requests of an instruction, as with the configured 32. The
  TLB window covers one line on each side of its start, and starts at the end of
  a small address space, so that hits, misses and wrap-around occur.
- SM: two SMs with three blocks and one block each at a time (a block is taken in
  the middle of the kernel, by either SM); two warps per block that share one LDS
  unit and one scheduler; a program overwrites a register that a load of two
  requests also writes. `sm_units` needs two blocks on one SM with two LDS units,
  of which one keeps the bank of the other busy: a load of four requests, whose
  result the next instruction reads, against a store of two. `Lag` is 18 and 6, no
  less than the sum of the latencies of each program (`LagSuffices`, an assumption TLC
  evaluates); the proofs need only that it is a number.

- Memory system: two SMs that share lines and sectors, three loads and two
  stores with nine requests, one MSHR entry of two requests on every level, one
  way in L1 and two in the slice, buffers of one packet: entries and buffers are
  full at the same time on several levels, replies queue behind each other, and
  lines are evicted while stores to them are on the way. `dram_latency` is 60, so
  that the last write to DRAM is over after the loop ends in some runs and before
  in others. Each SM may hold back once (`MaxHolds` 1): that a warp is ready later
  reorders the requests of the two SMs. All request numbers, lines and SMs are
  different: there is no symmetry to use.
- Start-up: three kernels. In `Loop` two warps of two blocks execute a pc twice
  and once, in every interleaving of the memory trace; in `Silent` block 0 makes
  no access, so its file never exists and every start splits again; `Wide` has
  six blocks for two SMs that take two each. Three starts (`MaxStarts`): a split
  that is stopped, one that is done over or skipped, and one after that.
- Algorithms: all files of up to five lines over an alphabet of nine (two
  sections of numbers, the latency table, both kinds of marks, a comment, a key
  twice, a key without a value); all kernels of up to 18 threads, 9 registers and 9 bytes on a small SM
  whose limits are met in every combination; warps of up to four threads; every
  slice and stride for the configured 68 SMs and 44 slices and all lines below
  `MaxLine`, 44 slices of 64 sets with four lines each.

In `L1System` and `L2System` the clock stands still while every request waits
for the environment: such a cycle changes the clock only, and only the order of
times is used. These runs have a `VIEW` (`Shape`) that replaces times by their
order and countdowns by what is left. Among their properties only `FillStays` of
`l2_slice` is temporal. It speaks of the states before and after one step, of tags,
answers and ages that `Shape` keeps up to their order, so two steps between the same
views agree on it. The view of `l2_slice` also leaves out `l2_to_dram`, which nothing
in a slice reads. The runs that check liveness have no view.

### Fairness

The simulator is one thread that never blocks, so weak fairness of the next step
is what the loop does. `MemorySystem` assumes nothing else: that the slice
answers, that the crossbar delivers and that every bank, MSHR table and arbiter
serves everybody is shown there. Modules that leave a part open assume strong
fairness of it, which `memory_system` justifies: in `Interconnect` a slice answers
each request it holds, in `SmCycle` memory returns each request (per request,
since each is returned by an action of its own). No fairness is assumed of
schedulers. `L2System` and `L1System` check safety only; `L2System` states weak
fairness of a cycle because the violation of `StoreAllocates` should not depend
on a slice that stops. `StartUp` and `Algorithms` state none: they have no
temporal property.

`CHECK_DEADLOCK FALSE` is set where all work may be done: the L1, L2, SM, memory
system, start-up and algorithms runs.

## 4. Proofs

`CommonLemmas` has what the proofs share. The installed provers cannot use the
library's induction theorems, which take an operator as a parameter; what is needed
of induction is derived here from well-founded sets: `CountUp` (up to a number),
`FoldExists` (the recursion of a fold over a finite set has a solution), `FoldKeeps`
(what every step keeps holds of the result) and `FoldIndices` (a fold over a
sequence is one over its places). `Least`, `Greatest` and `DistinctCount` are about
finite sets of numbers and sequences without repetition. The lemmas on tag arrays
say what an access and a fill do to a line, and which line is replaced.

### The crossbar

`InterconnectProofs` proves, for any number of SMs and slices, any buffer limits
of at least one and any set of requests (`CrossbarAssumption`,
`RoutingAssumption`):

| Theorem | Statement |
|---|---|
| `TypeCorrect` | `Spec => []TypeOK` |
| `Invariant` | `Spec => []IInv` |
| `RequestBuffersBounded` | `Spec => []ReqInBufferBound` |
| `OutputsDrained` | `Spec => []OneFlitPerOutput` |
| `NobodyStarves` | `Spec => []BoundedWait` |

The inductive invariant `IInv` adds two facts to the properties. `Direction`: a
packet in a router goes to a device that pops from that router. Without it a
packet could arrive where nobody takes it out, and `OneFlitPerOutput` would not
be kept by an Advance. `EmptyNotWaited`: an empty input buffer has a waiting time
of zero, so that a packet pushed into it starts at zero. The argument for
`BoundedWait`: an Advance moves every node one place forward in the scan
(`ScanStep`); the node in the first place is served, because its output has room
(`OutputsEmpty`, from `OneFlitPerOutput`); so a packet that stays has a place
above zero, and waited time plus place does not grow. The lemmas `AdvanceInEffect`
and `AdvanceOutEffect` say what an Advance does to one buffer; remainders are
removed by `SmallMod`. IInv was checked with TLC first.

### The crossbar as channels

`InterconnectProofs`, under the same assumptions:

| Theorem | Statement |
|---|---|
| `FifoInit` | `Init => Fifo!Init` |
| `FifoStep` | `TypeOK /\ Addressed /\ [Next]_vars => [Fifo!Next]_(Fifo!vars)` |
| `CrossbarIsFifo` | `Spec => ImplementsFifo` |

`FifoChannels` lets nothing happen to a request but this: a device that has it sends
it, which puts it at the end of one channel and takes it from the device; or it is at
the front of a channel and the device at the other end receives it. So requests are
conserved: a crossbar that drops or doubles even a lone packet has a step that is none
of these. When an SM pops a reply and pushes a request in one turn both happen at once,
on two networks (`Exchange`). The devices are mapped by `AtDevice`: an SM has those of
its requests that are idle, a slice those it has popped and not answered.

The channel from `i` to `o` is what `o`'s output buffer holds of `i`, then what
`i`'s input buffer holds for `o` (`Channels`). A Push appends to one channel, a Pop
takes the front of one, an Advance takes a packet from the front of the second part
to the end of the first and so changes no channel (`PushChannel`, `PopChannel`,
`AdvanceChannel`); from these, with the devices, `PushSends`, `PopReceives` and
`SmExchanges`. `AdvanceChannel` needs `Addressed`: a packet in an input buffer came from
that node, otherwise an Advance would put it into a channel it was never sent on;
this holds because a slice only answers what it has popped, and what comes out for a
slice is for it. It also needs that an output is issued to once (`OneIssued`).
Selecting the packets of one channel is a filter. Induction over sequences is out of
the prover's reach, so `Selected` is written with ranks: the j-th selected element is
at the place that has j selected places up to it. What appending and taking the front
do to it (`SelectedAppend`, `SelectedTail`) then follows from facts about the
cardinality of sets of numbers.

### The loop of RR_Advance

`InterconnectProofs`, for any number of devices, both limits and all contents:

| Theorem | Statement |
|---|---|
| `LoopIsAdvance` | `IcntTypeOK => LoopAgrees` |
| `LoopIsAlwaysAdvance` | `Spec => []LoopAgrees` |

`Advance` says: the first node of the scan that wants an output with room gets it.
The loop goes over the nodes one by one, with flags for the outputs it has used. Its
state after k nodes is `AfterSteps(k)`: what `Advance` does, restricted to the
first k nodes of the scan. A node issues in the loop exactly when it is the one
`Advance` chooses (`StepIssues`): an output that an earlier node has used is flagged,
and one that is not flagged still has the room it had before the loop.

### The L2 slice

`L2Proofs`, for every set of requests, every cache configuration, all latencies
and all sizes of the MSHR table (`L2Assumption`, `RequestsAssumption`):

| Theorem | Statement |
|---|---|
| `AnsweredOnce` | `Spec => []ExactlyOnce` |
| `EntriesCovered` | `Spec => []MshrCovered` |
| `TableBounded` | `Spec => []MshrBounded` |
| `CountdownAhead` | `Spec => []AnswersAhead` |
| `TypeCorrect` | `Spec => []TypeOK` |
| `LinesUnique` | `Spec => []UniqueLine` |
| `FillsStay` | `Spec => FillStays` |

`AnswersAhead` says that the set of answers is what the vector would be: each is due
in the future, and no two have the same time of lookup. It is a part of the invariant,
used here and for the composed system, and no run checks it for itself.

The tags only decide which outcome a lookup has. So `Outcomes` first reduces the
seven branches of a cycle to three: no answer is made, an answer is made, or an
answer is made and the request joins the table. `Moved` is what they have in
common. The invariant adds to the properties that places exclude each other
without counting (`Apart`), that `replied` is one exactly for requests that are
at no place (`Replied`), and that the table has finitely many entries, so that
cardinalities mean something. The heart of `MshrCovered` is `ReturnFacts`: an
entry that the return loop leaves has no request that was just answered, for
among the answers for its sector there is a first one, and that one releases the
entry. A first one exists because inclusion is well-founded on finite sets
(`Least`).

The last three theorems are about the tags (`L2ConfigAssumption`: the tag array is
for the lines and sectors of the requests). A cycle fills in any number of answers
and then does its lookup. The fills are a fold over the set of answers; `ReturnFold`
shows that its recursion has a solution, and `FoldKeeps` that clean tags stay clean
(`CleanTags`, as for L1 below). `FillsStay` needs an invariant of the fold
(`Filling`): a line as young as this cycle is one of the lines being filled in its
set, every other line is what it was, and what was filled is among the young ones. A
fill into a set with room evicts the least of the ages, so an old line (`OlderWay`).

The proof showed that `FillStays` was stated wrongly before. A fill that finds its
sector in place, because a store or another request brought it there after the miss,
does not make the line younger, so another fill of the same cycle may evict it. With
latencies 1, 2 and 3 TLC had no time to reach this. The property now speaks of fills
whose sector is absent, and the latencies of the run are longer.

### The L1 cache

`L1Proofs` has `HitsOrdered`, `Spec => []HitsInOrder`: several banks find hits in
a cycle and `write_back` stops at the first one that is not ready. The invariant
adds that no hit waits longer than one that would be found now (`Bounded`), and
that units point at requests their instructions have (`Typed`).

The tags, for every number of sets, ways and sectors,
both replacement policies and all requests (`L1ConfigAssumption`: the tag array is
for the lines and sectors of the requests):

| Theorem | Statement |
|---|---|
| `TypeCorrect` | `Spec => []TypeOK` |
| `LinesUnique` | `Spec => []UniqueLine` |

A fill comes long after the lookup that missed, and probes again: it allocates the
line unless the probe matches. The probe passes over lines without a valid sector,
so a line that kept its tag with every sector INVALID would be allocated a second
time. The invariant (`Held`, with `CleanTags` for the tags) therefore adds that a line with a tag
holds a sector (`HoldsSomething`) and that no sector is RESERVED: a fill leaves the
sector it is for VALID (`FillClean`), a lookup only changes times (`AccessClean`),
a store that hits only marks a sector MODIFIED (`MarkClean`). `MissNoMatch` is the
consequence that counts: a probe with outcome MISS found no way with that tag.

Where the requests are, and what is counted, for any number of units, banks,
instructions and requests (`L1Assumption`: a request belongs to one instruction and
is once in its list, since `gpu.cpp:778` makes a new one each time):

| Theorem | Statement |
|---|---|
| `RequestsApart` | `Spec => []OnePlace` |
| `CountersExact` | `Spec => []PendingExact` |
| `NoEarlyCompletionAlone` | `n_lds_units = 1` implies `Spec => []NoEarlyCompletion` |

`pending_request` is changed in four functions, for requests that queues and entries
hold; that it is the number of requests made and not back is not inductive by itself.
The invariant (`PInv`) says where a request can be: nothing is twice in a queue, the
places of the SM exclude each other, and so do those on the way to L2 and back
(`Placed`). A load is in both kinds of places at once: it waits in the entry of its
sector while it, the only one of its entry, is on its way. A reply therefore finds its
entry, and releases exactly the loads in it (`ReplyPlaced`); that an entry with loads
has exactly one of them below is what keeps the counts exact. A request that is not
made yet is nowhere (`Later`).

With several units an instruction can be complete too early (section 6). With one it
cannot: a unit that is never refused sends in every cycle, so when replies are looked
at, the request it made last is still in its bank (`LastInBank`). No bank is served
between the unit's turn and the next replies (`Quiet`).

### The memory system

`MemoryProofs`, for every finite number of SMs, every set of requests and
instructions, all tag arrays, buffer limits, MSHR limits and latencies:

| Theorem | Statement |
|---|---|
| `WritesDone` | `Spec => []DramDone` |
| `BelowOnceAlways` | `Spec => []OnceBelow` |
| `QuietEnd` | `Spec => []EndQuiet` |
| `ServesInstructions` | `Spec => Server!Init /\ [][Server!Next]_...`, the safety part of `ImplementsServer` |

The code keeps no time for a write to DRAM, only a countdown that every slice cycle
decrements (`cache.cpp:367`). `CountedRight` says what that amounts to: until the loop
has ended, `left` is the cycle of the write plus `dram_latency` minus the current
cycle, so every countdown went down exactly once in each cycle after that of the write
and not in it (`WriteAdded`). When the loop has ended the greatest countdown, if it is
positive, is added to the cycles: then the latency of every write has passed
(`WritesCovered`; the set of writes is finite, so there is a greatest, `MaxGreatest`).

The other three rest on one invariant of the composed system, `MInv`, with nothing
assumed of any part. It counts. `Below(mf)` is the sum of eight places in the order a
request passes them (`Missed`, `Sent`, `Arriving`, `Looking`, `Answering`, `Answered`,
`Returning`, `Popping`); above them a request is in its bank (`Banked`), a hit on its
way back (`Hitting`) or in the MSHR entry of its sector (`Merged`). `Out(mf)` is how
often the instruction of `mf` is still to be told of it: `Banked + Hitting`, plus
`Below` for a store and `Merged` for a load. The heart of `MInv`:

- `LoadsBelow`: of the loads of a sector exactly the one at the head of the MSHR entry
  is below, once. `OnceBelow` says this by cardinalities, which no step preserves by
  itself; with the head named, a step either leaves it or takes the whole entry.
- `OutOnce`: `Out` is at most one, and zero for what `unit_cycle` has yet to make
  (`Unmade`). So an answer finds its load in the entry, and nothing is released twice.
- `Counted`: `pending_request` is the number of requests of an instruction that are
  out; `Completes`: an issued instruction that waits for none is complete.
- `HomedSm`, `HomedIcnt`: what is kept for an SM, a bank or a sector, and every packet,
  is for that SM, bank or sector. `ReplyHere` ties the popped reply to the SM that runs.
- `Flying`: no two answers of the slice have the same time of lookup, which makes the
  order in which `Replies` pushes them well defined (`AnswerRanks`);
  `EntryAnswered`: an MSHR entry of the slice has an answer that will release it.

There is one lemma per action (`SliceStep`, `IcntStep`, `PopsStep`, `PushesStep`,
`WriteBackStep`, `WriteBackL2Step`, `BankStep`, `UnitStep`, `IssueStep`, `ReturnsStep`,
`EndStep`; `EndStep` also needs the finiteness of `l2_to_dram`), from lemmas that say
how each queue changes each count (`TimesAppend`, `TimesTail`, `AdvanceCounts`,
`AnswersCount`, ...). At the end of the loop no instruction waits, so `Out` is zero
everywhere (`NothingLeft`), then every count is, and every queue is empty.

The parts of `MInv` other than the types (`Typed`) were checked with TLC on the
instance of `memory_system` before they were proved.
The proof needed two things of the module: that there are finitely many SMs
(`MemorySystemAssumption`; without it `Cardinality(Sm)` means nothing), and `Replies`
by the rank of an answer instead of a recursive conversion of a set to a sequence.

### Blocks, warps and scheduling

`SmProofs`, for every number of SMs, blocks, warps, units and schedulers, every
program and every latency (`SmAssumption`):

| Theorem | Statement |
|---|---|
| `TypeCorrect` | `Spec => []TypeOK` |
| `BlocksKept` | `Spec => []RequestsHaveBlocks` |
| `OnOneSm` | `Spec => []BlocksAccounted` |
| `AllFinished` | `Spec => []EndsClean` |
| `StaysOver` | `Spec => InactiveForever` |
| `Settles` | `Spec => RegistersSettled` |
| `NoneTooEarly` | `~EarlyReturns` implies `Spec => [](early = {})` |

They share one inductive invariant (`IInv`, checked with TLC on both instances
first); each action has a lemma that it keeps it. Its parts:

- `CountInv`: `m_pending_mem_request_num` and `pending_inst` are the cardinalities
  of the requests under way and of the units that hold something of the warp. So
  a block whose counters are zero has nothing anywhere (`InactiveIsQuiet`), which
  is why its removal is safe (`BlocksKept`) and why nothing becomes active from
  nothing (`StaysInactive`, `StaysOver`).
- `HomeInv`: two places never hold the same block, none holds a block that was not
  taken, and a block leaves its place only when it is not active. That the first
  blocks are so is arithmetic on rounds over the SMs (`Rounds`, `RoundOf`,
  `FirstHomes`).
- `UnitInv`, `RequestInv`, `ReadyInv`, `DoneInv`: what units, requests and the
  scheduler refer to was issued, by warps whose blocks are on an SM.
- `LoopInv`: while `sm_active` is false the SMs that had their turn have nothing
  to do. A later SM cannot give them anything: it takes blocks only if
  `block_pointer` is below the grid size, and then they would be active.
- `WaitInv` and `SettledInv`, for `Settles`: an instruction that is in a unit or has
  a request under way is not complete, unless it is in `early`, and whatever an issued
  instruction conflicts with is over, unless it is in `early`. `early` has the
  instructions that `write_back` completed while a unit still had requests of theirs
  to make (`l1_two_units`, section 6). So `Settles` holds for any number of LDS units,
  with these instructions as the exception it names: one that is completed too early
  is not waited for, but no other wait is lost by it, also not through a chain of
  overwrites. `NoneTooEarly` says when the exception is empty.
  The second part is what makes last writers enough (`SettledBefore`): an earlier
  writer of a register conflicts with the last writer, so it was over when that
  one was issued.

### Start-up

`StartUpProofs`, for every kernel, trace and number of SMs, blocks and starts:

| Theorem | Statement |
|---|---|
| `TypeCorrect` | `Spec => []TypeOK` |
| `SpawnsPrefix` | `Spec => []SpawnedPrefix` |
| `AddressesPaired` | `Spec => []Paired` |

`SpawnedPrefix` is not inductive: that the union of `block_vec` is an initial
segment needs that a block is skipped only when every later one will be
(`GivenInv`), and that needs that the SMs before `index` have exactly one block
more than the others (`Level`), so that a full SM whose turn it is means that all
are full. `MaxIsIn` (the last header line exists) is proved without induction.

`Paired` relates three counts: of the lines of a file by `read_mem`, of the lines
of the instruction file by `read_sass`, and of what the warp executed. What the
proof knows of a trace is `TracesAssumption`: both files have the lines of a warp
in the order of execution, the address lines are those of the instructions that
access memory, and a pc is an instruction of one kind. `FilesInv` says how far the
files can be. `Copied(b, m, o)`: behind line `o` of the file of block `b` stand the
lines of `b` before line `m` of the trace, in order. Its parts:

- `FirstInv`: unless the block is `doubled`, the file begins with a copy of all its
  lines, or is the copy of those before some `m` (`Partial`); which `m` depends on what
  the simulator does (`Reached`).
- `TailInv`: while a split runs, the file ends with a copy up to where it is
  (`CopyEnds`). `WholeInv`: once one has gone to its end, some copy in the file is
  whole, unless the block is `short`.
- `LinesInv`: every line is the last of a copy that begins somewhere before it
  (`LastOfCopy`).
- `ExistsInv`: which files exist, and that a block is only `short` once block 0 has one.

From there the proof is counting. The number of an instruction is that of the earlier
executions of its pc by the warp (`InstRank`). In the first copy a line has the same
number (`PlaceRank`), a line behind a whole first copy a greater one than any
instruction (`BehindRank`), and equal numbers in one set are of one execution
(`SameRank`): what is found is right (`AccessRank`). In a `doubled` block the number of a
line is at least that of its execution, because the copy it is last of has all earlier
executions (`CopyRank`): what is found is of the same execution or an earlier one
(`EarlierLess`). And a whole copy, wherever it begins, gives every number
(`RanksFilled`, `NumberGiven`): something is found unless the block is `short`. A
restart over a partial split really does pair wrongly, with the addresses of earlier
executions; the theorem says that it gets no worse. For these proofs the lists
that are parts of a file became functions on line numbers, in place of
`SelectSeq`, which is recursive.

### Occupancy, addresses, configuration

`AlgorithmsProofs`, for every kernel and every configuration with
`OccupancyAssumption`, for all lists of addresses and all configuration files:

| Theorem | Statement |
|---|---|
| `OccupancyIsExact` | `n` blocks fit just when `n <= max_block_per_sm`, for all `n` |
| `OccupancyCorrect` | `Spec => []OccupancyExact` |
| `SliceInRange` | every address is routed to one of the 44 slices behind 68 SMs |
| `LineOnOneSlice` | all sectors of a line are routed to the same slice |
| `ServedOnce` | each thread of a warp is served by exactly one request of `read_mem` |
| `WarpsRouted` | `n_shader = 68`, `n_mem = 44` imply `Spec => []RoutedToSlice` |
| `ReadAsWritten` | a well-formed file is read to its end, and every map is its `Meaning` |
| `ConfigCorrect` | `Spec => []ConfigAsWritten` |

Each of the four limits is shown to be exact on its own (`WarpsExact`,
`SmemExact`, `RegsExact` over `FileExact`) from a few facts on quotients
(`DivLe`, `MulMono`): the greatest `n` with `n * k <= m` is `m \div k`. The
minimum of exact limits is exact. `read_mem` merges addresses in a fold: after k
threads the list has the sectors of the first k, none twice (`Collected`,
`CollectAll`). The numbers 68 and 44 are those of the code (`mem_fetch.h:74`).

`read_config` is a fold too, and the invariant relates it to the file: after k
lines the reader is in the section of line k + 1 as `SectionOf` finds it from the
marks, and every map holds the first pair of each key among the first k lines
(`MeaningTo`, `ReadStep`, `ReadAll`). `SectionOf` looks back from one line to all
marks before it, so the lemmas under it say how it moves with k: only a mark that
opens or closes a section changes it (`SectionNext`). `WellFormed` is what the
proof needs of the file, one conjunct for each place where the four loops share a
variable too many; that a pair of the two sections of numbers has a value (`stoi`
throws without) was missing there until the proof asked for it.

### Only model-checked

Liveness, which is out of reach of the prover: `KernelEnds`, `EventuallyAnswered` and
the last promise of `RequestServer` in `ImplementsServer`. `SliceUsesAllSets` and `StridesSpread` are finite facts about the configured numbers:
TLC decides them completely for the lines it is given. Not proved because violated:
the properties of section 6, and `NoEarlyCompletion` for more than one unit.

## 5. Plan

Done: crossbar, L2 slice, L1 with the memory side of an SM, their composition, SM
scheduling and blocks, start-up, configuration, occupancy and addresses; proofs
about the crossbar, its loop and its refinement of FIFO channels, the slice, its tags
and fills, the hits, tags and counters of L1, the composed memory hierarchy (no request
lost or doubled, nothing left at the end, the writes to DRAM), the SMs, the first
blocks, the pairing of both traces, occupancy, addresses and the configuration
reader.

Left: `SmCycle` over `MemorySystem` instead of an open memory, for one SM and
a short program (the product of both is beyond the present bounds); more than
one dispatch unit per warp.

## 6. Disagreements found

- `l2_store_allocates`: a store that finds its line but not its sector marks the
  sector in an idle way whose tag it leaves alone (`cache.cpp:453`), so the next
  access to the sector misses. `gpu.config:54` configures an allocating policy.
- `l1_two_units`: `pending_request` counts requests as they are made
  (`gpu.cpp:789`). When two LDS units contend for a bank longer than the hit
  latency, the count is zero before the last request is made, and the instruction
  counts as complete. `kernel.h:199` says "true if all request release".
  `RegistersSettled` names these instructions (`early`) as its only exception and
  holds in `sm_units`, where memory may answer so early, as well as in `sm_kernel`,
  where it does not.
- `l1_store_hit`: a store that hits in L1 is never sent on (`cache.cpp:222`);
  `gpu.config:39` says global stores are written through.

## 7. Not modelled

- Blocks taken after the launch never load their memory trace
  (`load_mem_request` is called in `first_spawn_block` only): `SmCycle` has this
  (`Loaded`), no property is stated, because no document says what should happen.
- More than one dispatch unit per warp (`gpu.config:5` sets one) and ATOM
  instructions (not in `gpu_isa_latency.config`).
- Several slices at once in `MemorySystem`: slices share nothing, and contention
  between them for an SM is in `Interconnect`.
- The text of the files: a line is a record or a token of one of the kinds the
  readers tell apart.
- Write backs of dirty sectors: the code has none.
- The linear set index of L1, the low bits of the line number: the cache models take
  any `set_index` as a constant. The hash the L2 is configured with is modelled.
- `g_crossbar.*`, which is not built: `CMakeLists.txt` does not list it and
  nothing refers to it.
- Statistics, prints, timing, and the driver thread of `main.cpp`, which only
  calls the rest once.
