------------------------------ MODULE SmCycle ------------------------------
(***************************************************************************)
(* What the SMs do with blocks, warps and instructions: the loop of        *)
(* gpu_cycle over the SMs and, for each SM, sm_cycle with the removal of   *)
(* finished blocks, the LDS units, the taking of new blocks and the warp   *)
(* scheduler.  The calls of sm_cycle are the actions, in the order of      *)
(* "step".  The memory below the LDS units (modules L1Cache, Crossbar,     *)
(* L2Cache) is an environment here: it gives back any requests it has.     *)
(*                                                                         *)
(* Times are kept relative to the clock of the SM, which makes the state   *)
(* space finite and loses nothing:                                         *)
(*   - completions[w][k] is 0 once cycles > completions[k] in the code,    *)
(*     else the number of cycles until that;                               *)
(*   - ready_time[s][n][i] is ready_time - cycles of the code, but not     *)
(*     below -Lag: a unit that lags by all the latencies that can still be *)
(*     added to it is always ready.                                        *)
(* Both kinds of programs are covered: one for the warps of all blocks     *)
(* (block_sim_mode 0) and one for each block (block_sim_mode 1).  One      *)
(* instruction is issued per warp and cycle                                *)
(* (num_inst_dispatch_units_per_warp is 1).                                *)
(***************************************************************************)
EXTENDS InstDependency, Integers, SequencesExt

CONSTANTS
    sm_num, grid_size,
    max_blocks,         \* max_block_per_sm of the kernel
    WarpIds,            \* warps of a block
    m_insts,            \* the program of each warp
    num_units,          \* how many units of each name an SM has
    ldst_unit_latency,  \* 4, in set_ldst_inst
    num_warp_schedulers_per_SM,
    EarlyReturns,       \* whether a request may return before the next one
                        \* of its instruction was made
    Lag,                \* no less than the latencies that a unit can get
    INT_MAX, None

Blocks   == 0 .. grid_size - 1
Warps    == Blocks \X WarpIds
SMs      == 0 .. sm_num - 1
UnitName == DOMAIN num_units
LDS      == "LDS_units"
LdsUnits == 1 .. num_units[LDS]
Insts(w) == DOMAIN m_insts[w]

Inst == [op : STRING, unit : UnitName, latency : Nat,
         dest : SUBSET STRING, src : SUBSET STRING, requests : Nat]

ASSUME SmAssumption ==
    /\ sm_num \in Nat \ {0} /\ grid_size \in Nat \ {0} /\ max_blocks \in Nat \ {0}
    /\ num_warp_schedulers_per_SM \in Nat \ {0} /\ ldst_unit_latency \in Nat /\ Lag \in Nat
    /\ WarpIds # {} /\ IsFiniteSet(WarpIds)
    /\ LDS \in UnitName /\ num_units \in [UnitName -> Nat \ {0}]
    /\ m_insts \in [Warps -> Seq(Inst)]
    /\ \A w \in Warps : \A k \in Insts(w) :
          m_insts[w][k].op \in {"LDG", "STG"} => m_insts[w][k].unit = LDS
    /\ EarlyReturns \in BOOLEAN /\ INT_MAX # 0 /\ None \notin Warps

VARIABLES
    step,               \* the next call and its LDS unit
    sm,                 \* the SM whose sm_cycle runs
    sm_active,          \* gpu_cycle: some SM was active in this cycle
    block_pointer,      \* blocks taken so far
    block_vec,          \* blocks of each SM
    warp_point,         \* instructions a warp has issued
    active,             \* warps that may issue
    completions, pending_request, m_pending_mem_request_num, pending_inst,
    ready_time,         \* of each unit
    unit,               \* what each LDS unit holds
    busy,               \* some bank got a request in this cycle
    ready_warps,        \* current_active_warps: those not looked at yet
    warp_executed,
    early               \* history: instructions <<w, k>> that were completed
                        \* while a unit still had requests of theirs to make

blockVars == <<block_pointer, block_vec>>
warpVars  == <<warp_point, active, completions, pending_request,
               m_pending_mem_request_num, pending_inst, early>>
unitVars  == <<ready_time, unit, busy>>
schedVars == <<ready_warps, warp_executed>>
vars      == <<step, sm, sm_active, blockVars, warpVars, unitVars, schedVars>>

-----------------------------------------------------------------------------
(* first_spawn_block: the blocks go to the SMs in turn until every SM of   *)
(* the first active_sms has max_blocks.                                    *)
active_sms == IF grid_size < sm_num THEN grid_size ELSE sm_num
Spawned    == {b \in Blocks : b < active_sms * max_blocks}

FirstBlocks(s) ==
    [i \in {j \in 1 .. max_blocks : s < active_sms /\ s + (j - 1) * active_sms < grid_size} |->
        s + (i - 1) * active_sms]

\* Only these blocks get their memory trace (load_mem_request).
Loaded(w) == w[1] \in Spawned

NoInst == [w |-> None, k |-> 0, left |-> 0, unit_latency |-> 0]

Init ==
    /\ step = <<"sm_cycle", 0>>
    /\ sm = 0
    /\ sm_active = FALSE
    /\ block_pointer = Cardinality(Spawned)
    /\ block_vec = [s \in SMs |-> FirstBlocks(s)]
    /\ warp_point = [w \in Warps |-> 0]
    /\ active = Warps
    /\ completions = [w \in Warps |-> <<>>]
    /\ pending_request = [w \in Warps |-> [k \in Insts(w) |-> 0]]
    /\ m_pending_mem_request_num = [w \in Warps |-> 0]
    /\ pending_inst = [w \in Warps |-> 0]
    /\ ready_time = [s \in SMs |-> [n \in UnitName |-> [i \in 1 .. num_units[n] |-> 0]]]
    /\ unit = [s \in SMs |-> [u \in LdsUnits |-> NoInst]]
    /\ busy = FALSE
    /\ ready_warps = {}
    /\ warp_executed = 0
    /\ early = {}

WarpsOf(b) == {b} \X WarpIds
HasBlock(s, w) == w[1] \in Range(block_vec[s])

\* Mutant: an instruction that is still in its unit does not count.
BlockActive_NoPendingInst(b) ==
    \E w \in WarpsOf(b) : w \in active \/ m_pending_mem_request_num[w] > 0

\* block::is_active.  (The code also clears m_active when it is false, and
\* sm_cycle exits with "error 1" when a block it keeps has m_active false:
\* never, as InactiveForever shows.)
BlockActive(b) ==
    \E w \in WarpsOf(b) :
        w \in active \/ m_pending_mem_request_num[w] > 0 \/ pending_inst[w] > 0

\* Mutant: only the blocks of the SM count.
SmActive_OwnBlocks(s) == \E b \in Range(block_vec[s]) : BlockActive(b)

\* streaming_multiprocessor::sm_active.
SmActive(s) ==
    \/ \E b \in Range(block_vec[s]) : BlockActive(b)
    \/ block_pointer < grid_size

-----------------------------------------------------------------------------
(* The loop of gpu_cycle.                                                  *)

At(call, u)   == step = <<call, u>>
Goto(call, u) == step' = <<call, u>>

\* After sm_cycle gpu_cycle asks sm_active once more, then it turns to the
\* next SM or ends the cycle.
NextSm ==
    /\ sm_active' = (sm_active \/ SmActive(sm))
    /\ IF sm + 1 \in SMs THEN Goto("sm_cycle", 0) /\ sm' = sm + 1
                         ELSE Goto("gpu_cycle", 0) /\ sm' = 0

\* An SM that is not active returns at once.
SkipSm ==
    /\ At("sm_cycle", 0)
    /\ ~SmActive(sm)
    /\ NextSm
    /\ UNCHANGED <<blockVars, warpVars, unitVars, schedVars>>

\* while (sm_active): another cycle.
NextCycle ==
    /\ At("gpu_cycle", 0)
    /\ sm_active
    /\ sm_active' = FALSE
    /\ Goto("sm_cycle", 0)
    /\ UNCHANGED <<sm, blockVars, warpVars, unitVars, schedVars>>

Ended == At("gpu_cycle", 0) /\ ~sm_active

-----------------------------------------------------------------------------
(* sm_cycle of the SM "sm".                                                *)

Countdown(d) == IF d = INT_MAX \/ d = 0 THEN d ELSE d - 1

\* cycles += 1: every time is one cycle nearer.
StartSm ==
    /\ At("sm_cycle", 0)
    /\ SmActive(sm)
    /\ completions' = [w \in Warps |-> IF HasBlock(sm, w)
                                       THEN [k \in DOMAIN completions[w] |-> Countdown(completions[w][k])]
                                       ELSE completions[w]]
    /\ ready_time' = [ready_time EXCEPT ![sm] = [n \in UnitName |->
                         [i \in DOMAIN @[n] |-> IF n = LDS /\ unit[sm][i].w # None THEN @[n][i]
                                                ELSE IF @[n][i] > -Lag THEN @[n][i] - 1 ELSE @[n][i]]]]
    /\ busy' = FALSE
    /\ Goto("write_back", 0)
    /\ UNCHANGED <<sm, sm_active, blockVars, warp_point, active, pending_request,
                   m_pending_mem_request_num, pending_inst, early, unit, schedVars>>

\* write_back and write_back_request_l2: some of the requests of the SM come
\* back (L1 hits that are ready, and all that a reply releases).  The last
\* one of an instruction completes it in this cycle.
Holds(s, w, k) == \E u \in LdsUnits : unit[s][u].w = w /\ unit[s][u].k = k

CanReturn(s) ==
    {l \in UNION {{w} \X Insts(w) : w \in Warps} :
        /\ HasBlock(s, l[1])
        /\ pending_request[l[1]][l[2]] > 0
        /\ EarlyReturns \/ ~Holds(s, l[1], l[2])}

Returns(s) ==
    LET loads == CanReturn(s)
        most  == Max({pending_request[l[1]][l[2]] : l \in loads} \cup {0})
    IN  {back \in [loads -> 0 .. most] : \A l \in loads : back[l] <= pending_request[l[1]][l[2]]}

Back(back, w, k) == IF <<w, k>> \in DOMAIN back THEN back[<<w, k>>] ELSE 0

\* The requests of a warp that are under way, numbered per instruction.
UnderWay(w) == UNION {{k} \X (1 .. pending_request[w][k]) : k \in Insts(w)}

\* Mutant: the completion is not recorded.
Completed_Never(back, w, k) == FALSE

Completed(back, w, k) == Back(back, w, k) > 0 /\ Back(back, w, k) = pending_request[w][k]

write_back(back) ==
    /\ At("write_back", 0)
    /\ pending_request' = [w \in Warps |-> [k \in Insts(w) |-> pending_request[w][k] - Back(back, w, k)]]
    /\ completions' = [w \in Warps |-> [k \in DOMAIN completions[w] |->
                          IF Completed(back, w, k) THEN 1 ELSE completions[w][k]]]
    /\ m_pending_mem_request_num' = [w \in Warps |->
          m_pending_mem_request_num[w] - Cardinality(UnderWay(w) \ UnderWay(w)')]
    /\ early' = early \cup {l \in DOMAIN back : Completed(back, l[1], l[2]) /\ Holds(sm, l[1], l[2])}
    /\ Goto("del_inactive_block", 0)
    /\ UNCHANGED <<sm, sm_active, blockVars, warp_point, active, pending_inst, unitVars, schedVars>>

\* The one way to put a set of numbers in order.
InOrder(S) == {f \in [1 .. Cardinality(S) -> S] :
                  Range(f) = S /\ \A i, j \in DOMAIN f : i < j => f[i] < f[j]}

\* The blocks that stay keep their order.
del_inactive_block ==
    /\ At("del_inactive_block", 0)
    /\ \E f \in InOrder({i \in DOMAIN block_vec[sm] : BlockActive(block_vec[sm][i])}) :
          block_vec' = [block_vec EXCEPT ![sm] = [i \in DOMAIN f |-> @[f[i]]]]
    /\ Goto("unit_cycle", 1)
    /\ UNCHANGED <<sm, sm_active, block_pointer, warpVars, unitVars, schedVars>>

NextUnit(u) == IF u + 1 \in LdsUnits THEN Goto("unit_cycle", u + 1) ELSE Goto("take_blocks", 0)

\* Mutant: the warp does not count the request.
MakeRequest_NotCounted(u) ==
    LET h == unit[sm][u] IN
    /\ h.w # None /\ h.unit_latency = 0
    /\ pending_request' = [pending_request EXCEPT ![h.w][h.k] = @ + 1]
    /\ busy' = TRUE
    /\ unit' = [unit EXCEPT ![sm][u] = IF h.left = 1 THEN NoInst ELSE [@ EXCEPT !.left = h.left - 1]]
    /\ IF h.left = 1
       THEN /\ pending_inst' = [pending_inst EXCEPT ![h.w] = @ - 1]
            /\ ready_time' = [ready_time EXCEPT ![sm][LDS][u] = 0]
       ELSE UNCHANGED <<pending_inst, ready_time>>
    /\ UNCHANGED m_pending_mem_request_num

\* An LDS unit makes the next request of its instruction; after the last one
\* the unit is ready again.
MakeRequest(u) ==
    LET h == unit[sm][u] IN
    /\ h.w # None /\ h.unit_latency = 0
    /\ pending_request' = [pending_request EXCEPT ![h.w][h.k] = @ + 1]
    /\ m_pending_mem_request_num' = [m_pending_mem_request_num EXCEPT ![h.w] = @ + 1]
    /\ busy' = TRUE
    /\ unit' = [unit EXCEPT ![sm][u] = IF h.left = 1 THEN NoInst ELSE [@ EXCEPT !.left = h.left - 1]]
    /\ IF h.left = 1
       THEN /\ pending_inst' = [pending_inst EXCEPT ![h.w] = @ - 1]
            /\ ready_time' = [ready_time EXCEPT ![sm][LDS][u] = 0]
       ELSE UNCHANGED <<pending_inst, ready_time>>

\* It waits: for its latency, for an instruction, or for a bank that got a
\* request in this cycle.
UnitWaits(u) ==
    /\ unit[sm][u].w = None \/ unit[sm][u].unit_latency > 0 \/ busy
    /\ unit' = [unit EXCEPT ![sm][u].unit_latency = IF @ > 0 THEN @ - 1 ELSE 0]
    /\ UNCHANGED <<pending_request, m_pending_mem_request_num, pending_inst, ready_time, busy>>

unit_cycle(u) ==
    /\ At("unit_cycle", u)
    /\ NextUnit(u)
    /\ MakeRequest(u) \/ UnitWaits(u)
    /\ UNCHANGED <<sm, sm_active, blockVars, warp_point, active, completions, early, schedVars>>

\* Mutant: one block too many.
Taken_OneMore == Min({max_blocks + 1 - Len(block_vec[sm]), grid_size - block_pointer})

\* New blocks fill the SM up, in the order of their numbers.
Taken == Min({max_blocks - Len(block_vec[sm]), grid_size - block_pointer})

\* current_active_warps: the active warps, block by block, by warp number.
ActiveWarps(blocks) == {w \in active : w[1] \in Range(blocks)}

Before(v, w) ==
    \/ v[1] = w[1] /\ v[2] < w[2]
    \/ \E i, j \in DOMAIN block_vec[sm] :
          i < j /\ block_vec[sm][i] = v[1] /\ block_vec[sm][j] = w[1]

take_blocks ==
    /\ At("take_blocks", 0)
    /\ block_vec' = [block_vec EXCEPT ![sm] = @ \o [i \in 1 .. Taken |-> block_pointer + i - 1]]
    /\ block_pointer' = block_pointer + Taken
    /\ ready_warps' = ActiveWarps(block_vec'[sm])
    /\ warp_executed' = 0
    /\ Goto("schedule_warp", 0)
    /\ UNCHANGED <<sm, sm_active, warpVars, unitVars>>

-----------------------------------------------------------------------------
(* schedule_warp: the warps in their order, until every scheduler has      *)
(* issued.                                                                 *)

NextInst(w) == m_insts[w][warp_point[w] + 1]

UnitReady(n, i) == ready_time[sm][n][i] <= 0 /\ (n = LDS => unit[sm][i].w = None)
ReadyUnits(n)   == {i \in 1 .. num_units[n] : UnitReady(n, i)}

\* Instructions on shared memory are not checked for a unit.
check_unit(w) == NextInst(w).op = "LDS" \/ ReadyUnits(NextInst(w).unit) # {}

check_dependency(w) ==
    \A j \in m_dependency(m_insts[w], warp_point[w] + 1) : completions[w][j] = 0

MayIssue(w) ==
    /\ warp_point[w] < Len(m_insts[w])
    /\ check_unit(w)
    /\ check_dependency(w)

\* A load or store of global memory that has requests goes to its unit.
UsesMemory(w) == NextInst(w).op \in {"LDG", "STG"} /\ NextInst(w).requests > 0 /\ Loaded(w)

\* Mutant: pending_inst is not counted.
IssueToMemory_NotPending(w, i) ==
    /\ UsesMemory(w)
    /\ completions' = [completions EXCEPT ![w] = Append(@, INT_MAX)]
    /\ unit' = [unit EXCEPT ![sm][i] = [w |-> w, k |-> warp_point[w] + 1,
                   left |-> NextInst(w).requests, unit_latency |-> ldst_unit_latency]]
    /\ UNCHANGED <<ready_time, pending_inst>>

IssueToMemory(w, i) ==
    /\ UsesMemory(w)
    /\ completions' = [completions EXCEPT ![w] = Append(@, INT_MAX)]
    /\ unit' = [unit EXCEPT ![sm][i] = [w |-> w, k |-> warp_point[w] + 1,
                   left |-> NextInst(w).requests, unit_latency |-> ldst_unit_latency]]
    /\ pending_inst' = [pending_inst EXCEPT ![w] = @ + 1]
    /\ UNCHANGED ready_time

\* The others take their latency; a load or store without requests takes 1.
LatencyOf(w) == IF NextInst(w).op \in {"LDG", "STG"} THEN 1 ELSE NextInst(w).latency

IssueToUnit(w, i) ==
    /\ ~UsesMemory(w)
    /\ completions' = [completions EXCEPT ![w] = Append(@, LatencyOf(w) + 1)]
    /\ ready_time' = [ready_time EXCEPT ![sm][NextInst(w).unit][i] = @ + LatencyOf(w)]
    /\ UNCHANGED <<unit, pending_inst>>

\* issue_inst: the first unit that is ready takes it; without one the
\* scheduler has lost its turn.
issue_inst(w) ==
    LET n == NextInst(w).unit IN
    IF ReadyUnits(n) = {}
    THEN UNCHANGED <<warp_point, completions, unit, pending_inst, ready_time>>
    ELSE /\ IssueToMemory(w, Min(ReadyUnits(n))) \/ IssueToUnit(w, Min(ReadyUnits(n)))
         /\ warp_point' = [warp_point EXCEPT ![w] = @ + 1]

\* One warp.  A warp at the end of its program with no request under way is
\* no longer active.
schedule_one(w) ==
    /\ At("schedule_warp", 0)
    /\ w \in ready_warps /\ \A v \in ready_warps \ {w} : Before(w, v)
    /\ warp_executed < num_warp_schedulers_per_SM
    /\ IF MayIssue(w)
       THEN issue_inst(w) /\ warp_executed' = warp_executed + 1
       ELSE UNCHANGED <<warp_point, completions, unit, pending_inst, ready_time, warp_executed>>
    /\ active' = IF warp_point'[w] = Len(m_insts[w]) /\ m_pending_mem_request_num[w] = 0
                 THEN active \ {w} ELSE active
    /\ ready_warps' = ready_warps \ {w}
    /\ UNCHANGED <<step, sm, sm_active, blockVars, pending_request, m_pending_mem_request_num, early, busy>>

schedule_done ==
    /\ At("schedule_warp", 0)
    /\ ready_warps = {} \/ warp_executed >= num_warp_schedulers_per_SM
    /\ ready_warps' = {}
    /\ NextSm
    /\ UNCHANGED <<blockVars, warpVars, unitVars, warp_executed>>

Next ==
    \/ SkipSm
    \/ NextCycle
    \/ StartSm
    \/ \E back \in Returns(sm) : write_back(back)
    \/ del_inactive_block
    \/ \E u \in LdsUnits : unit_cycle(u)
    \/ take_blocks
    \/ \E w \in Warps : schedule_one(w)
    \/ schedule_done

\* The simulator always takes its next step, and memory answers every
\* request some time.
ReturnsOne(w, k) ==
    \E back \in Returns(sm) : Back(back, w, k) > 0 /\ write_back(back)

Fairness ==
    /\ WF_vars(Next)
    /\ \A w \in Warps : \A k \in Insts(w) :
          m_insts[w][k].requests > 0 => SF_vars(ReturnsOne(w, k))

Spec == Init /\ [][Next]_vars /\ Fairness

-----------------------------------------------------------------------------
(* Properties.                                                             *)

\* Types; in-order issue gives every issued instruction its completion, so
\* check_dependency never reads past the end, and no count of requests goes
\* below zero ("m_pending_mem_request_num < 0!").
Held == [w : Warps \cup {None}, k : Nat, left : Nat, unit_latency : Nat]

TypeOK ==
    /\ sm \in SMs /\ sm_active \in BOOLEAN /\ busy \in BOOLEAN
    /\ block_pointer \in 0 .. grid_size
    /\ block_vec \in [SMs -> Seq(Blocks)]
    /\ active \in SUBSET Warps
    /\ warp_point \in [Warps -> Nat] /\ \A w \in Warps : warp_point[w] <= Len(m_insts[w])
    /\ completions \in [Warps -> Seq(Nat \cup {INT_MAX})]
    /\ \A w \in Warps : Len(completions[w]) = warp_point[w]
    /\ DOMAIN pending_request = Warps
    /\ \A w \in Warps : pending_request[w] \in [Insts(w) -> Nat]
    /\ m_pending_mem_request_num \in [Warps -> Nat]
    /\ pending_inst \in [Warps -> Nat]
    /\ DOMAIN ready_time = SMs
    /\ \A s \in SMs : /\ DOMAIN ready_time[s] = UnitName
                      /\ \A n \in UnitName : ready_time[s][n] \in [1 .. num_units[n] -> Int]
    /\ unit \in [SMs -> [LdsUnits -> Held]]
    /\ ready_warps \in SUBSET Warps
    /\ warp_executed \in 0 .. num_warp_schedulers_per_SM
    /\ \A l \in early : \E w \in Warps : l \in {w} \X Insts(w)

\* Nothing of warp w is on its way: not in a unit, not in the memory.
Quiet(w) ==
    /\ \A k \in Insts(w) : pending_request[w][k] = 0
    /\ \A s \in SMs, u \in LdsUnits : unit[s][u].w # w

Finished(b) ==
    \A w \in WarpsOf(b) : warp_point[w] = Len(m_insts[w]) /\ Quiet(w)

\* A block stays in block_vec while anything of its warps is in a unit of
\* the SM or in the memory: get_block never misses it and ends the program,
\* whatever the order of the removal of blocks, the units and the replies.
\* active, m_pending_mem_request_num and pending_inst each go to "no" at
\* some time while the block is still needed.
RequestsHaveBlocks ==
    \A w \in Warps :
        /\ ~Quiet(w) => \E s \in SMs : HasBlock(s, w)
        /\ \A s \in SMs, u \in LdsUnits : unit[s][u].w = w => HasBlock(s, w)

\* Every block that was taken is on exactly one SM until it is finished, no
\* SM has more than max_blocks, and nobody has a block that was not taken:
\* the SMs share block_pointer and take blocks in the middle of a cycle.
Homes(b) == {h \in SMs \X (1 .. max_blocks) :
                h[2] \in DOMAIN block_vec[h[1]] /\ block_vec[h[1]][h[2]] = b}

BlocksAccounted ==
    /\ \A b \in Blocks :
          IF b < block_pointer THEN Cardinality(Homes(b)) = 1 \/ (Homes(b) = {} /\ Finished(b))
                               ELSE Homes(b) = {}
    /\ \A s \in SMs : Len(block_vec[s]) <= max_blocks

\* When the loop of gpu_cycle ends, every block of the grid is finished.
EndsClean == Ended => \A b \in Blocks : Finished(b)

\* A block that is once not active never is again: between del_inactive_block
\* and the next cycle the units still count requests of warps.
InactiveForever ==
    [][\A b \in Blocks : ~BlockActive(b) => ~BlockActive(b)']_vars

\* An instruction is issued only when every earlier instruction of its warp
\* that writes one of its registers is over, not only the last one, which is
\* all get_inst_dependency looks at; EXIT and BAR when all are.  The one
\* exception is a load or store that was itself completed too early: with
\* several LDS units all requests it made so far can be back before it makes
\* the next one, and write_back then takes it for complete (NoEarlyCompletion of
\* L1System).  That never spoils the wait for any other instruction.
Conflict(p, j, k) == p[j].dest \cap (p[k].dest \cup p[k].src) # {} \/ Drains(p[k])

Settled(w, j) ==
    completions[w][j] = 0 /\ pending_request[w][j] = 0 /\ \A s \in SMs : ~Holds(s, w, j)

RegistersSettled ==
    [][\A w \in Warps :
         LET k == warp_point'[w]
         IN  k > warp_point[w] =>
                \A j \in 1 .. k - 1 : Conflict(m_insts[w], j, k) => Settled(w, j) \/ <<w, j>> \in early]_vars

\* The kernel ends: no warp waits for ever for a unit, a scheduler, an
\* instruction before it or a reply.
KernelEnds == <>Ended
=============================================================================
