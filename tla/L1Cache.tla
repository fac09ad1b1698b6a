------------------------------ MODULE L1Cache ------------------------------
(***************************************************************************)
(* The memory side of a streaming multiprocessor: the LDS units that turn  *)
(* a load or store instruction into requests (sm_unit::unit_cycle), the    *)
(* L1 data cache (l1_data_cache), and the two ways back to the warps       *)
(* (write_back for L1 hits, write_back_request_l2 for replies), with the   *)
(* counters by which a warp knows that an instruction is complete.         *)
(*                                                                         *)
(* sm_cycle is one function of one thread; its calls are the actions here, *)
(* in the order of "step".  Warps, scheduling and the units that do not    *)
(* touch memory are not in this module: which instruction a warp issues    *)
(* next is left open.  All state is per SM.                                *)
(***************************************************************************)
EXTENDS Requests, SectorCache, MshrTable, SequencesExt, Tlb

CONSTANTS
    Sm,                 \* SMs
    m_sm_id,            \* the SM of a request
    None,               \* nullptr
    Inst,               \* load and store instructions, one per warp and pc
    m_coalesced_address,    \* the requests of an instruction, in their order
    n_lds_units,        \* LDS_units
    ldst_unit_latency,  \* 4, in set_ldst_inst
    l1_config, l1_m_write_policy,
    l1_m_mshr_entries, l1_m_mshr_max_merge,
    l1_hit_latency,
    num_warp_schedulers_per_SM

Unit == 1 .. n_lds_units
RequestsOf(i) == Range(m_coalesced_address[i])
SmOfInst(i) == m_sm_id[m_coalesced_address[i][1]]

ASSUME L1Assumption ==
    /\ None \notin Inst
    /\ n_lds_units \in Nat /\ ldst_unit_latency \in Nat /\ l1_hit_latency \in Nat
    /\ m_sm_id \in [MemFetch -> Sm]
    /\ m_coalesced_address \in [Inst -> Seq(MemFetch) \ {<<>>}]
    /\ \A mf \in MemFetch : \E i \in Inst : {j \in Inst : mf \in RequestsOf(j)} = {i}
    /\ \A i \in Inst : IsInjective(m_coalesced_address[i])
    /\ \A i \in Inst : \A mf \in RequestsOf(i) : m_sm_id[mf] = SmOfInst(i)

\* The tag array is for these lines and sectors, the TLB for their addresses.
ASSUME L1ConfigAssumption ==
    /\ l1_config.sectors = Sector
    /\ DOMAIN l1_config.set_index = LineAddr
    /\ LineAddr \subseteq 0 .. AddrSpace - 1
    /\ num_warp_schedulers_per_SM \in Nat

VARIABLES
    step,               \* the call sm_cycle makes next, with its bank or unit
    cycles,             \* clock of each SM
    l1_tags, l1_mshrs,
    m_queue_sm_to_l1,   \* per bank: requests for the L1 cache
    m_queue_sm_to_l1_busy,  \* banks that got a request in this cycle
    m_miss_queue,       \* requests for the crossbar
    l1_to_sm,           \* L1 hits, with the cycle they are ready
    m_start_addr,       \* window of the L1 TLB
    reply,              \* the reply popped in this cycle, in a set
    unit,               \* per LDS unit: [inst, mem_fetch_point, unit_latency]
    pending_request,    \* requests of an instruction under way
    completed,          \* completions[i] is a cycle, no longer INT_MAX
    unissued,           \* instructions no warp has issued yet
    schedulers          \* issues left in this cycle

l1Vars == <<step, cycles, l1_tags, l1_mshrs, m_queue_sm_to_l1, m_queue_sm_to_l1_busy,
            m_miss_queue, l1_to_sm, m_start_addr, m_tlb_hit, reply, unit,
            pending_request, completed, unissued, schedulers>>

IdleUnit == [inst |-> None, mem_fetch_point |-> 1, unit_latency |-> 0]

InitL1 ==
    /\ step = <<"start", 0>>
    /\ cycles = [s \in Sm |-> 0]
    /\ l1_tags = [s \in Sm |-> NewTagArray(l1_config)]
    /\ l1_mshrs = [s \in Sm |-> EmptyMshr(SectorAddr)]
    /\ m_queue_sm_to_l1 = [s \in Sm |-> [b \in Sector |-> <<>>]]
    /\ m_queue_sm_to_l1_busy = [s \in Sm |-> {}]
    /\ m_miss_queue = [s \in Sm |-> <<>>]
    /\ l1_to_sm = [s \in Sm |-> <<>>]
    /\ m_start_addr = [s \in Sm |-> tlb_start]
    /\ m_tlb_hit = [mf \in MemFetch |-> FALSE]
    /\ reply = {}
    /\ unit = [s \in Sm |-> [u \in Unit |-> IdleUnit]]
    /\ pending_request = [i \in Inst |-> 0]
    /\ completed = [i \in Inst |-> FALSE]
    /\ unissued = Inst
    /\ schedulers = 0

-----------------------------------------------------------------------------
(* The calls of sm_cycle.                                                  *)

At(call, k)   == step = <<call, k>>
Goto(call, k) == step' = <<call, k>>

\* cycles += 1, the busy bits are reset, one reply is popped.
Start(s, popped) ==
    /\ At("start", 0)
    /\ Goto("write_back", 0)
    /\ cycles' = [cycles EXCEPT ![s] = @ + 1]
    /\ m_queue_sm_to_l1_busy' = [m_queue_sm_to_l1_busy EXCEPT ![s] = {}]
    /\ reply' = popped
    /\ schedulers' = num_warp_schedulers_per_SM
    /\ UNCHANGED <<l1_tags, l1_mshrs, m_queue_sm_to_l1, m_miss_queue, l1_to_sm,
                   m_start_addr, m_tlb_hit, unit, pending_request, completed, unissued>>

\* The requests in done come back.  For each: if its instruction has a
\* request pending, decrease_pending_request, and when that leaves none,
\* completions[completion_index] = cycles.
Back(done, i) == Cardinality(done \cap RequestsOf(i))

\* Mutant: complete as soon as one request is back.
Release_AnyBack(done) ==
    /\ pending_request' = [i \in Inst |->
          IF Back(done, i) <= pending_request[i] THEN pending_request[i] - Back(done, i) ELSE 0]
    /\ completed' = [i \in Inst |-> completed[i] \/ Back(done, i) > 0]

Release(done) ==
    /\ pending_request' = [i \in Inst |->
          IF Back(done, i) <= pending_request[i] THEN pending_request[i] - Back(done, i) ELSE 0]
    /\ completed' = [i \in Inst |->
          completed[i] \/ (pending_request[i] > 0 /\ Back(done, i) >= pending_request[i])]

\* write_back: L1 hits leave from the front of l1_to_sm while they are ready.
Ready(s) ==
    {k \in DOMAIN l1_to_sm[s] : \A j \in 1 .. k : l1_to_sm[s][j].m_l1_ready_time <= cycles[s]}

write_back(s) ==
    /\ At("write_back", 0)
    /\ Goto("write_back_request_l2", 0)
    /\ Release({l1_to_sm[s][k].mf : k \in Ready(s)})
    /\ l1_to_sm' = [l1_to_sm EXCEPT ![s] = SubSeq(@, Cardinality(Ready(s)) + 1, Len(@))]
    /\ UNCHANGED <<cycles, l1_tags, l1_mshrs, m_queue_sm_to_l1, m_queue_sm_to_l1_busy,
                   m_miss_queue, m_start_addr, m_tlb_hit, reply, unit, unissued, schedulers>>

\* Mutant: only the request that was sent comes back, not those merged with it.
LoadReply_OnlyItself(s) ==
    \E mf \in reply :
        /\ ~is_write[mf]
        /\ Release({mf})
        /\ l1_mshrs' = [l1_mshrs EXCEPT ![s] = mshr_release(@, m_sector_address(mf))]
        /\ l1_tags' = [l1_tags EXCEPT ![s] = tag_array_fill(l1_config, @, m_address[mf],
                                                  m_sector_mask[mf], cycles[s])]

\* write_back_request_l2, a load: every request that waits for its sector
\* comes back, and the sector is filled (once per request, which is the
\* same as once).
LoadReply(s) ==
    \E mf \in reply :
        LET waiting == Range(l1_mshrs[s][m_sector_address(mf)]) IN
        /\ ~is_write[mf]
        /\ Release(waiting)
        /\ l1_mshrs' = [l1_mshrs EXCEPT ![s] = mshr_release(@, m_sector_address(mf))]
        /\ l1_tags' = IF waiting = {} THEN l1_tags
                      ELSE [l1_tags EXCEPT ![s] = tag_array_fill(l1_config, @, m_address[mf],
                                                      m_sector_mask[mf], cycles[s])]

\* A store: it was counted on its own.
StoreReply(s) ==
    \E mf \in reply :
        /\ is_write[mf]
        /\ Release({mf})
        /\ UNCHANGED <<l1_mshrs, l1_tags>>

NoReply == reply = {} /\ UNCHANGED <<l1_mshrs, l1_tags, pending_request, completed>>

write_back_request_l2(s) ==
    /\ At("write_back_request_l2", 0)
    /\ Goto("m_miss_queue_cycle", 0)
    /\ LoadReply(s) \/ StoreReply(s) \/ NoReply
    /\ reply' = {}
    /\ UNCHANGED <<cycles, m_queue_sm_to_l1, m_queue_sm_to_l1_busy, m_miss_queue, l1_to_sm,
                   m_start_addr, m_tlb_hit, unit, unissued, schedulers>>

\* m_miss_queue_cycle: one request is pushed into the crossbar if it has room.
Pushed(s, room) == IF room /\ m_miss_queue[s] # <<>> THEN {Head(m_miss_queue[s])} ELSE {}

m_miss_queue_cycle(s, room) ==
    /\ At("m_miss_queue_cycle", 0)
    /\ Goto("bank", 0)
    /\ m_miss_queue' = [m_miss_queue EXCEPT ![s] = IF Pushed(s, room) = {} THEN @ ELSE Tail(@)]
    /\ UNCHANGED <<cycles, l1_tags, l1_mshrs, m_queue_sm_to_l1, m_queue_sm_to_l1_busy, l1_to_sm,
                   m_start_addr, m_tlb_hit, reply, unit, pending_request, completed, unissued, schedulers>>

-----------------------------------------------------------------------------
(* cache_access for the request at the front of bank b; a bank is a sector *)
(* number (l1_bank_hash).                                                  *)

NextBank(b)  == IF b + 1 \in Sector THEN Goto("bank", b + 1) ELSE Goto("unit", 1)

BankFront(s, b) == Head(m_queue_sm_to_l1[s][b])
L1Probe(s, mf)  == tag_array_probe(l1_config, l1_tags[s], m_address[mf], m_sector_mask[mf])
\* Mutant: a request that was served is not popped.
LeaveBank_NoPop(s, b) == UNCHANGED m_queue_sm_to_l1

LeaveBank(s, b) == m_queue_sm_to_l1' = [m_queue_sm_to_l1 EXCEPT ![s][b] = Tail(@)]

\* Mutant: a store that hits does not wait.
ReadyLater_StoresAtOnce(s, mf) ==
    l1_to_sm' = [l1_to_sm EXCEPT ![s] =
                    Append(@, [mf |-> mf, m_l1_ready_time |->
                                  cycles[s] + (IF is_write[mf] THEN 0 ELSE l1_hit_latency)])]

\* A hit comes back after l1_hit_latency.
ReadyLater(s, mf) ==
    l1_to_sm' = [l1_to_sm EXCEPT ![s] =
                    Append(@, [mf |-> mf, m_l1_ready_time |-> cycles[s] + l1_hit_latency])]

\* A miss goes to the crossbar; the TLB is asked here.
ToMissQueue(s, mf) ==
    /\ m_miss_queue' = [m_miss_queue EXCEPT ![s] = Append(@, mf)]
    /\ m_tlb_hit' = [m_tlb_hit EXCEPT ![mf] = is_hit(m_start_addr[s], m_address[mf])]
    /\ m_start_addr' = [m_start_addr EXCEPT ![s] = start_after(@, m_address[mf])]

\* A load or store that hits.  Every request is for GLOBAL space (unit_cycle
\* sets it): with LOCAL_WB_GLOBAL_WT a store only marks the sector, with
\* WRITE_BACK it also counts as an access; neither is sent on.
HitTags(s, mf) ==
    LET touched == tag_array_access(l1_config, l1_tags[s], m_address[mf], m_sector_mask[mf], cycles[s])
        t       == IF is_write[mf] /\ l1_m_write_policy = "LOCAL_WB_GLOBAL_WT"
                   THEN l1_tags[s] ELSE touched
        w       == L1Probe(s, mf).idx
    IN  IF is_write[mf]
        THEN WithLine(l1_config, t, m_address[mf], w,
                      set_status(Line(l1_config, t, m_address[mf], w), MODIFIED, m_sector_mask[mf]))
        ELSE t

L1Hit(s, b) ==
    LET mf == BankFront(s, b) IN
    /\ L1Probe(s, mf).status = HIT
    /\ l1_tags' = [l1_tags EXCEPT ![s] = HitTags(s, mf)]
    /\ ReadyLater(s, mf)
    /\ LeaveBank(s, b)
    /\ UNCHANGED <<l1_mshrs, m_miss_queue, m_start_addr, m_tlb_hit>>

L1StoreMiss(s, b) ==
    LET mf == BankFront(s, b) IN
    /\ is_write[mf]
    /\ L1Probe(s, mf).status \notin {HIT, RESERVATION_FAIL}
    /\ ToMissQueue(s, mf)
    /\ LeaveBank(s, b)
    /\ UNCHANGED <<l1_tags, l1_mshrs, l1_to_sm>>

L1Full(s, mf) == mshr_full(l1_mshrs[s], m_sector_address(mf), l1_m_mshr_entries, l1_m_mshr_max_merge)

\* Mutant: a load that finds an entry is sent on too.
L1LoadMiss_AlwaysSends(s, b) ==
    LET mf == BankFront(s, b) IN
    /\ ~is_write[mf]
    /\ L1Probe(s, mf).status \notin {HIT, RESERVATION_FAIL}
    /\ ~L1Full(s, mf)
    /\ l1_mshrs' = [l1_mshrs EXCEPT ![s] = mshr_add(@, m_sector_address(mf), mf)]
    /\ ToMissQueue(s, mf)
    /\ LeaveBank(s, b)
    /\ UNCHANGED <<l1_tags, l1_to_sm>>

\* A load that misses waits in the MSHR table; only the first one for its
\* sector is sent on.
L1LoadMiss(s, b) ==
    LET mf == BankFront(s, b) IN
    /\ ~is_write[mf]
    /\ L1Probe(s, mf).status \notin {HIT, RESERVATION_FAIL}
    /\ ~L1Full(s, mf)
    /\ l1_mshrs' = [l1_mshrs EXCEPT ![s] = mshr_add(@, m_sector_address(mf), mf)]
    /\ IF mshr_probe(l1_mshrs[s], m_sector_address(mf))
       THEN UNCHANGED <<m_miss_queue, m_start_addr, m_tlb_hit>>
       ELSE ToMissQueue(s, mf)
    /\ LeaveBank(s, b)
    /\ UNCHANGED <<l1_tags, l1_to_sm>>

\* Mutant: the request is popped.
L1Retry_Drops(s, b) ==
    LET mf == BankFront(s, b) IN
    /\ \/ L1Probe(s, mf).status = RESERVATION_FAIL
       \/ ~is_write[mf] /\ L1Probe(s, mf).status # HIT /\ L1Full(s, mf)
    /\ LeaveBank(s, b)
    /\ UNCHANGED <<l1_tags, l1_mshrs, l1_to_sm, m_miss_queue, m_start_addr, m_tlb_hit>>

\* RESERVATION_FAIL: the request stays at the front of its bank.
L1Retry(s, b) ==
    LET mf == BankFront(s, b) IN
    /\ \/ L1Probe(s, mf).status = RESERVATION_FAIL
       \/ ~is_write[mf] /\ L1Probe(s, mf).status # HIT /\ L1Full(s, mf)
    /\ UNCHANGED <<l1_tags, l1_mshrs, l1_to_sm, m_miss_queue, m_start_addr, m_tlb_hit, m_queue_sm_to_l1>>

BankEmpty(s, b) ==
    /\ m_queue_sm_to_l1[s][b] = <<>>
    /\ UNCHANGED <<l1_tags, l1_mshrs, l1_to_sm, m_miss_queue, m_start_addr, m_tlb_hit, m_queue_sm_to_l1>>

l1_cache_bank(s, b) ==
    /\ At("bank", b)
    /\ NextBank(b)
    /\ \/ BankEmpty(s, b)
       \/ /\ m_queue_sm_to_l1[s][b] # <<>>
          /\ \/ L1Hit(s, b)
             \/ L1StoreMiss(s, b)
             \/ L1LoadMiss(s, b)
             \/ L1Retry(s, b)
    /\ UNCHANGED <<cycles, m_queue_sm_to_l1_busy, reply, unit, pending_request, completed,
                   unissued, schedulers>>

-----------------------------------------------------------------------------
(* unit_cycle of LDS unit u.                                               *)

NextUnit(u) == IF u + 1 \in Unit THEN Goto("unit", u + 1) ELSE Goto("schedule_warp", 0)

\* The request the unit would send next.
NextRequest(s, u) ==
    m_coalesced_address[unit[s][u].inst][unit[s][u].mem_fetch_point]

\* The unit has an instruction and sends its next request, unless the bank
\* already got one in this cycle; after the last one the unit is free.
CanSend(s, u) ==
    /\ unit[s][u].unit_latency = 0
    /\ unit[s][u].inst # None
    /\ m_sector_mask[NextRequest(s, u)] \notin m_queue_sm_to_l1_busy[s]

\* Mutant: the unit keeps its instruction after the last request.
SendRequest_NoReset(s, u) ==
    LET mf == NextRequest(s, u)
        i  == unit[s][u].inst
    IN  /\ CanSend(s, u)
        /\ m_queue_sm_to_l1' = [m_queue_sm_to_l1 EXCEPT ![s][m_sector_mask[mf]] = Append(@, mf)]
        /\ m_queue_sm_to_l1_busy' = [m_queue_sm_to_l1_busy EXCEPT ![s] = @ \cup {m_sector_mask[mf]}]
        /\ pending_request' = [pending_request EXCEPT ![i] = @ + 1]
        /\ unit' = [unit EXCEPT ![s][u].mem_fetch_point = @ + 1]

SendRequest(s, u) ==
    LET mf == NextRequest(s, u)
        v  == unit[s][u]
        i  == v.inst
    IN  /\ CanSend(s, u)
        /\ m_queue_sm_to_l1' = [m_queue_sm_to_l1 EXCEPT ![s][m_sector_mask[mf]] = Append(@, mf)]
        /\ m_queue_sm_to_l1_busy' = [m_queue_sm_to_l1_busy EXCEPT ![s] = @ \cup {m_sector_mask[mf]}]
        /\ pending_request' = [pending_request EXCEPT ![i] = @ + 1]
        /\ unit' = [unit EXCEPT ![s][u] =
                       IF v.mem_fetch_point = Len(m_coalesced_address[i]) THEN IdleUnit
                       ELSE [v EXCEPT !.mem_fetch_point = @ + 1]]

\* It waits: for its latency, for the bank, or for an instruction.
UnitWaits(s, u) ==
    /\ ~CanSend(s, u)
    /\ unit' = [unit EXCEPT ![s][u].unit_latency = IF @ > 0 THEN @ - 1 ELSE @]
    /\ UNCHANGED <<m_queue_sm_to_l1, m_queue_sm_to_l1_busy, pending_request>>

unit_cycle(s, u) ==
    /\ At("unit", u)
    /\ NextUnit(u)
    /\ SendRequest(s, u) \/ UnitWaits(s, u)
    /\ UNCHANGED <<cycles, l1_tags, l1_mshrs, m_miss_queue, l1_to_sm, m_start_addr, m_tlb_hit,
                   reply, completed, unissued, schedulers>>

\* schedule_warp lets a warp issue load or store i (process_LDG_STG): the
\* first unit that is ready takes it.
FreeUnits(s) == {u \in Unit : unit[s][u].inst = None}

process_LDG_STG(s, i) ==
    /\ At("schedule_warp", 0)
    /\ schedulers > 0
    /\ i \in unissued
    /\ SmOfInst(i) = s
    /\ FreeUnits(s) # {}
    /\ unit' = [unit EXCEPT ![s][Min(FreeUnits(s))] =
                   [inst |-> i, mem_fetch_point |-> 1, unit_latency |-> ldst_unit_latency]]
    /\ unissued' = unissued \ {i}
    /\ schedulers' = schedulers - 1
    /\ UNCHANGED <<step, cycles, l1_tags, l1_mshrs, m_queue_sm_to_l1, m_queue_sm_to_l1_busy,
                   m_miss_queue, l1_to_sm, m_start_addr, m_tlb_hit, reply, pending_request, completed>>

\* sm_cycle returns.
Return(s) ==
    /\ At("schedule_warp", 0)
    /\ Goto("start", 0)
    /\ UNCHANGED <<cycles, l1_tags, l1_mshrs, m_queue_sm_to_l1, m_queue_sm_to_l1_busy,
                   m_miss_queue, l1_to_sm, m_start_addr, m_tlb_hit, reply, unit,
                   pending_request, completed, unissued, schedulers>>
=============================================================================
