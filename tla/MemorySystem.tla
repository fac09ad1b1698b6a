---------------------------- MODULE MemorySystem ----------------------------
(***************************************************************************)
(* The memory hierarchy as gpu::gpu_cycle runs it: in every cycle the L2   *)
(* slice, then the crossbar, then every SM with its LDS units and its L1   *)
(* cache.  It composes the modules L1Cache, Crossbar and L2Cache; nothing  *)
(* of their environments is left open except when a warp issues its next   *)
(* load or store.  So what they assume of each other is shown here, not    *)
(* assumed, and the only fairness is that the simulator runs on.           *)
(*                                                                         *)
(* There is one slice, for all lines.  The loop ends when no instruction   *)
(* is waiting or under way (sm_active in the code: warps, blocks and what  *)
(* else an SM runs are in module SmCycle).                                 *)
(***************************************************************************)
EXTENDS L1Cache, L2Cache

CONSTANTS
    in_buffer_limit, out_buffer_limit,
    MaxHolds            \* bound: how often the warps of an SM are not ready
                        \* when a unit is

VARIABLES
    in_buffers, out_buffers, next_node_id,      \* of the crossbar
    gpu_sim_cycles,
    turn,               \* who runs: the slice, the crossbar, an SM, nobody
    holds               \* how often the warps of an SM may still not be ready

n_shader == Cardinality(Sm)
Slice    == n_shader
Icnt == INSTANCE Crossbar WITH n_mem <- 1

ASSUME MemorySystemAssumption ==
    /\ IsFiniteSet(Sm) /\ Sm = 0 .. n_shader - 1
    /\ MaxHolds \in Nat

vars == <<l1Vars, l2Vars, in_buffers, out_buffers, next_node_id, gpu_sim_cycles, turn, holds>>

\* The state of the SMs without m_tlb_hit, which the slice reads.
smVars == <<step, cycles, l1_tags, l1_mshrs, m_queue_sm_to_l1, m_queue_sm_to_l1_busy,
            m_miss_queue, l1_to_sm, m_start_addr, m_tlb_hit, reply, unit,
            pending_request, completed, unissued, schedulers, holds>>

Init ==
    /\ InitL1
    /\ InitL2
    /\ Icnt!InitIcnt
    /\ gpu_sim_cycles = 0
    /\ turn = <<"slice", 0>>
    /\ holds = [s \in Sm |-> MaxHolds]

-----------------------------------------------------------------------------
(* Where a request is.                                                     *)

Carried(q) == [k \in DOMAIN q |-> q[k].data]

Times(q, mf) == Cardinality({k \in DOMAIN q : q[k] = mf})

\* How often mf is between the miss queue of its SM and the reply register:
\* waiting to be sent, in the crossbar, waiting for the slice's lookup, with
\* its answer on the way, in the crossbar again, or just popped.
Below(mf) ==
    LET s == m_sm_id[mf] IN
      Times(m_miss_queue[s], mf)
    + Times(Carried(in_buffers[Icnt!REQ_NET][s]), mf)
    + Times(Carried(out_buffers[Icnt!REQ_NET][Slice]), mf)
    + Times(m_l1_to_l2, mf)
    + Cardinality({e \in l2_to_sm : e.mf = mf})
    + Times(Carried(in_buffers[Icnt!REPLY_NET][Slice]), mf)
    + Times(Carried(out_buffers[Icnt!REPLY_NET][s]), mf)
    + Cardinality(reply \cap {mf})

-----------------------------------------------------------------------------
\* Some instruction waits to be issued, is in a unit or has requests under way.
UnderWay(s) ==
    \/ \E i \in unissued : SmOfInst(i) = s
    \/ \E i \in Inst : SmOfInst(i) = s /\ pending_request[i] > 0
    \/ \E u \in Unit : unit[s][u].inst # None

\* Mutant: the loop ends when every SM has issued its last instruction.
Running_Unissued == unissued # {}

Running == \E s \in Sm : UnderWay(s)

\* A bank whose first request need not wait for an MSHR entry.
BankMoves(s, b) ==
    /\ m_queue_sm_to_l1[s][b] # <<>>
    /\ LET mf == BankFront(s, b)
       IN  is_write[mf] \/ L1Probe(s, mf).status = HIT \/ ~L1Full(s, mf)

\* Something can still change but the clocks.  When nothing can, the loop
\* runs on for ever, and the model stops.
Moving ==
    \/ unissued # {}
    \/ \E mf \in MemFetch : Below(mf) > 0
    \/ \E s \in Sm : \/ l1_to_sm[s] # <<>>
                      \/ \E u \in Unit : unit[s][u].inst # None
                      \/ \E b \in Sector : BankMoves(s, b)

\* What Pop returns to device d, in a set.
PoppedBy(d) == IF Icnt!HasReply(d) THEN {Icnt!Popped(d)} ELSE {}

\* The answers of this cycle are pushed in the order of the vector l2_to_sm:
\* the k-th one is that with k - 1 before it.
Earlier(answers, e)  == {f \in answers : f.at < e.at}
NthAnswer(answers, k) == CHOOSE e \in answers : Cardinality(Earlier(answers, e)) = k - 1

Replies(now) ==
    LET answers == Returned(now)
    IN  [k \in 1 .. Cardinality(answers) |->
            Icnt!Packet(NthAnswer(answers, k).mf, m_sm_id[NthAnswer(answers, k).mf])]

SliceCycle ==
    LET now == gpu_sim_cycles + 1 IN
    /\ turn = <<"slice", 0>> /\ Running /\ Moving
    /\ gpu_sim_cycles' = now
    /\ in_buffers' = [in_buffers EXCEPT ![Icnt!PushNet(Slice)][Slice] = @ \o Replies(now)]
    /\ Icnt!Pop(Slice)
    /\ l2_cache_cycle(now, PoppedBy(Slice))
    /\ turn' = <<"icnt", 0>>
    /\ UNCHANGED <<smVars, next_node_id>>

IcntCycle ==
    /\ turn = <<"icnt", 0>>
    /\ Icnt!Advance
    /\ turn' = <<"sm", 0>>
    /\ UNCHANGED <<smVars, l2Vars, gpu_sim_cycles>>

\* sm_cycle of SM s, call by call.
SmPops(s) ==
    /\ turn = <<"sm", s>>
    /\ Start(s, PoppedBy(s))
    /\ Icnt!Pop(s)
    /\ UNCHANGED <<l2Vars, in_buffers, next_node_id, gpu_sim_cycles, turn, holds>>

SmPushes(s) ==
    LET pushed == Pushed(s, Icnt!HasBuffer(s)) IN
    /\ turn = <<"sm", s>>
    /\ m_miss_queue_cycle(s, Icnt!HasBuffer(s))
    /\ IF pushed = {} THEN UNCHANGED in_buffers
                      ELSE \E mf \in pushed : Icnt!Push(s, Slice, mf)
    /\ UNCHANGED <<l2Vars, out_buffers, next_node_id, gpu_sim_cycles, turn, holds>>

SmRuns(s) ==
    /\ turn = <<"sm", s>>
    /\ \/ write_back(s)
       \/ write_back_request_l2(s)
       \/ \E b \in Sector : l1_cache_bank(s, b)
       \/ \E u \in Unit : unit_cycle(s, u)
       \/ \E i \in Inst : process_LDG_STG(s, i)
    /\ UNCHANGED <<l2Vars, in_buffers, out_buffers, next_node_id, gpu_sim_cycles, turn, holds>>

\* sm_cycle returns.  When an instruction could still be issued, its warp
\* is not ready.
CanIssue(s) ==
    schedulers > 0 /\ FreeUnits(s) # {} /\ \E i \in unissued : SmOfInst(i) = s

SmReturns(s) ==
    /\ turn = <<"sm", s>>
    /\ CanIssue(s) => holds[s] > 0
    /\ holds' = [holds EXCEPT ![s] = IF CanIssue(s) THEN @ - 1 ELSE @]
    /\ Return(s)
    /\ turn' = IF s + 1 \in Sm THEN <<"sm", s + 1>> ELSE <<"slice", 0>>
    /\ UNCHANGED <<l2Vars, in_buffers, out_buffers, next_node_id, gpu_sim_cycles>>

\* The loop ends; what is left of the longest countdown is added to the clock.
EndKernel ==
    /\ turn = <<"slice", 0>> /\ ~Running
    /\ gpu_sim_cycles' = gpu_sim_cycles + stg_cycles
    /\ turn' = <<"end", 0>>
    /\ UNCHANGED <<smVars, l2Vars, in_buffers, out_buffers, next_node_id>>

Next ==
    \/ SliceCycle
    \/ IcntCycle
    \/ \E s \in Sm : SmPops(s) \/ SmPushes(s) \/ SmRuns(s) \/ SmReturns(s)
    \/ EndKernel

\* One thread in one loop, nothing else.
Spec == Init /\ [][Next]_vars /\ WF_vars(Next)

-----------------------------------------------------------------------------
(* Properties.                                                             *)

\* Across all three parts no request is lost or doubled.  A load that its SM
\* waits for in an MSHR entry is below the SM once if it opened the entry,
\* and not at all if it joined it: each entry has exactly one fetch below.
\* A store that is below is there once, and its instruction waits for it.
OneFetchBelow ==
    \A s \in Sm, x \in SectorAddr :
        LET loads == {mf \in MemFetch : /\ m_sm_id[mf] = s /\ ~is_write[mf]
                                        /\ m_sector_address(mf) = x /\ Below(mf) > 0}
        IN  /\ Cardinality(loads) = IF mshr_probe(l1_mshrs[s], x) THEN 1 ELSE 0
            /\ \A mf \in loads : Below(mf) = 1 /\ mf \in Range(l1_mshrs[s][x])

OneStoreBelow(mf) ==
    /\ Below(mf) <= 1
    /\ Below(mf) = 1 => \E i \in Inst : mf \in RequestsOf(i) /\ pending_request[i] > 0

OnceBelow == OneFetchBelow /\ \A mf \in MemFetch : is_write[mf] => OneStoreBelow(mf)

\* When the loop ends, nothing is left anywhere: every buffer, queue and MSHR
\* table of the three parts is empty.  A leftover would be a request nobody
\* waits for, and its memory and its cycles would be lost without a trace.
EndQuiet ==
    turn = <<"end", 0>> =>
        /\ \A mf \in MemFetch : Below(mf) = 0
        /\ Entries(l2_mshrs) = {}
        /\ \A s \in Sm : /\ Entries(l1_mshrs[s]) = {}
                         /\ l1_to_sm[s] = <<>>
                         /\ \A b \in Sector : m_queue_sm_to_l1[s][b] = <<>>
        /\ \A i \in Inst : completed[i]

\* The cycles the simulator reports last until every write to DRAM has had
\* its latency since the cycle it was made in: the countdowns of the slice,
\* which run once per cycle of the loop and stop with it, tell the truth
\* when they are read.
DramDone ==
    turn = <<"end", 0>> => \A e \in l2_to_dram : e.at + dram_latency <= gpu_sim_cycles

\* Every load and store that is issued completes.
Server == INSTANCE RequestServer WITH
              Requester <- Inst,
              accepted  <- Inst \ unissued,
              answered  <- {i \in Inst : completed[i]}

ImplementsServer == Server!Spec

\* The kernel ends, and only once all was issued.
KernelEnds == <>(turn = <<"end", 0>> /\ unissued = {})
=============================================================================
