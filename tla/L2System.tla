------------------------------ MODULE L2System ------------------------------
(***************************************************************************)
(* A slice of the L2 cache and an environment that may send any request at *)
(* any time: the crossbar hands over at most one request per cycle and     *)
(* takes every answer.  TLB hits are decided in the L1 caches: here they   *)
(* are any of the functions in TlbOutcomes.                                *)
(*                                                                         *)
(* The clock, gpu_sim_cycles, only runs while the slice has something to   *)
(* do: an idle cycle changes nothing but the clock, and only the order of  *)
(* the times it gives out is ever used.  With finitely many requests this  *)
(* bounds the clock.                                                       *)
(***************************************************************************)
EXTENDS L2Cache

CONSTANT TlbOutcomes        \* what the TLBs may have found, for each request

ASSUME OutcomesAssumption == TlbOutcomes \subseteq [MemFetch -> BOOLEAN]

VARIABLES
    gpu_sim_cycles,     \* the clock
    unsent,             \* requests the environment may still send
    replied             \* history: how often each request was answered

vars == <<l2Vars, m_tlb_hit, gpu_sim_cycles, unsent, replied>>

Init ==
    /\ InitL2
    /\ m_tlb_hit \in TlbOutcomes
    /\ gpu_sim_cycles = 0
    /\ unsent = MemFetch
    /\ replied = [mf \in MemFetch |-> 0]

\* What LocalInterconnect::Pop may return.
Arrivals == {{}} \cup {{mf} : mf \in unsent}

Busy(popped) == popped # {} \/ m_l1_to_l2 # <<>> \/ l2_to_sm # {}

Cycle(popped) ==
    /\ Busy(popped)
    /\ gpu_sim_cycles' = gpu_sim_cycles + 1
    /\ l2_cache_cycle(gpu_sim_cycles + 1, popped)
    /\ unsent' = unsent \ popped
    /\ replied' = [mf \in MemFetch |->
                     replied[mf] + Cardinality({e \in Returned(gpu_sim_cycles + 1) : e.mf = mf})]
    /\ UNCHANGED m_tlb_hit

Next == \E popped \in Arrivals : Cycle(popped)

\* gpu_cycle runs every slice in every cycle, whatever arrives.
Fairness == WF_vars(Cycle({}))

Spec == Init /\ [][Next]_vars /\ Fairness

-----------------------------------------------------------------------------
(* Properties.                                                             *)

TypeOK ==
    /\ L2TypeOK
    /\ gpu_sim_cycles \in Nat
    /\ unsent \in SUBSET MemFetch
    /\ replied \in [MemFetch -> Nat]

\* A request is at one place at a time: not sent, waiting for the lookup,
\* or looked up with its answer on the way; and it has been answered at
\* most once, when it has left all of them.
Count(s, mf) == Cardinality({i \in DOMAIN s : s[i] = mf})

ExactlyOnce ==
    \A mf \in MemFetch :
        Cardinality({mf} \cap unsent) + Count(m_l1_to_l2, mf)
            + Cardinality({e \in l2_to_sm : e.mf = mf}) + replied[mf] = 1

\* A request in the MSHR table is a load that missed, filed under its own
\* sector, whose answer is still on the way.  The answer releases the whole
\* entry, so no entry outlives the requests it points to (the code keeps
\* plain pointers there), and a full table or entry always drains.
MshrCovered ==
    \A x \in SectorAddr : \A i \in DOMAIN l2_mshrs[x] :
        LET mf == l2_mshrs[x][i] IN
        /\ m_sector_address(mf) = x
        /\ m_status[mf] = L2_MISS
        /\ ~is_write[mf]
        /\ \E e \in l2_to_sm : e.mf = mf

\* The limits of the MSHR table are kept.
MshrBounded ==
    /\ Cardinality(Entries(l2_mshrs)) <= l2_m_mshr_entries
    /\ \A x \in SectorAddr : Len(l2_mshrs[x]) <= l2_m_mshr_max_merge

\* Answers leave in the order of the countdown: what is on the way is due
\* in the future, and no two lookups share a cycle.
AnswersAhead ==
    /\ \A e \in l2_to_sm : e.at <= gpu_sim_cycles /\ gpu_sim_cycles < e.due
    /\ \A e, f \in l2_to_sm : e.at = f.at => e = f

\* A line is in the cache once: a store that finds its sector missing may
\* take a second way of the set, and a fill may come after a store that
\* allocated the line, but neither makes a second copy.  A sector is never
\* left RESERVED, so a probe never returns HIT_RESERVED or RESERVATION_FAIL.
UniqueLine ==
    \A s \in DOMAIN l2_tags :
        /\ \A v, w \in DOMAIN l2_tags[s] :
             v # w /\ l2_tags[s][v].m_tag # NoTag => l2_tags[s][v].m_tag # l2_tags[s][w].m_tag
        /\ \A w \in DOMAIN l2_tags[s] : ~is_reserved_line(l2_tags[s][w])

\* When a load is answered after a miss and its sector is not in the cache
\* yet, the fill brings it in, and it cannot be the victim of another fill of
\* the same cycle as long as the set has room for the lines filled in it.
\* The sector of a load that missed may be there when its answer comes: a
\* store or a fill of another request put it there meanwhile.  Such a fill
\* does not make the line any younger (nor does, under FIFO, a fill into a
\* line that is there), so the next fill may well evict it.
FilledLines(a, now) ==
    {m_address[e.mf] : e \in {f \in Releasing(now) :
        l2_config.set_index[m_address[f.mf]] = l2_config.set_index[a]}}

Absent(a, x) ==
    IF l2_config.m_replacement_policy = "LRU"
    THEN Holders(l2_config, l2_tags, a, x) = {}
    ELSE \A w \in Ways(l2_config) : Line(l2_config, l2_tags, a, w).m_tag # a

FillStays ==
    [][\A e \in Releasing(gpu_sim_cycles') :
         /\ Cardinality(FilledLines(m_address[e.mf], gpu_sim_cycles')) <= l2_config.m_assoc
         /\ Absent(m_address[e.mf], m_sector_mask[e.mf])
         => Holders(l2_config, l2_tags', m_address[e.mf], m_sector_mask[e.mf]) # {}]_vars

\* gpu.config:54 gives the slice the write allocate policy
\* LAZY_FETCH_ON_READ: a store that misses gets its sector allocated and
\* only a later load fetches the rest.  So after a store that counts as an
\* L2 hit, a probe would find the sector.
StoreAllocates ==
    [][\A mf \in MemFetch :
         is_write[mf] /\ m_status[mf] = INIT /\ m_status'[mf] = L2_HIT
         => Holders(l2_config, l2_tags', m_address[mf], m_sector_mask[mf]) # {}]_vars
=============================================================================
