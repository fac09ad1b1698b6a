------------------------------ MODULE L1System ------------------------------
(***************************************************************************)
(* The memory side of one SM and an environment: warps that may issue any  *)
(* of their loads and stores at any time, a crossbar that may be full, and *)
(* an L2 cache that answers requests in any order.                         *)
(*                                                                         *)
(* As in L2System the clock only runs when it matters: a cycle in which    *)
(* every request waits for the environment changes nothing but the clock.  *)
(***************************************************************************)
EXTENDS L1Cache

CONSTANT sm             \* the SM

ASSUME SmAssumption == sm \in Sm

VARIABLES
    in_flight,      \* requests in the crossbar and the L2 cache
    room,           \* HasBuffer in this cycle
    issuing,        \* whether a warp may issue in this cycle
    sent            \* history: requests that were sent to the L2 cache

envVars == <<in_flight, room, issuing, sent>>
vars    == <<l1Vars, envVars>>

Init ==
    /\ InitL1
    /\ in_flight = {}
    /\ room = FALSE
    /\ issuing = FALSE
    /\ sent = {}

\* What the SM can do without the environment.
BankCanMove(b) ==
    /\ m_queue_sm_to_l1[sm][b] # <<>>
    /\ LET mf == BankFront(sm, b) IN
         \/ is_write[mf]
         \/ L1Probe(sm, mf).status = HIT
         \/ ~L1Full(sm, mf)

Busy ==
    \/ l1_to_sm[sm] # <<>>
    \/ \E u \in Unit : unit[sm][u].inst # None
    \/ \E b \in Sector : BankCanMove(b)

\* One cycle begins: a reply or none, room in the crossbar or not, warps
\* that are ready or not.
Begin(popped, has_buffer, ready) ==
    /\ \/ Busy
       \/ popped # {}
       \/ has_buffer /\ m_miss_queue[sm] # <<>>
       \/ ready /\ unissued # {}
    /\ Start(sm, popped)
    /\ in_flight' = in_flight \ popped
    /\ room' = has_buffer
    /\ issuing' = ready
    /\ UNCHANGED sent

Send ==
    /\ m_miss_queue_cycle(sm, room)
    /\ in_flight' = in_flight \cup Pushed(sm, room)
    /\ sent' = sent \cup Pushed(sm, room)
    /\ UNCHANGED <<room, issuing>>

Issue ==
    /\ issuing
    /\ \E i \in Inst : process_LDG_STG(sm, i)
    /\ UNCHANGED envVars

Run ==
    /\ \/ write_back(sm)
       \/ write_back_request_l2(sm)
       \/ \E b \in Sector : l1_cache_bank(sm, b)
       \/ \E u \in Unit : unit_cycle(sm, u)
    /\ UNCHANGED envVars

\* When a warp is ready, one does issue if a unit is free.
Finish ==
    /\ issuing /\ unissued # {} /\ FreeUnits(sm) # {} => schedulers < num_warp_schedulers_per_SM
    /\ Return(sm)
    /\ UNCHANGED envVars

Replies == {{}} \cup {{mf} : mf \in in_flight}

Next ==
    \/ \E popped \in Replies, has_buffer, ready \in BOOLEAN : Begin(popped, has_buffer, ready)
    \/ Send
    \/ Issue
    \/ Run
    \/ Finish

Spec == Init /\ [][Next]_vars

-----------------------------------------------------------------------------
(* Where requests are.                                                     *)

InBanks   == UNION {Range(m_queue_sm_to_l1[sm][b]) : b \in Sector}
HitsOut   == {l1_to_sm[sm][k].mf : k \in DOMAIN l1_to_sm[sm]}
Waiting   == UNION {Range(l1_mshrs[sm][x]) : x \in SectorAddr}
Outgoing  == Range(m_miss_queue[sm]) \cup in_flight \cup reply
OutStores == {mf \in Outgoing : is_write[mf]}
OutLoads  == Outgoing \ OutStores

\* Requests of instruction i that unit_cycle has made so far.
Made(i) ==
    IF i \in unissued THEN {}
    ELSE LET sending == {u \in Unit : unit[sm][u].inst = i}
         IN  IF sending = {} THEN RequestsOf(i)
             ELSE LET u == CHOOSE v \in sending : TRUE
                  IN  {m_coalesced_address[i][k] : k \in 1 .. unit[sm][u].mem_fetch_point - 1}

-----------------------------------------------------------------------------
(* Properties.                                                             *)

UnitState == [inst : Inst \cup {None}, mem_fetch_point : Nat \ {0},
              unit_latency : 0 .. ldst_unit_latency]

\* Types; a unit points at a request its instruction has (unit_cycle guards
\* against mem_fetch_point past the end, and sets it to -1).
TypeOK ==
    /\ cycles \in [Sm -> Nat]
    /\ TagArrayOK(l1_config, l1_tags[sm])
    /\ l1_mshrs[sm] \in [SectorAddr -> Seq(MemFetch)]
    /\ m_queue_sm_to_l1[sm] \in [Sector -> Seq(MemFetch)]
    /\ m_queue_sm_to_l1_busy[sm] \in SUBSET Sector
    /\ m_miss_queue[sm] \in Seq(MemFetch)
    /\ l1_to_sm[sm] \in Seq([mf : MemFetch, m_l1_ready_time : Nat])
    /\ m_start_addr[sm] \in 0 .. AddrSpace - 1
    /\ m_tlb_hit \in [MemFetch -> BOOLEAN]
    /\ reply \in SUBSET MemFetch
    /\ unit[sm] \in [Unit -> UnitState]
    /\ \A u \in Unit : unit[sm][u].inst # None =>
          unit[sm][u].mem_fetch_point <= Len(m_coalesced_address[unit[sm][u].inst])
    /\ pending_request \in [Inst -> Nat]
    /\ completed \in [Inst -> BOOLEAN]
    /\ unissued \in SUBSET Inst
    /\ schedulers \in 0 .. num_warp_schedulers_per_SM
    /\ in_flight \in SUBSET MemFetch

\* pending_request counts exactly the requests of the instruction that are
\* somewhere: in a bank, a hit on its way back, waiting in the MSHR table,
\* or a store on its way to L2 and back.  So the count is positive whenever
\* a request comes back: the "error!" and exit(3) branches of
\* write_back_request_l2 are never taken, and no early decrement is lost.
PendingExact ==
    \A i \in Inst :
        pending_request[i] =
            Cardinality((InBanks \cup HitsOut \cup Waiting \cup OutStores) \cap RequestsOf(i))

\* A request is in one of those places only, and once.
Together(s) == Cardinality(Range(s)) = Len(s)

OnePlace ==
    /\ \A b \in Sector : Together(m_queue_sm_to_l1[sm][b])
    /\ \A x \in SectorAddr : Together(l1_mshrs[sm][x])
    /\ Cardinality(HitsOut) = Len(l1_to_sm[sm])
    /\ Cardinality(Range(m_miss_queue[sm])) = Len(m_miss_queue[sm])
    /\ Cardinality(InBanks) + Cardinality(HitsOut) + Cardinality(Waiting) + Cardinality(OutStores)
         = Cardinality(InBanks \cup HitsOut \cup Waiting \cup OutStores)
    /\ Range(m_miss_queue[sm]) \cap in_flight = {}

\* write_back stops at the first hit that is not ready.  That is right
\* because hits become ready in the order of the queue.
HitsInOrder ==
    \A j, k \in DOMAIN l1_to_sm[sm] :
        j < k => l1_to_sm[sm][j].m_l1_ready_time <= l1_to_sm[sm][k].m_l1_ready_time

\* The comment on decrease_pending_request says: "true if all request
\* release" (kernel.h:199).  So an instruction is complete only when all its
\* requests were made and have come back.
NoEarlyCompletion ==
    \A i \in Inst : completed[i] => Made(i) = RequestsOf(i) /\ pending_request[i] = 0

\* gpu.config:39 gives the cache the policy LOCAL_WB_GLOBAL_WT, global
\* stores are written through: a store completes only after it was sent on.
WrittenThrough ==
    \A i \in Inst : \A mf \in RequestsOf(i) :
        is_write[mf] /\ completed[i] => mf \in sent

\* A line is in the cache once, and no sector is ever left RESERVED: a probe
\* never returns RESERVATION_FAIL, only a full MSHR table makes a bank wait.
UniqueLine ==
    \A s \in DOMAIN l1_tags[sm] :
        /\ \A v, w \in Ways(l1_config) :
             v # w /\ l1_tags[sm][s][v].m_tag # NoTag
             => l1_tags[sm][s][v].m_tag # l1_tags[sm][s][w].m_tag
        /\ \A w \in Ways(l1_config) : ~is_reserved_line(l1_tags[sm][s][w])
=============================================================================
