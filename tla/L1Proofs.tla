------------------------------ MODULE L1Proofs ------------------------------
(***************************************************************************)
(* Proofs about L1System, for any requests and instructions, any number of *)
(* banks, units, sets and ways, both replacement policies and all          *)
(* latencies:                                                              *)
(*   - L1 hits become ready in the order of their queue, so write_back may *)
(*     stop at the first one that is not ready (HitsOrdered);              *)
(*   - a line is never in the cache twice, although loads are filled after *)
(*     the lookup that missed, and no sector is left RESERVED              *)
(*     (LinesUnique);                                                      *)
(*   - a request is in one place (RequestsApart), and the counter of an    *)
(*     instruction says how many of its requests are somewhere             *)
(*     (CountersExact);                                                    *)
(*   - with one LDS unit no instruction is complete too early              *)
(*     (NoEarlyCompletionAlone).                                           *)
(***************************************************************************)
EXTENDS L1System, CommonLemmas

Hit == [mf : MemFetch, m_l1_ready_time : Nat]

Sending == [inst : Inst \cup {None}, mem_fetch_point : Nat \ {0}, unit_latency : Nat]

\* A unit points at a request its instruction has: so what it puts into a
\* bank is a request.
Typed ==
    /\ cycles \in [Sm -> Nat]
    /\ m_queue_sm_to_l1 \in [Sm -> [Sector -> Seq(MemFetch)]]
    /\ l1_to_sm \in [Sm -> Seq(Hit)]
    /\ unit \in [Sm -> [Unit -> Sending]]
    /\ \A u \in Unit : unit[sm][u].inst # None =>
          unit[sm][u].mem_fetch_point <= Len(m_coalesced_address[unit[sm][u].inst])

\* No hit waits longer than one that would be found now.
Bounded == \A k \in DOMAIN l1_to_sm[sm] :
              l1_to_sm[sm][k].m_l1_ready_time <= cycles[sm] + l1_hit_latency

IInv == Typed /\ Bounded /\ HitsInOrder

LEMMA InitInv == Init => IInv
<1> SUFFICES ASSUME Init PROVE IInv
  OBVIOUS
<1>0. /\ cycles = [s \in Sm |-> 0] /\ l1_to_sm = [s \in Sm |-> <<>>]
      /\ m_queue_sm_to_l1 = [s \in Sm |-> [b \in Sector |-> <<>>]]
      /\ unit = [s \in Sm |-> [u \in Unit |-> IdleUnit]]
  BY DEF Init, InitL1
<1>1. IdleUnit \in Sending /\ IdleUnit.inst = None
  BY DEF IdleUnit, Sending
<1>2. unit \in [Sm -> [Unit -> Sending]] /\ \A u \in Unit : unit[sm][u].inst = None
  BY <1>0, <1>1, SmAssumption
<1>3. l1_to_sm[sm] = <<>> /\ l1_to_sm \in [Sm -> Seq(Hit)]
  BY <1>0, SmAssumption
<1>4. Typed
  BY <1>0, <1>2, <1>3 DEF Typed
<1>5. Bounded /\ HitsInOrder
  BY <1>3 DEF Bounded, HitsInOrder
<1> QED BY <1>4, <1>5 DEF IInv

-----------------------------------------------------------------------------
(* The queue of the hits.                                                  *)

\* A hit found now is ready no earlier than those that wait.
LEMMA AppendHit ==
    ASSUME IInv, NEW h \in Hit, h.m_l1_ready_time = cycles[sm] + l1_hit_latency,
           cycles' = cycles, l1_to_sm' = [l1_to_sm EXCEPT ![sm] = Append(@, h)]
    PROVE  l1_to_sm' \in [Sm -> Seq(Hit)] /\ Bounded' /\ HitsInOrder'
<1> DEFINE q == l1_to_sm[sm]
<1>1. /\ l1_to_sm \in [Sm -> Seq(Hit)] /\ q \in Seq(Hit) /\ cycles[sm] \in Nat
  BY SmAssumption DEF IInv, Typed
<1>2. /\ \A k \in DOMAIN q : q[k].m_l1_ready_time <= cycles[sm] + l1_hit_latency
      /\ \A j, k \in DOMAIN q : j < k => q[j].m_l1_ready_time <= q[k].m_l1_ready_time
  BY DEF IInv, Bounded, HitsInOrder
<1>3. l1_to_sm'[sm] = Append(q, h) /\ l1_to_sm' \in [Sm -> Seq(Hit)]
  BY <1>1, SmAssumption
<1> HIDE DEF q
<1>4. /\ DOMAIN Append(q, h) = 1 .. Len(q) + 1 /\ DOMAIN q = 1 .. Len(q) /\ Len(q) \in Nat
      /\ Append(q, h)[Len(q) + 1] = h
      /\ \A k \in 1 .. Len(q) : Append(q, h)[k] = q[k]
  BY <1>1
<1>5. l1_hit_latency \in Nat
  BY L1Assumption
<1>6. Bounded'
  <2>1. ASSUME NEW k \in 1 .. Len(q) + 1
        PROVE  Append(q, h)[k].m_l1_ready_time <= cycles[sm] + l1_hit_latency
    <3>1. CASE k \in 1 .. Len(q)
      BY <1>2, <1>4, <3>1
    <3>2. CASE k = Len(q) + 1
      BY <1>1, <1>4, <1>5, <3>2
    <3> QED BY <1>4, <3>1, <3>2
  <2> QED BY <1>3, <1>4, <2>1 DEF Bounded
<1>7. HitsInOrder'
  <2>1. ASSUME NEW j \in 1 .. Len(q) + 1, NEW k \in 1 .. Len(q) + 1, j < k
        PROVE  Append(q, h)[j].m_l1_ready_time <= Append(q, h)[k].m_l1_ready_time
    <3>1. CASE k \in 1 .. Len(q)
      <4>1. j \in 1 .. Len(q)
        BY <1>4, <2>1, <3>1
      <4> QED BY <1>2, <1>4, <2>1, <3>1, <4>1
    <3>2. CASE k = Len(q) + 1
      <4>1. j \in 1 .. Len(q)
        BY <1>4, <2>1, <3>2
      <4> QED BY <1>2, <1>4, <3>2, <4>1
    <3> QED BY <1>4, <3>1, <3>2
  <2> QED BY <1>3, <1>4, <2>1 DEF HitsInOrder
<1> QED BY <1>3, <1>6, <1>7

\* write_back takes hits from the front.
LEMMA WriteBackStep ==
    ASSUME IInv, write_back(sm)
    PROVE  IInv'
<1> DEFINE q == l1_to_sm[sm]
           n == Cardinality(Ready(sm))
<1>1. /\ l1_to_sm' = [l1_to_sm EXCEPT ![sm] = SubSeq(@, n + 1, Len(@))]
      /\ cycles' = cycles /\ m_queue_sm_to_l1' = m_queue_sm_to_l1 /\ unit' = unit
  BY DEF write_back
<1>2. /\ l1_to_sm \in [Sm -> Seq(Hit)] /\ q \in Seq(Hit)
  BY SmAssumption DEF IInv, Typed
<1>3. n \in 0 .. Len(q)
  <2>1. Ready(sm) \in SUBSET (1 .. Len(q)) /\ Len(q) \in Nat
    BY <1>2 DEF Ready
  <2>2. IsFiniteSet(1 .. Len(q)) /\ Cardinality(1 .. Len(q)) = Len(q)
    BY <2>1, FS_Interval
  <2>3. IsFiniteSet(Ready(sm)) /\ Cardinality(Ready(sm)) <= Len(q)
    BY <2>1, <2>2, FS_Subset
  <2>4. Cardinality(Ready(sm)) \in Nat
    BY <2>3, FS_CardinalityType
  <2> QED BY <2>1, <2>3, <2>4
<1>4. /\ \A k \in DOMAIN q : q[k].m_l1_ready_time <= cycles[sm] + l1_hit_latency
      /\ \A j, k \in DOMAIN q : j < k => q[j].m_l1_ready_time <= q[k].m_l1_ready_time
  BY DEF IInv, Bounded, HitsInOrder
<1>5. l1_to_sm'[sm] = SubSeq(q, n + 1, Len(q))
  BY <1>1, <1>2, SmAssumption
<1>6. l1_to_sm' = [l1_to_sm EXCEPT ![sm] = SubSeq(q, n + 1, Len(q))]
  BY <1>1
<1> HIDE DEF q, n
<1> DEFINE r == SubSeq(q, n + 1, Len(q))
<1>7. /\ r \in Seq(Hit) /\ DOMAIN r = 1 .. Len(q) - n /\ DOMAIN q = 1 .. Len(q) /\ Len(q) \in Nat
      /\ \A k \in 1 .. Len(q) - n : r[k] = q[k + n]
  <2>1. Len(q) \in Nat /\ DOMAIN q = 1 .. Len(q)
    BY <1>2
  <2>2. r \in Seq(Hit)
    BY <1>2, <1>3, <2>1
  <2>3. DOMAIN r = 1 .. Len(q) - n
    BY <1>2, <1>3, <2>1
  <2>4. \A k \in 1 .. Len(q) - n : r[k] = q[k + n]
    BY <1>2, <1>3, <2>1
  <2> QED BY <2>1, <2>2, <2>3, <2>4
<1> HIDE DEF r
<1>8. \A k \in 1 .. Len(q) - n : k + n \in DOMAIN q
  BY <1>3, <1>7
<1>9. l1_to_sm'[sm] = r /\ l1_to_sm' \in [Sm -> Seq(Hit)]
  BY <1>2, <1>5, <1>6, <1>7 DEF r
<1>10. Bounded'
  BY <1>1, <1>4, <1>7, <1>8, <1>9 DEF Bounded
<1>11. HitsInOrder'
  <2>1. \A j, k \in 1 .. Len(q) - n : j < k => j + n < k + n
    BY <1>3, <1>7
  <2> QED BY <1>4, <1>7, <1>8, <1>9, <2>1 DEF HitsInOrder
<1>12. Typed'
  BY <1>1, <1>9 DEF IInv, Typed
<1> QED BY <1>10, <1>11, <1>12 DEF IInv

-----------------------------------------------------------------------------
(* The other calls of sm_cycle.                                            *)

\* Calls that touch neither the hits nor the units nor the banks.
LEMMA ApartStep ==
    ASSUME IInv, UNCHANGED <<cycles, m_queue_sm_to_l1, l1_to_sm, unit>>
    PROVE  IInv'
  BY DEF IInv, Typed, Bounded, HitsInOrder

\* The clock advances.
LEMMA StartStep ==
    ASSUME IInv, NEW popped, Start(sm, popped)
    PROVE  IInv'
<1>1. /\ cycles' = [cycles EXCEPT ![sm] = @ + 1]
      /\ UNCHANGED <<m_queue_sm_to_l1, l1_to_sm, unit>>
  BY DEF Start
<1>2. cycles' \in [Sm -> Nat] /\ cycles'[sm] = cycles[sm] + 1 /\ cycles[sm] \in Nat
  BY <1>1, SmAssumption DEF IInv, Typed
<1>3. Typed' /\ HitsInOrder'
  BY <1>1, <1>2 DEF IInv, Typed, HitsInOrder
<1>4. Bounded'
  <2> SUFFICES ASSUME NEW k \in DOMAIN l1_to_sm[sm]
               PROVE  l1_to_sm[sm][k].m_l1_ready_time <= cycles'[sm] + l1_hit_latency
    BY <1>1 DEF Bounded
  <2>1. l1_to_sm[sm][k].m_l1_ready_time <= cycles[sm] + l1_hit_latency
    BY DEF IInv, Bounded
  <2>2. l1_to_sm[sm][k].m_l1_ready_time \in Nat
    <3>1. l1_to_sm[sm] \in Seq(Hit)
      BY SmAssumption DEF IInv, Typed
    <3>2. l1_to_sm[sm][k] \in Hit
      BY <3>1
    <3> QED BY <3>2 DEF Hit
  <2> QED BY <1>2, <2>1, <2>2, L1Assumption
<1> QED BY <1>3, <1>4 DEF IInv

\* Only a bank's front leaves, and only a hit waits for its latency.
LEMMA BankStep ==
    ASSUME IInv, NEW b \in Sector, l1_cache_bank(sm, b)
    PROVE  IInv'
<1>1. cycles' = cycles /\ unit' = unit
  BY DEF l1_cache_bank
<1>2. m_queue_sm_to_l1[sm][b] \in Seq(MemFetch) /\ m_queue_sm_to_l1 \in [Sm -> [Sector -> Seq(MemFetch)]]
  BY SmAssumption DEF IInv, Typed
<1>3. ASSUME m_queue_sm_to_l1[sm][b] # <<>>, LeaveBank(sm, b)
      PROVE  m_queue_sm_to_l1' \in [Sm -> [Sector -> Seq(MemFetch)]]
  <2>1. Tail(m_queue_sm_to_l1[sm][b]) \in Seq(MemFetch)
    BY <1>2, <1>3
  <2> QED BY <1>2, <1>3, <2>1, SmAssumption DEF LeaveBank
<1>4. CASE UNCHANGED m_queue_sm_to_l1 /\ UNCHANGED l1_to_sm
  BY <1>1, <1>4, ApartStep
<1>5. CASE m_queue_sm_to_l1[sm][b] # <<>> /\ LeaveBank(sm, b) /\ UNCHANGED l1_to_sm
  <2>1. Typed'
    BY <1>1, <1>3, <1>5 DEF IInv, Typed
  <2>2. Bounded' /\ HitsInOrder'
    BY <1>1, <1>5 DEF IInv, Bounded, HitsInOrder
  <2> QED BY <2>1, <2>2 DEF IInv
<1>6. CASE m_queue_sm_to_l1[sm][b] # <<>> /\ L1Hit(sm, b)
  <2> DEFINE h == [mf |-> BankFront(sm, b), m_l1_ready_time |-> cycles[sm] + l1_hit_latency]
  <2>1. BankFront(sm, b) \in MemFetch
    BY <1>2, <1>6 DEF BankFront
  <2>2. cycles[sm] \in Nat /\ l1_hit_latency \in Nat
    BY SmAssumption, L1Assumption DEF IInv, Typed
  <2>3. h \in Hit /\ h.m_l1_ready_time = cycles[sm] + l1_hit_latency
    BY <2>1, <2>2 DEF Hit
  <2>4. l1_to_sm' = [l1_to_sm EXCEPT ![sm] = Append(@, h)] /\ LeaveBank(sm, b)
    BY <1>6 DEF L1Hit, ReadyLater
  <2> HIDE DEF h
  <2>5. l1_to_sm' \in [Sm -> Seq(Hit)] /\ Bounded' /\ HitsInOrder'
    BY <1>1, <2>3, <2>4, AppendHit
  <2>6. Typed'
    BY <1>1, <1>3, <1>6, <2>4, <2>5 DEF IInv, Typed
  <2> QED BY <2>5, <2>6 DEF IInv
<1> QED BY <1>4, <1>5, <1>6
        DEF l1_cache_bank, BankEmpty, L1StoreMiss, L1LoadMiss, L1Retry

\* A unit sends the request it points at, or waits.
LEMMA UnitStep ==
    ASSUME IInv, NEW u \in Unit, unit_cycle(sm, u)
    PROVE  IInv'
<1> DEFINE v == unit[sm][u]
<1>1. cycles' = cycles /\ l1_to_sm' = l1_to_sm
  BY DEF unit_cycle
<1>2. Bounded' /\ HitsInOrder'
  BY <1>1 DEF IInv, Bounded, HitsInOrder
<1>3. unit \in [Sm -> [Unit -> Sending]] /\ v \in Sending
  BY SmAssumption DEF IInv, Typed
<1>4. v.inst # None => v.mem_fetch_point <= Len(m_coalesced_address[v.inst])
  BY DEF IInv, Typed
<1>5. CASE SendRequest(sm, u)
  <2> DEFINE i  == v.inst
             mf == NextRequest(sm, u)
             w  == IF v.mem_fetch_point = Len(m_coalesced_address[i]) THEN IdleUnit
                   ELSE [v EXCEPT !.mem_fetch_point = @ + 1]
  <2>1. i \in Inst /\ i # None
    BY <1>3, <1>5 DEF SendRequest, CanSend, Sending
  <2>2. m_coalesced_address[i] \in Seq(MemFetch) /\ Len(m_coalesced_address[i]) \in Nat
    BY <2>1, L1Assumption
  <2>3. v.mem_fetch_point \in 1 .. Len(m_coalesced_address[i])
    BY <1>3, <1>4, <2>1, <2>2 DEF Sending
  <2>4. mf \in MemFetch /\ m_sector_mask[mf] \in Sector
    BY <2>2, <2>3, RequestsAssumption DEF NextRequest
  <2>5. /\ m_queue_sm_to_l1' = [m_queue_sm_to_l1 EXCEPT ![sm][m_sector_mask[mf]] = Append(@, mf)]
        /\ unit' = [unit EXCEPT ![sm][u] = w]
    BY <1>5, Zenon DEF SendRequest
  <2>6. m_queue_sm_to_l1' \in [Sm -> [Sector -> Seq(MemFetch)]]
    <3> HIDE DEF mf
    <3>1. m_queue_sm_to_l1 \in [Sm -> [Sector -> Seq(MemFetch)]]
      BY DEF IInv, Typed
    <3>2. Append(m_queue_sm_to_l1[sm][m_sector_mask[mf]], mf) \in Seq(MemFetch)
      BY <2>4, <3>1, SmAssumption
    <3> QED BY <2>4, <2>5, <3>1, <3>2, SmAssumption
  <2>7. /\ w \in Sending
        /\ w.inst # None => w.mem_fetch_point <= Len(m_coalesced_address[w.inst])
    <3>1. CASE v.mem_fetch_point = Len(m_coalesced_address[i])
      BY <3>1 DEF IdleUnit, Sending
    <3>2. CASE v.mem_fetch_point # Len(m_coalesced_address[i])
      BY <1>3, <2>2, <2>3, <3>2 DEF Sending
    <3> QED BY <3>1, <3>2
  <2> HIDE DEF w
  <2>8. /\ unit' \in [Sm -> [Unit -> Sending]]
        /\ unit'[sm][u] = w
        /\ \A x \in Unit : x # u => unit'[sm][x] = unit[sm][x]
    BY <1>3, <2>5, <2>7, SmAssumption
  <2>9. Typed'
    <3>1. \A x \in Unit : unit'[sm][x].inst # None =>
             unit'[sm][x].mem_fetch_point <= Len(m_coalesced_address[unit'[sm][x].inst])
      BY <2>7, <2>8 DEF IInv, Typed
    <3> QED BY <1>1, <2>6, <2>8, <3>1 DEF IInv, Typed
  <2> QED BY <1>2, <2>9 DEF IInv
<1>6. CASE UnitWaits(sm, u)
  <2> DEFINE w == [v EXCEPT !.unit_latency = IF @ > 0 THEN @ - 1 ELSE @]
  <2>1. unit' = [unit EXCEPT ![sm][u] = w] /\ m_queue_sm_to_l1' = m_queue_sm_to_l1
    BY <1>3, <1>6 DEF UnitWaits
  <2>2. w \in Sending /\ w.inst = v.inst /\ w.mem_fetch_point = v.mem_fetch_point
    <3> DEFINE latency == IF v.unit_latency > 0 THEN v.unit_latency - 1 ELSE v.unit_latency
    <3>1. latency \in Nat
      BY <1>3 DEF Sending
    <3>2. w = [v EXCEPT !.unit_latency = latency]
      OBVIOUS
    <3> HIDE DEF latency, w, v
    <3> QED BY <1>3, <3>1, <3>2 DEF Sending
  <2> HIDE DEF w
  <2>3. /\ unit' \in [Sm -> [Unit -> Sending]]
        /\ unit'[sm][u] = w
        /\ \A x \in Unit : x # u => unit'[sm][x] = unit[sm][x]
    BY <1>3, <2>1, <2>2, SmAssumption
  <2>4. Typed'
    <3>1. \A x \in Unit : unit'[sm][x].inst # None =>
             unit'[sm][x].mem_fetch_point <= Len(m_coalesced_address[unit'[sm][x].inst])
      BY <1>4, <2>2, <2>3 DEF IInv, Typed
    <3> QED BY <1>1, <2>1, <2>3, <3>1 DEF IInv, Typed
  <2> QED BY <1>2, <2>4 DEF IInv
<1> QED BY <1>5, <1>6 DEF unit_cycle

\* The first free unit gets a new instruction, at its first request.
LEMMA IssueStep ==
    ASSUME IInv, NEW i \in Inst, process_LDG_STG(sm, i)
    PROVE  IInv'
<1> DEFINE u == Min(FreeUnits(sm))
           w == [inst |-> i, mem_fetch_point |-> 1, unit_latency |-> ldst_unit_latency]
<1>1. /\ unit' = [unit EXCEPT ![sm][u] = w]
      /\ cycles' = cycles /\ l1_to_sm' = l1_to_sm /\ m_queue_sm_to_l1' = m_queue_sm_to_l1
  BY DEF process_LDG_STG
<1>2. Bounded' /\ HitsInOrder'
  BY <1>1 DEF IInv, Bounded, HitsInOrder
<1>3. w \in Sending /\ w.inst = i /\ w.mem_fetch_point = 1
  BY L1Assumption DEF Sending
<1>4. 1 <= Len(m_coalesced_address[i])
  BY L1Assumption
<1> HIDE DEF u, w
<1>5. /\ unit' \in [Sm -> [Unit -> Sending]]
      /\ \A x \in Unit : unit'[sm][x] = IF x = u THEN w ELSE unit[sm][x]
  BY <1>1, <1>3, SmAssumption DEF IInv, Typed
<1>6. Typed'
  <2>1. \A x \in Unit : unit'[sm][x].inst # None =>
           unit'[sm][x].mem_fetch_point <= Len(m_coalesced_address[unit'[sm][x].inst])
    BY <1>3, <1>4, <1>5 DEF IInv, Typed
  <2> QED BY <1>1, <1>5, <2>1 DEF IInv, Typed
<1> QED BY <1>2, <1>6 DEF IInv

LEMMA StepInv == IInv /\ [Next]_vars => IInv'
<1> SUFFICES ASSUME IInv, [Next]_vars PROVE IInv'
  OBVIOUS
<1>1. ASSUME NEW popped \in Replies, NEW has_buffer \in BOOLEAN, NEW ready \in BOOLEAN,
             Begin(popped, has_buffer, ready)
      PROVE  IInv'
  BY <1>1, StartStep DEF Begin
<1>2. CASE Send
  BY <1>2, ApartStep DEF Send, m_miss_queue_cycle
<1>3. CASE Issue
  BY <1>3, IssueStep DEF Issue
<1>4. CASE Run
  <2>1. CASE write_back(sm)
    BY <2>1, WriteBackStep
  <2>2. CASE write_back_request_l2(sm)
    BY <2>2, ApartStep DEF write_back_request_l2
  <2>3. ASSUME NEW b \in Sector, l1_cache_bank(sm, b) PROVE IInv'
    BY <2>3, BankStep
  <2>4. ASSUME NEW u \in Unit, unit_cycle(sm, u) PROVE IInv'
    BY <2>4, UnitStep
  <2> QED BY <1>4, <2>1, <2>2, <2>3, <2>4 DEF Run
<1>5. CASE Finish
  BY <1>5, ApartStep DEF Finish, Return
<1>6. CASE UNCHANGED vars
  BY <1>6, ApartStep DEF vars, l1Vars
<1> QED BY <1>1, <1>2, <1>3, <1>4, <1>5, <1>6 DEF Next

LEMMA InvAlways == Spec => []IInv
<1> QED BY InitInv, StepInv, PTL DEF Spec

\* For every number of banks and units and every latency: L1 hits wait in
\* the order in which they become ready, although several banks find hits in
\* the same cycle; so write_back, which stops at the first hit that is not
\* ready, never leaves a ready one behind.
THEOREM HitsOrdered == Spec => []HitsInOrder
<1>1. IInv => HitsInOrder
  BY DEF IInv
<1> QED BY <1>1, InvAlways, PTL

-----------------------------------------------------------------------------
(* The state of the SM.                                                    *)

\* The tags, with the types of what the calls put into them and of the rest.
Held ==
    /\ DOMAIN l1_tags = Sm /\ CleanTags(l1_config, l1_tags[sm])
    /\ l1_mshrs \in [Sm -> [SectorAddr -> Seq(MemFetch)]]
    /\ m_queue_sm_to_l1_busy \in [Sm -> SUBSET Sector]
    /\ m_miss_queue \in [Sm -> Seq(MemFetch)]
    /\ m_start_addr \in [Sm -> 0 .. AddrSpace - 1]
    /\ m_tlb_hit \in [MemFetch -> BOOLEAN]
    /\ reply \in SUBSET MemFetch
    /\ in_flight \in SUBSET MemFetch
    /\ \A u \in Unit : unit[sm][u].unit_latency <= ldst_unit_latency
    /\ pending_request \in [Inst -> Nat]
    /\ completed \in [Inst -> BOOLEAN]
    /\ unissued \in SUBSET Inst
    /\ schedulers \in 0 .. num_warp_schedulers_per_SM

\* What the tag array is told of a request.
LEMMA RequestFacts ==
    ASSUME NEW mf \in MemFetch
    PROVE  /\ m_address[mf] \in DOMAIN l1_config.set_index /\ m_address[mf] # NoTag
           /\ m_sector_mask[mf] \in l1_config.sectors /\ m_sector_mask[mf] \in Sector
           /\ m_sector_address(mf) \in SectorAddr
           /\ m_address[mf] \in 0 .. AddrSpace - 1
BY RequestsAssumption, L1ConfigAssumption DEF NoTag, SectorAddr, m_sector_address

\* At the start the cache is empty.
LEMMA HeldInit == Init => Held
<1> SUFFICES ASSUME Init PROVE Held
  OBVIOUS
<1>1. l1_tags = [s \in Sm |-> NewTagArray(l1_config)] /\ sm \in Sm
  BY SmAssumption DEF Init, InitL1
<1>2. DOMAIN l1_tags = Sm /\ CleanTags(l1_config, l1_tags[sm])
  BY <1>1, NewClean
<1>3. \A u \in Unit : unit[sm][u].unit_latency <= ldst_unit_latency
  <2>1. unit = [s \in Sm |-> [u \in Unit |-> IdleUnit]]
    BY DEF Init, InitL1
  <2> QED BY <2>1, SmAssumption, L1Assumption DEF IdleUnit
<1>4. schedulers \in 0 .. num_warp_schedulers_per_SM
  BY L1ConfigAssumption DEF Init, InitL1
<1>5. m_start_addr \in [Sm -> 0 .. AddrSpace - 1]
  BY TlbAssumption DEF Init, InitL1
<1>6. l1_mshrs \in [Sm -> [SectorAddr -> Seq(MemFetch)]]
  BY DEF Init, InitL1, EmptyMshr
<1>7. /\ m_queue_sm_to_l1_busy \in [Sm -> SUBSET Sector]
      /\ m_miss_queue \in [Sm -> Seq(MemFetch)]
      /\ m_tlb_hit \in [MemFetch -> BOOLEAN]
      /\ reply \in SUBSET MemFetch /\ in_flight \in SUBSET MemFetch
      /\ pending_request \in [Inst -> Nat]
      /\ completed \in [Inst -> BOOLEAN]
      /\ unissued \in SUBSET Inst
  BY DEF Init, InitL1
<1> QED BY <1>2, <1>3, <1>4, <1>5, <1>6, <1>7 DEF Held

\* An instruction has finitely many requests.
LEMMA RequestsFinite == ASSUME NEW i \in Inst PROVE IsFiniteSet(RequestsOf(i))
<1> DEFINE q == m_coalesced_address[i]
           R == RequestsOf(i)
<1>1. q \in Seq(MemFetch)
  BY L1Assumption
<1>2. R = {q[k] : k \in DOMAIN q}
  BY DEF RequestsOf, Range
<1> HIDE DEF q, R
<1>3. Len(q) \in Nat /\ DOMAIN q = 1 .. Len(q) /\ q = [k \in DOMAIN q |-> q[k]]
  BY <1>1
<1>4. q \in Surjection(1 .. Len(q), R)
  BY <1>2, <1>3 DEF Surjection
<1>5. IsFiniteSet(1 .. Len(q))
  <2> DEFINE n == Len(q)
  <2>1. n \in Nat
    BY <1>3
  <2> HIDE DEF n
  <2>2. IsFiniteSet(1 .. n)
    BY <2>1, FS_Interval
  <2> QED BY <2>2 DEF n
<1>6. IsFiniteSet(R)
  BY <1>4, <1>5, FS_Surjection
<1> QED BY <1>6 DEF R

\* Those of them in a set can be counted.
LEMMA Countable ==
    ASSUME NEW S, NEW i \in Inst
    PROVE  IsFiniteSet(S \cap RequestsOf(i)) /\ Cardinality(S \cap RequestsOf(i)) \in Nat
<1> DEFINE R == RequestsOf(i)
<1>1. IsFiniteSet(R)
  BY RequestsFinite
<1> HIDE DEF R
<1>2. IsFiniteSet(S \cap R)
  BY <1>1, FS_Subset
<1>3. Cardinality(S \cap R) \in Nat
  BY <1>2, FS_CardinalityType
<1> QED BY <1>2, <1>3 DEF R

\* So can those that come back.
LEMMA BackIsNat == ASSUME NEW done, NEW i \in Inst PROVE Back(done, i) \in Nat
BY Countable DEF Back

\* What comes back leaves the counters numbers.
LEMMA ReleaseTyped ==
    ASSUME Held, NEW done, Release(done)
    PROVE  pending_request' \in [Inst -> Nat] /\ completed' \in [Inst -> BOOLEAN]
<1>1. ASSUME NEW i \in Inst
      PROVE  (IF Back(done, i) <= pending_request[i] THEN pending_request[i] - Back(done, i) ELSE 0) \in Nat
  BY BackIsNat DEF Held
<1>2. pending_request' \in [Inst -> Nat]
  BY <1>1 DEF Release
<1>3. completed' \in [Inst -> BOOLEAN]
  BY Zenon DEF Release, Held
<1> QED BY <1>2, <1>3

-----------------------------------------------------------------------------
(* The calls of sm_cycle.                                                  *)

\* A reply releases the requests that wait for its sector and fills it.
LEMMA ReplyHeld ==
    ASSUME IInv, Held, write_back_request_l2(sm), UNCHANGED envVars
    PROVE  Held'
<1>1. /\ UNCHANGED <<m_queue_sm_to_l1_busy, m_miss_queue, m_start_addr, m_tlb_hit, unit, unissued,
                     schedulers, in_flight>>
      /\ reply' = {}
  BY DEF write_back_request_l2, envVars
<1>2. /\ pending_request' \in [Inst -> Nat] /\ completed' \in [Inst -> BOOLEAN]
      /\ DOMAIN l1_tags' = Sm /\ CleanTags(l1_config, l1_tags'[sm])
      /\ l1_mshrs' \in [Sm -> [SectorAddr -> Seq(MemFetch)]]
  <2>1. CASE LoadReply(sm)
    <3> DEFINE waiting(mf) == Range(l1_mshrs[sm][m_sector_address(mf)])
    <3>1. PICK mf \in reply :
             /\ Release(waiting(mf))
             /\ l1_mshrs' = [l1_mshrs EXCEPT ![sm] = mshr_release(@, m_sector_address(mf))]
             /\ l1_tags' = IF waiting(mf) = {} THEN l1_tags
                           ELSE [l1_tags EXCEPT ![sm] = tag_array_fill(l1_config, @, m_address[mf],
                                                            m_sector_mask[mf], cycles[sm])]
      BY <2>1 DEF LoadReply
    <3> HIDE DEF waiting
    <3>2. mf \in MemFetch
      BY DEF Held
    <3>3. pending_request' \in [Inst -> Nat] /\ completed' \in [Inst -> BOOLEAN]
      BY <3>1, ReleaseTyped
    <3>4. l1_mshrs' \in [Sm -> [SectorAddr -> Seq(MemFetch)]]
      <4>1. <<>> \in Seq(MemFetch)
        OBVIOUS
      <4>2. mshr_release(l1_mshrs[sm], m_sector_address(mf)) \in [SectorAddr -> Seq(MemFetch)]
        BY <4>1, SmAssumption DEF mshr_release, Held
      <4> QED BY <3>1, <4>2, SmAssumption DEF Held
    <3>5. DOMAIN l1_tags' = Sm /\ CleanTags(l1_config, l1_tags'[sm])
      <4> DEFINE t == tag_array_fill(l1_config, l1_tags[sm], m_address[mf], m_sector_mask[mf], cycles[sm])
      <4>1. CleanTags(l1_config, l1_tags[sm]) /\ DOMAIN l1_tags = Sm /\ cycles[sm] \in Nat
        BY SmAssumption DEF Held, IInv, Typed
      <4>2. CleanTags(l1_config, t)
        BY <3>2, <4>1, RequestFacts, FillClean
      <4>3. l1_tags' = l1_tags \/ l1_tags' = [l1_tags EXCEPT ![sm] = t]
        BY <3>1
      <4> HIDE DEF t
      <4> QED BY <4>1, <4>2, <4>3, SmAssumption
    <3> QED BY <3>3, <3>4, <3>5
  <2>2. CASE StoreReply(sm)
    <3>1. PICK mf \in reply : Release({mf})
      BY <2>2 DEF StoreReply
    <3> QED BY <2>2, <3>1, ReleaseTyped DEF StoreReply, Held
  <2>3. CASE NoReply
    BY <2>3 DEF NoReply, Held
  <2> QED BY <2>1, <2>2, <2>3 DEF write_back_request_l2
<1> QED BY <1>1, <1>2 DEF Held

\* A bank's request hits, goes to the crossbar, waits in the MSHR table or
\* stays.
LEMMA BankHeld ==
    ASSUME IInv, Held, NEW b \in Sector, l1_cache_bank(sm, b), UNCHANGED envVars
    PROVE  Held'
<1>1. UNCHANGED <<m_queue_sm_to_l1_busy, reply, unit, pending_request, completed, unissued,
                  schedulers, in_flight>>
  BY DEF l1_cache_bank, envVars
<1>2. CASE UNCHANGED <<l1_tags, l1_mshrs, m_miss_queue, m_start_addr, m_tlb_hit>>
  BY <1>1, <1>2 DEF Held
<1> DEFINE mf == BankFront(sm, b)
<1>3. ASSUME m_queue_sm_to_l1[sm][b] # <<>> PROVE mf \in MemFetch
  <2>1. m_queue_sm_to_l1[sm][b] \in Seq(MemFetch)
    BY SmAssumption DEF IInv, Typed
  <2> QED BY <1>3, <2>1 DEF BankFront
<1>4. ASSUME mf \in MemFetch, ToMissQueue(sm, mf)
      PROVE  /\ m_miss_queue' \in [Sm -> Seq(MemFetch)]
             /\ m_start_addr' \in [Sm -> 0 .. AddrSpace - 1]
             /\ m_tlb_hit' \in [MemFetch -> BOOLEAN]
  <2> HIDE DEF mf
  <2>1. Append(m_miss_queue[sm], mf) \in Seq(MemFetch)
    BY <1>4, SmAssumption DEF Held
  <2>2. start_after(m_start_addr[sm], m_address[mf]) \in 0 .. AddrSpace - 1
    BY <1>4, SmAssumption, RequestFacts DEF Held, start_after
  <2>3. is_hit(m_start_addr[sm], m_address[mf]) \in BOOLEAN
    BY DEF is_hit
  <2> QED BY <1>4, <2>1, <2>2, <2>3 DEF ToMissQueue, Held
<1>5. CASE m_queue_sm_to_l1[sm][b] # <<>> /\ L1Hit(sm, b)
  <2>1. CleanTags(l1_config, HitTags(sm, mf))
    <3> DEFINE a == m_address[mf]
               x == m_sector_mask[mf]
               touched == tag_array_access(l1_config, l1_tags[sm], a, x, cycles[sm])
               t == IF is_write[mf] /\ l1_m_write_policy = "LOCAL_WB_GLOBAL_WT"
                    THEN l1_tags[sm] ELSE touched
               w == L1Probe(sm, mf).idx
               u == WithLine(l1_config, t, a, w, set_status(Line(l1_config, t, a, w), MODIFIED, x))
    <3>1. /\ a \in DOMAIN l1_config.set_index /\ x \in l1_config.sectors /\ cycles[sm] \in Nat
          /\ CleanTags(l1_config, l1_tags[sm])
      BY <1>3, <1>5, RequestFacts, SmAssumption DEF Held, IInv, Typed
    <3>2. HitTags(sm, mf) = u \/ HitTags(sm, mf) = t
      BY Zenon DEF HitTags
    <3> HIDE DEF a, x, w, mf
    <3>3. CleanTags(l1_config, touched)
      BY <3>1, AccessClean
    <3>4. CleanTags(l1_config, t)
      BY <3>1, <3>3
    <3> HIDE DEF t
    <3>5. CleanTags(l1_config, u)
      BY <3>1, <3>4, MarkClean
    <3> QED BY <3>2, <3>4, <3>5 DEF mf
  <2>2. /\ l1_tags' = [l1_tags EXCEPT ![sm] = HitTags(sm, mf)]
        /\ UNCHANGED <<l1_mshrs, m_miss_queue, m_start_addr, m_tlb_hit>>
    BY <1>5 DEF L1Hit
  <2> HIDE DEF mf
  <2>3. DOMAIN l1_tags' = Sm /\ l1_tags'[sm] = HitTags(sm, mf)
    BY <2>2, SmAssumption DEF Held
  <2> QED BY <1>1, <2>1, <2>2, <2>3 DEF Held
<1>6. CASE m_queue_sm_to_l1[sm][b] # <<>> /\ L1StoreMiss(sm, b)
  BY <1>1, <1>3, <1>4, <1>6 DEF L1StoreMiss, Held
<1>7. CASE m_queue_sm_to_l1[sm][b] # <<>> /\ L1LoadMiss(sm, b)
  <2>1. /\ l1_mshrs' = [l1_mshrs EXCEPT ![sm] = mshr_add(@, m_sector_address(mf), mf)]
        /\ UNCHANGED l1_tags
        /\ ToMissQueue(sm, mf) \/ UNCHANGED <<m_miss_queue, m_start_addr, m_tlb_hit>>
    BY <1>7 DEF L1LoadMiss
  <2>2. mf \in MemFetch
    BY <1>3, <1>7
  <2>3. l1_mshrs' \in [Sm -> [SectorAddr -> Seq(MemFetch)]]
    <3> HIDE DEF mf
    <3>1. l1_mshrs[sm] \in [SectorAddr -> Seq(MemFetch)] /\ m_sector_address(mf) \in SectorAddr
      BY <2>2, RequestFacts, SmAssumption DEF Held
    <3>2. Append(l1_mshrs[sm][m_sector_address(mf)], mf) \in Seq(MemFetch)
      BY <2>2, <3>1
    <3>3. mshr_add(l1_mshrs[sm], m_sector_address(mf), mf) \in [SectorAddr -> Seq(MemFetch)]
      BY <3>1, <3>2 DEF mshr_add
    <3> QED BY <2>1, <3>3, SmAssumption DEF Held
  <2> QED BY <1>1, <1>4, <2>1, <2>2, <2>3 DEF Held
<1> QED BY <1>2, <1>5, <1>6, <1>7 DEF l1_cache_bank, BankEmpty, L1Retry

\* A unit sends one of the requests of its instruction, or waits.
LEMMA UnitHeld ==
    ASSUME IInv, Held, NEW u \in Unit, unit_cycle(sm, u), UNCHANGED envVars
    PROVE  Held'
<1> DEFINE v == unit[sm][u]
<1>1. UNCHANGED <<l1_tags, l1_mshrs, m_miss_queue, m_start_addr, m_tlb_hit, reply, completed,
                  unissued, schedulers, in_flight>>
  BY DEF unit_cycle, envVars
<1>2. /\ unit \in [Sm -> [Unit -> Sending]] /\ v \in Sending
      /\ v.inst # None => v.mem_fetch_point <= Len(m_coalesced_address[v.inst])
      /\ \A x \in Unit : unit[sm][x].unit_latency <= ldst_unit_latency
      /\ v.unit_latency <= ldst_unit_latency /\ v.unit_latency \in Nat /\ ldst_unit_latency \in Nat
  <2>1. unit \in [Sm -> [Unit -> Sending]] /\ v \in Sending
    BY SmAssumption DEF IInv, Typed
  <2>2. v.inst # None => v.mem_fetch_point <= Len(m_coalesced_address[v.inst])
    BY SmAssumption DEF IInv, Typed
  <2>3. \A x \in Unit : unit[sm][x].unit_latency <= ldst_unit_latency
    BY DEF Held
  <2>4. v.unit_latency <= ldst_unit_latency
    BY <2>3
  <2> HIDE DEF v
  <2>5. v.unit_latency \in Nat
    BY <2>1 DEF Sending
  <2> QED BY <2>1, <2>2, <2>3, <2>4, <2>5, L1Assumption
<1>3. CASE SendRequest(sm, u)
  <2> DEFINE i  == v.inst
             mf == NextRequest(sm, u)
             w  == IF v.mem_fetch_point = Len(m_coalesced_address[i]) THEN IdleUnit
                   ELSE [v EXCEPT !.mem_fetch_point = @ + 1]
  <2>1. i \in Inst /\ i # None
    BY <1>2, <1>3 DEF SendRequest, CanSend, Sending
  <2>2. m_coalesced_address[i] \in Seq(MemFetch) /\ Len(m_coalesced_address[i]) \in Nat
    BY <2>1, L1Assumption
  <2>3. v.mem_fetch_point \in 1 .. Len(m_coalesced_address[i])
    BY <1>2, <2>1, <2>2 DEF Sending
  <2>4. mf \in MemFetch /\ m_sector_mask[mf] \in Sector
    BY <2>2, <2>3, RequestsAssumption DEF NextRequest
  <2>5. /\ m_queue_sm_to_l1_busy' = [m_queue_sm_to_l1_busy EXCEPT ![sm] = @ \cup {m_sector_mask[mf]}]
        /\ pending_request' = [pending_request EXCEPT ![i] = @ + 1]
        /\ unit' = [unit EXCEPT ![sm][u] = w]
    BY <1>3, Zenon DEF SendRequest
  <2>6. m_queue_sm_to_l1_busy' \in [Sm -> SUBSET Sector]
    <3> HIDE DEF mf
    <3> QED BY <2>4, <2>5, SmAssumption DEF Held
  <2>7. pending_request' \in [Inst -> Nat]
    BY <2>1, <2>5 DEF Held
  <2>8. w.unit_latency <= ldst_unit_latency
    BY <1>2 DEF IdleUnit, Sending
  <2> HIDE DEF w
  <2>9. \A x \in Unit : unit'[sm][x].unit_latency <= ldst_unit_latency
    BY <1>2, <2>5, <2>8, SmAssumption
  <2> QED BY <1>1, <2>6, <2>7, <2>9 DEF Held
<1>4. CASE UnitWaits(sm, u)
  <2> DEFINE w == [v EXCEPT !.unit_latency = IF @ > 0 THEN @ - 1 ELSE @]
  <2>1. unit' = [unit EXCEPT ![sm][u] = w]
        /\ UNCHANGED <<m_queue_sm_to_l1_busy, pending_request>>
    BY <1>2, <1>4 DEF UnitWaits
  <2>2. w.unit_latency <= ldst_unit_latency
    <3>1. w.unit_latency = IF v.unit_latency > 0 THEN v.unit_latency - 1 ELSE v.unit_latency
      BY <1>2 DEF Sending
    <3> HIDE DEF w, v
    <3> QED BY <1>2, <3>1
  <2> HIDE DEF w
  <2>3. \A x \in Unit : unit'[sm][x].unit_latency <= ldst_unit_latency
    BY <1>2, <2>1, <2>2, SmAssumption
  <2> QED BY <1>1, <2>1, <2>3 DEF Held
<1> QED BY <1>3, <1>4 DEF unit_cycle

\* A free unit gets an instruction no warp has issued yet.
LEMMA IssueHeld ==
    ASSUME IInv, Held, NEW i \in Inst, process_LDG_STG(sm, i), UNCHANGED envVars
    PROVE  Held'
<1> DEFINE u == Min(FreeUnits(sm))
           w == [inst |-> i, mem_fetch_point |-> 1, unit_latency |-> ldst_unit_latency]
<1>1. /\ unit' = [unit EXCEPT ![sm][u] = w]
      /\ unissued' = unissued \ {i}
      /\ schedulers > 0 /\ schedulers' = schedulers - 1
      /\ UNCHANGED <<l1_tags, l1_mshrs, m_queue_sm_to_l1_busy, m_miss_queue, m_start_addr,
                     m_tlb_hit, reply, pending_request, completed, in_flight>>
  BY DEF process_LDG_STG, envVars
<1>2. w.unit_latency = ldst_unit_latency /\ ldst_unit_latency \in Nat
  BY L1Assumption
<1> HIDE DEF u, w
<1>3. \A x \in Unit : unit'[sm][x] = IF x = u THEN w ELSE unit[sm][x]
  BY <1>1, SmAssumption DEF IInv, Typed
<1>4. \A x \in Unit : unit'[sm][x].unit_latency <= ldst_unit_latency
  <2> SUFFICES ASSUME NEW x \in Unit PROVE unit'[sm][x].unit_latency <= ldst_unit_latency
    OBVIOUS
  <2>1. CASE x = u
    <3>1. unit'[sm][x].unit_latency = ldst_unit_latency
      BY <1>2, <1>3, <2>1
    <3> QED BY <1>2, <3>1
  <2>2. CASE x # u
    <3>1. unit'[sm][x] = unit[sm][x]
      BY <1>3, <2>2
    <3>2. unit[sm][x].unit_latency <= ldst_unit_latency
      BY DEF Held
    <3> QED BY <3>1, <3>2
  <2> QED BY <2>1, <2>2
<1>5. schedulers' \in 0 .. num_warp_schedulers_per_SM
  BY <1>1, L1ConfigAssumption DEF Held
<1> QED BY <1>1, <1>4, <1>5 DEF Held

\* A cycle begins with at most one reply.
LEMMA BeginHeld ==
    ASSUME IInv, Held, NEW popped \in Replies, NEW has_buffer, NEW ready,
           Begin(popped, has_buffer, ready)
    PROVE  Held'
<1>1. popped \in SUBSET MemFetch
  BY DEF Replies, Held
<1>2. /\ m_queue_sm_to_l1_busy' = [m_queue_sm_to_l1_busy EXCEPT ![sm] = {}]
      /\ reply' = popped /\ in_flight' = in_flight \ popped
      /\ schedulers' = num_warp_schedulers_per_SM
      /\ UNCHANGED <<l1_tags, l1_mshrs, m_miss_queue, m_start_addr, m_tlb_hit, unit,
                     pending_request, completed, unissued>>
  BY DEF Begin, Start
<1>3. schedulers' \in 0 .. num_warp_schedulers_per_SM
  BY <1>2, L1ConfigAssumption
<1>4. m_queue_sm_to_l1_busy' \in [Sm -> SUBSET Sector]
  BY <1>2 DEF Held
<1> QED BY <1>1, <1>2, <1>3, <1>4 DEF Held

\* What is pushed into the crossbar leaves the miss queue.
LEMMA SendHeld == ASSUME IInv, Held, Send PROVE Held'
<1>1. /\ m_miss_queue' = [m_miss_queue EXCEPT ![sm] = IF Pushed(sm, room) = {} THEN @ ELSE Tail(@)]
      /\ in_flight' = in_flight \cup Pushed(sm, room)
      /\ UNCHANGED <<l1_tags, l1_mshrs, m_queue_sm_to_l1_busy, m_start_addr, m_tlb_hit, reply, unit,
                     pending_request, completed, unissued, schedulers>>
  BY DEF Send, m_miss_queue_cycle
<1>2. m_miss_queue[sm] \in Seq(MemFetch) /\ m_miss_queue \in [Sm -> Seq(MemFetch)]
  BY SmAssumption DEF Held
<1>3. CASE Pushed(sm, room) = {}
  BY <1>1, <1>2, <1>3 DEF Held
<1>4. CASE Pushed(sm, room) # {}
  <2>1. m_miss_queue[sm] # <<>> /\ Pushed(sm, room) = {Head(m_miss_queue[sm])}
    BY <1>4 DEF Pushed
  <2>2. Tail(m_miss_queue[sm]) \in Seq(MemFetch) /\ Head(m_miss_queue[sm]) \in MemFetch
    BY <1>2, <2>1
  <2>3. m_miss_queue' \in [Sm -> Seq(MemFetch)] /\ in_flight' \in SUBSET MemFetch
    BY <1>1, <1>2, <1>4, <2>1, <2>2 DEF Held
  <2> QED BY <1>1, <2>3 DEF Held
<1> QED BY <1>3, <1>4

\* Every call keeps the tags clean.
LEMMA HeldStep == IInv /\ Held /\ [Next]_vars => Held'
<1> SUFFICES ASSUME IInv, Held, [Next]_vars PROVE Held'
  OBVIOUS
<1>1. ASSUME NEW popped \in Replies, NEW has_buffer \in BOOLEAN, NEW ready \in BOOLEAN,
             Begin(popped, has_buffer, ready)
      PROVE  Held'
  BY <1>1, BeginHeld
<1>2. CASE Send
  BY <1>2, SendHeld
<1>3. CASE Issue
  BY <1>3, IssueHeld DEF Issue
<1>4. CASE Run
  <2>1. ASSUME write_back(sm), UNCHANGED envVars PROVE Held'
    <3>1. pending_request' \in [Inst -> Nat] /\ completed' \in [Inst -> BOOLEAN]
      BY <2>1, ReleaseTyped DEF write_back
    <3> QED BY <2>1, <3>1 DEF write_back, envVars, Held
  <2>2. ASSUME NEW b \in Sector, l1_cache_bank(sm, b), UNCHANGED envVars PROVE Held'
    BY <2>2, BankHeld
  <2>3. ASSUME NEW u \in Unit, unit_cycle(sm, u), UNCHANGED envVars PROVE Held'
    BY <2>3, UnitHeld
  <2> QED BY <1>4, <2>1, <2>2, <2>3, ReplyHeld DEF Run
<1>5. CASE Finish
  BY <1>5 DEF Finish, Return, envVars, Held
<1>6. CASE UNCHANGED vars
  BY <1>6 DEF vars, l1Vars, envVars, Held
<1> QED BY <1>1, <1>2, <1>3, <1>4, <1>5, <1>6 DEF Next

\* So they always are.
LEMMA HeldAlways == Spec => []Held
<1> QED BY HeldInit, HeldStep, InvAlways, PTL DEF Spec

-----------------------------------------------------------------------------
(* The theorems.                                                           *)

\* The variables of the SM keep their types, and a unit never points past
\* the last request of its instruction (unit_cycle).
THEOREM TypeCorrect == Spec => []TypeOK
<1>1. IInv /\ Held => TypeOK
  <2> SUFFICES ASSUME IInv, Held PROVE TypeOK
    OBVIOUS
  <2>1. TagArrayOK(l1_config, l1_tags[sm])
    <3> DEFINE t == l1_tags[sm]
    <3>1. t \in [Sets(l1_config) -> [Ways(l1_config) -> CleanLine(l1_config)]]
      BY DEF Held, CleanTags
    <3> HIDE DEF t
    <3>2. ASSUME NEW s \in Sets(l1_config), NEW w \in Ways(l1_config)
          PROVE  /\ t[s][w].m_tag \in DOMAIN l1_config.set_index \cup {NoTag}
                 /\ t[s][w].m_status \in [l1_config.sectors -> BlockStates]
                 /\ t[s][w].last_access \in Nat
                 /\ t[s][w].alloc_time \in Nat
      <4>1. t[s][w] \in CleanLine(l1_config)
        BY <3>1
      <4> QED BY <4>1 DEF CleanLine, BlockStates
    <3> QED BY <3>1, <3>2 DEF TagArrayOK, t
  <2>2. unit[sm] \in [Unit -> UnitState]
    <3>1. unit[sm] \in [Unit -> Sending]
      BY SmAssumption DEF IInv, Typed
    <3>2. ASSUME NEW u \in Unit PROVE unit[sm][u] \in UnitState
      <4>1. unit[sm][u] \in Sending /\ unit[sm][u].unit_latency <= ldst_unit_latency
        BY <3>1 DEF Held
      <4> QED BY <4>1, L1Assumption DEF Sending, UnitState
    <3> QED BY <3>1, <3>2
  <2> QED BY <2>1, <2>2, SmAssumption DEF TypeOK, IInv, Typed, Held, Hit
<1> QED BY <1>1, InvAlways, HeldAlways, PTL

\* A line is in the L1 cache once, although misses of its sectors are filled
\* long after their lookups and other lines come and go meanwhile, and no
\* fill leaves a sector RESERVED, so no lookup ever fails for want of a way.
THEOREM LinesUnique == Spec => []UniqueLine
<1>1. Held => UniqueLine
  <2> SUFFICES ASSUME Held PROVE UniqueLine
    OBVIOUS
  <2> DEFINE t == l1_tags[sm]
  <2>1. CleanTags(l1_config, t)
    BY DEF Held
  <2> HIDE DEF t
  <2>2. t \in [Sets(l1_config) -> [Ways(l1_config) -> CleanLine(l1_config)]]
    BY <2>1 DEF CleanTags
  <2>3. ASSUME NEW s \in Sets(l1_config), NEW w \in Ways(l1_config)
        PROVE  ~ is_reserved_line(t[s][w])
    <3>1. t[s][w] \in CleanLine(l1_config)
      BY <2>2
    <3> QED BY <3>1 DEF CleanLine, is_reserved_line, RESERVED, INVALID, VALID, MODIFIED
  <2> QED BY <2>1, <2>2, <2>3 DEF CleanTags, UniqueLine, t
<1> QED BY <1>1, HeldAlways, PTL

-----------------------------------------------------------------------------
(* Where requests are: each in one place, and counted there.               *)

Queued == Within(m_miss_queue[sm])
Under  == InBanks \cup HitsOut \cup Waiting \cup OutStores

\* Nothing is twice in a queue; a bank has the requests of its sector, an
\* entry of the MSHR table the loads of its own.
BanksOnce ==
    \A b \in Sector : /\ Distinct(m_queue_sm_to_l1[sm][b])
                      /\ \A mf \in Within(m_queue_sm_to_l1[sm][b]) : m_sector_mask[mf] = b

WaitingOnce ==
    \A x \in SectorAddr : /\ Distinct(l1_mshrs[sm][x])
                          /\ \A mf \in Within(l1_mshrs[sm][x]) :
                                ~is_write[mf] /\ m_sector_address(mf) = x

HitsOnce ==
    \A j, k \in DOMAIN l1_to_sm[sm] : l1_to_sm[sm][j].mf = l1_to_sm[sm][k].mf => j = k

QueuedOnce == Distinct(m_miss_queue[sm])

\* A request is in one of the places of the SM, and in one of those on the
\* way to L2 and back.  Of the two only a load can be in both: it waits in
\* the MSHR table while it, the only one for its sector, is on its way.
Placed ==
    /\ \A mf \in MemFetch : /\ ~(mf \in InBanks /\ mf \in HitsOut)
                             /\ ~(mf \in InBanks /\ mf \in Waiting)
                             /\ ~(mf \in HitsOut /\ mf \in Waiting)
                             /\ ~(mf \in Queued /\ mf \in in_flight)
                             /\ ~(mf \in Queued /\ mf \in reply)
                             /\ ~(mf \in in_flight /\ mf \in reply)
    /\ \A mf \in Queued \cup in_flight \cup reply :
          IF is_write[mf] THEN mf \notin InBanks /\ mf \notin HitsOut /\ mf \notin Waiting
          ELSE mf \in Waiting
    /\ \A mf, mg \in Queued \cup in_flight \cup reply :
          ~is_write[mf] /\ ~is_write[mg] /\ m_sector_address(mf) = m_sector_address(mg)
          => mf = mg

\* There is at most one reply, and it is gone when write_back_request_l2
\* returns.
ReplyTaken ==
    /\ \A mf, mg \in reply : mf = mg
    /\ reply # {} => step = <<"write_back", 0>> \/ step = <<"write_back_request_l2", 0>>

\* The requests that are not made yet.
Later ==
    {mf \in MemFetch :
        \/ \E i \in unissued : mf \in RequestsOf(i)
        \/ \E u \in Unit : /\ unit[sm][u].inst # None
                           /\ \E k \in DOMAIN m_coalesced_address[unit[sm][u].inst] :
                                 /\ k >= unit[sm][u].mem_fetch_point
                                 /\ m_coalesced_address[unit[sm][u].inst][k] = mf}

\* An instruction is in one unit, once issued.
Issued ==
    \A u \in Unit : unit[sm][u].inst # None =>
        /\ unit[sm][u].inst \notin unissued
        /\ \A v \in Unit : unit[sm][v].inst = unit[sm][u].inst => v = u

PInv ==
    /\ BanksOnce /\ WaitingOnce /\ HitsOnce /\ QueuedOnce
    /\ Placed /\ ReplyTaken
    /\ IsFiniteSet(Under) /\ PendingExact
    /\ Issued /\ \A mf \in Later : mf \notin Under

\* The places have requests only.
LEMMA PlacesTyped ==
    ASSUME IInv, Held
    PROVE  /\ InBanks \subseteq MemFetch /\ HitsOut \subseteq MemFetch
           /\ Waiting \subseteq MemFetch /\ Queued \subseteq MemFetch
           /\ OutStores = {mf \in Queued \cup in_flight \cup reply : is_write[mf]}
           /\ in_flight \subseteq MemFetch /\ reply \subseteq MemFetch
           /\ Under \subseteq MemFetch
<1>1. ASSUME NEW b \in Sector PROVE Range(m_queue_sm_to_l1[sm][b]) \subseteq MemFetch
  <2>1. m_queue_sm_to_l1[sm][b] \in Seq(MemFetch)
    BY SmAssumption DEF IInv, Typed
  <2> QED BY <2>1 DEF Range
<1>2. ASSUME NEW x \in SectorAddr PROVE Range(l1_mshrs[sm][x]) \subseteq MemFetch
  <2>1. l1_mshrs[sm][x] \in Seq(MemFetch)
    BY SmAssumption DEF Held
  <2> QED BY <2>1 DEF Range
<1>3. HitsOut \subseteq MemFetch
  <2>1. l1_to_sm[sm] \in Seq(Hit)
    BY SmAssumption DEF IInv, Typed
  <2>2. \A k \in DOMAIN l1_to_sm[sm] : l1_to_sm[sm][k] \in Hit
    BY <2>1
  <2> QED BY <2>2 DEF HitsOut, Hit
<1>4. Range(m_miss_queue[sm]) = Queued
  BY DEF Queued, Within, Range
<1>5. Queued \subseteq MemFetch
  <2>1. m_miss_queue[sm] \in Seq(MemFetch)
    BY SmAssumption DEF Held
  <2> QED BY <2>1 DEF Queued, Within
<1>6. InBanks \subseteq MemFetch /\ Waiting \subseteq MemFetch
  BY <1>1, <1>2 DEF InBanks, Waiting
<1>7. OutStores = {mf \in Queued \cup in_flight \cup reply : is_write[mf]}
  BY <1>4 DEF OutStores, Outgoing
<1>8. in_flight \subseteq MemFetch /\ reply \subseteq MemFetch
  BY DEF Held
<1> QED BY <1>3, <1>5, <1>6, <1>7, <1>8 DEF Under

\* Places that change no queue stay as they are.
LEMMA BanksStay ==
    UNCHANGED m_queue_sm_to_l1 => InBanks' = InBanks /\ (BanksOnce => BanksOnce')
BY DEF InBanks, BanksOnce

LEMMA HitsStay == UNCHANGED l1_to_sm => HitsOut' = HitsOut /\ (HitsOnce => HitsOnce')
BY DEF HitsOut, HitsOnce

LEMMA WaitingStay == UNCHANGED l1_mshrs => Waiting' = Waiting /\ (WaitingOnce => WaitingOnce')
BY DEF Waiting, WaitingOnce

LEMMA QueuedStay == UNCHANGED m_miss_queue => Queued' = Queued /\ (QueuedOnce => QueuedOnce')
BY DEF Queued, QueuedOnce

\* The request at the front of a bank leaves it.
LEMMA BankLeaves ==
    ASSUME IInv, BanksOnce, NEW b \in Sector, m_queue_sm_to_l1[sm][b] # <<>>, LeaveBank(sm, b)
    PROVE  /\ BankFront(sm, b) \in MemFetch /\ BankFront(sm, b) \in InBanks
           /\ InBanks' = InBanks \ {BankFront(sm, b)} /\ BanksOnce'
<1> DEFINE q  == m_queue_sm_to_l1[sm][b]
           mf == Head(q)
<1>1. q \in Seq(MemFetch) /\ m_queue_sm_to_l1 \in [Sm -> [Sector -> Seq(MemFetch)]]
  BY SmAssumption DEF IInv, Typed
<1>2. /\ m_queue_sm_to_l1'[sm][b] = Tail(q)
      /\ \A c \in Sector : c # b => m_queue_sm_to_l1'[sm][c] = m_queue_sm_to_l1[sm][c]
  BY <1>1, SmAssumption DEF LeaveBank
<1>3. BankFront(sm, b) = mf
  BY DEF BankFront
<1>4. Distinct(q) /\ \A m \in Within(q) : m_sector_mask[m] = b
  BY DEF BanksOnce
<1>5. q # <<>>
  OBVIOUS
<1>6. InBanks = UNION {Within(m_queue_sm_to_l1[sm][c]) : c \in Sector}
  BY DEF InBanks, Within, Range
<1>7. InBanks' = UNION {Within(m_queue_sm_to_l1'[sm][c]) : c \in Sector}
  BY DEF InBanks, Within, Range
<1> HIDE DEF q
<1>8. /\ mf \in MemFetch /\ mf \in Within(q) /\ Within(q) = Within(Tail(q)) \cup {mf}
      /\ mf \notin Within(Tail(q)) /\ Distinct(Tail(q))
  BY <1>1, <1>4, <1>5, TailWithin
<1> HIDE DEF mf
<1>9. ASSUME NEW c \in Sector
      PROVE  Within(m_queue_sm_to_l1'[sm][c]) = Within(m_queue_sm_to_l1[sm][c]) \ {mf}
  <2>1. CASE c = b
    BY <1>2, <1>8, <2>1 DEF q
  <2>2. CASE c # b
    <3>1. mf \notin Within(m_queue_sm_to_l1[sm][c])
      BY <1>4, <1>8, <2>2 DEF BanksOnce
    <3> QED BY <1>2, <2>2, <3>1
  <2> QED BY <2>1, <2>2
<1>10. InBanks' = InBanks \ {mf} /\ mf \in InBanks
  <2>1. mf \in InBanks
    BY <1>6, <1>8 DEF q
  <2>2. ASSUME NEW m PROVE m \in InBanks' <=> m \in InBanks /\ m # mf
    BY <1>6, <1>7, <1>9
  <2> QED BY <2>1, <2>2
<1>11. BanksOnce'
  <2> SUFFICES ASSUME NEW c \in Sector
               PROVE  /\ Distinct(m_queue_sm_to_l1'[sm][c])
                      /\ \A m \in Within(m_queue_sm_to_l1'[sm][c]) : m_sector_mask[m] = c
    BY DEF BanksOnce
  <2>1. Distinct(m_queue_sm_to_l1'[sm][c])
    BY <1>2, <1>8 DEF BanksOnce
  <2> QED BY <1>9, <2>1 DEF BanksOnce
<1> QED BY <1>3, <1>8, <1>10, <1>11

\* A unit's request joins the bank of its sector.
LEMMA BankJoined ==
    ASSUME IInv, BanksOnce, NEW mf \in MemFetch, mf \notin InBanks,
           m_queue_sm_to_l1' = [m_queue_sm_to_l1 EXCEPT ![sm][m_sector_mask[mf]] = Append(@, mf)]
    PROVE  InBanks' = InBanks \cup {mf} /\ BanksOnce'
<1> DEFINE b == m_sector_mask[mf]
           q == m_queue_sm_to_l1[sm][b]
<1>0. b \in Sector
  BY RequestFacts
<1>1. q \in Seq(MemFetch) /\ m_queue_sm_to_l1 \in [Sm -> [Sector -> Seq(MemFetch)]]
  BY <1>0, SmAssumption DEF IInv, Typed
<1>2. /\ m_queue_sm_to_l1'[sm][b] = Append(q, mf)
      /\ \A c \in Sector : c # b => m_queue_sm_to_l1'[sm][c] = m_queue_sm_to_l1[sm][c]
  BY <1>0, <1>1, SmAssumption
<1>4. Distinct(q) /\ \A m \in Within(q) : m_sector_mask[m] = b
  BY <1>0 DEF BanksOnce
<1>6. InBanks = UNION {Within(m_queue_sm_to_l1[sm][c]) : c \in Sector}
  BY DEF InBanks, Within, Range
<1>7. InBanks' = UNION {Within(m_queue_sm_to_l1'[sm][c]) : c \in Sector}
  BY DEF InBanks, Within, Range
<1>8. mf \notin Within(q)
  BY <1>0, <1>6
<1> HIDE DEF q
<1>9. Within(Append(q, mf)) = Within(q) \cup {mf} /\ Distinct(Append(q, mf))
  BY <1>1, <1>4, <1>8, AppendWithin
<1>10. m_sector_mask[mf] = b
  OBVIOUS
<1> HIDE DEF b
<1>11. InBanks' = InBanks \cup {mf}
  BY <1>0, <1>2, <1>6, <1>7, <1>9 DEF q
<1>12. BanksOnce'
  BY <1>2, <1>4, <1>9, <1>10 DEF BanksOnce
<1> QED BY <1>11, <1>12

\* A hit joins those on their way back.
LEMMA HitJoined ==
    ASSUME IInv, HitsOnce, NEW mf \in MemFetch, mf \notin HitsOut, ReadyLater(sm, mf)
    PROVE  HitsOut' = HitsOut \cup {mf} /\ HitsOnce'
<1> DEFINE q == l1_to_sm[sm]
           h == [mf |-> mf, m_l1_ready_time |-> cycles[sm] + l1_hit_latency]
<1>1. q \in Seq(Hit) /\ l1_to_sm'[sm] = Append(q, h) /\ h.mf = mf
  BY SmAssumption DEF IInv, Typed, ReadyLater
<1>2. /\ HitsOut = {q[k].mf : k \in DOMAIN q}
      /\ \A j, k \in DOMAIN q : q[j].mf = q[k].mf => j = k
  BY DEF HitsOut, HitsOnce
<1> HIDE DEF q, h
<1> DEFINE r == Append(q, h)
<1>3. /\ DOMAIN r = 1 .. Len(q) + 1 /\ DOMAIN q = 1 .. Len(q) /\ Len(q) \in Nat
      /\ r[Len(q) + 1] = h /\ \A k \in 1 .. Len(q) : r[k] = q[k]
  BY <1>1
<1>4. HitsOut' = {r[k].mf : k \in DOMAIN r}
  BY <1>1 DEF HitsOut
<1> HIDE DEF r
<1>5. \A k \in DOMAIN r : (k \in DOMAIN q /\ r[k] = q[k]) \/ (k = Len(q) + 1 /\ r[k] = h)
  BY <1>3
<1>6. HitsOut' = HitsOut \cup {mf}
  <2>1. \A k \in DOMAIN q : k \in DOMAIN r /\ r[k] = q[k]
    BY <1>3
  <2>2. Len(q) + 1 \in DOMAIN r
    BY <1>3
  <2> QED BY <1>1, <1>2, <1>3, <1>4, <1>5, <2>1, <2>2
<1>7. \A j, k \in DOMAIN r : r[j].mf = r[k].mf => j = k
  BY <1>1, <1>2, <1>5
<1>8. HitsOnce'
  BY <1>1, <1>7 DEF HitsOnce, r
<1> QED BY <1>6, <1>8

\* The hits that are ready are the first ones of the queue.
LEMMA ReadyFirst ==
    ASSUME IInv
    PROVE  /\ Cardinality(Ready(sm)) \in 0 .. Len(l1_to_sm[sm])
           /\ Ready(sm) = 1 .. Cardinality(Ready(sm))
<1> DEFINE q == l1_to_sm[sm]
           S == {k \in 1 .. Len(q) + 1 : k \notin Ready(sm)}
<1>1. Len(q) \in Nat /\ DOMAIN q = 1 .. Len(q)
  BY SmAssumption DEF IInv, Typed
<1>2. Ready(sm) = {k \in 1 .. Len(q) :
                     \A j \in 1 .. k : q[j].m_l1_ready_time <= cycles[sm]}
  BY <1>1 DEF Ready
<1> HIDE DEF q
<1>3. Len(q) + 1 \in S /\ S \in SUBSET Nat
  BY <1>1, <1>2
<1>4. PICK n \in S : \A m \in S : n <= m
  <2> HIDE DEF S
  <2> QED BY <1>3, Least
<1>5. n \in 1 .. Len(q) + 1 /\ n \notin Ready(sm) /\ n - 1 \in Nat
  BY <1>1
<1>6. Ready(sm) = 1 .. n - 1
  <2>1. ASSUME NEW k \in 1 .. n - 1 PROVE k \in Ready(sm)
    <3>1. k \in 1 .. Len(q) + 1 /\ ~(n <= k)
      BY <1>1, <1>5
    <3> QED BY <1>4, <3>1
  <2>2. ASSUME NEW k \in Ready(sm) PROVE k \in 1 .. n - 1
    <3>1. k \in 1 .. Len(q) /\ \A j \in 1 .. k : q[j].m_l1_ready_time <= cycles[sm]
      BY <1>2
    <3>2. CASE n <= k
      <4>1. n \in 1 .. Len(q) /\ \A j \in 1 .. n : j \in 1 .. k
        BY <1>1, <1>5, <3>1, <3>2
      <4> QED BY <1>2, <1>5, <3>1, <4>1
    <3>3. CASE ~(n <= k)
      BY <1>1, <1>5, <3>1, <3>3
    <3> QED BY <3>2, <3>3
  <2> QED BY <2>1, <2>2
<1> HIDE DEF S
<1>7. Cardinality(1 .. n - 1) = n - 1
  <2>1. n - 1 \in Nat /\ (n - 1) - 1 + 1 = n - 1
    BY <1>5
  <2> DEFINE m == n - 1
  <2>2. m \in Nat /\ 1 \in Int /\ m \in Int /\ m - 1 + 1 = m
    BY <2>1
  <2> HIDE DEF m
  <2>3. Cardinality(1 .. m) = m
    BY <2>2, FS_Interval
  <2> QED BY <2>3 DEF m
<1> QED BY <1>1, <1>5, <1>6, <1>7 DEF q

\* They leave with write_back.
LEMMA HitsLeave ==
    ASSUME IInv, HitsOnce, write_back(sm)
    PROVE  /\ HitsOut' = HitsOut \ {l1_to_sm[sm][k].mf : k \in Ready(sm)}
           /\ {l1_to_sm[sm][k].mf : k \in Ready(sm)} \subseteq HitsOut /\ HitsOnce'
<1> DEFINE q == l1_to_sm[sm]
           n == Cardinality(Ready(sm))
           r == SubSeq(q, n + 1, Len(q))
<1>1. q \in Seq(Hit) /\ l1_to_sm'[sm] = r
  BY SmAssumption DEF IInv, Typed, write_back
<1>2. n \in 0 .. Len(q) /\ Ready(sm) = 1 .. n
  BY ReadyFirst
<1>3. /\ HitsOut = {q[k].mf : k \in DOMAIN q}
      /\ \A j, k \in DOMAIN q : q[j].mf = q[k].mf => j = k
  BY DEF HitsOut, HitsOnce
<1> HIDE DEF q, n
<1>4. Len(q) \in Nat /\ DOMAIN q = 1 .. Len(q)
  BY <1>1
<1>5. DOMAIN r = 1 .. Len(q) - n /\ \A k \in 1 .. Len(q) - n : r[k] = q[k + n]
  BY <1>1, <1>2, <1>4
<1>6. HitsOut' = {r[k].mf : k \in DOMAIN r}
  BY <1>1 DEF HitsOut
<1>7. HitsOnce' <=> \A j, k \in DOMAIN r : r[j].mf = r[k].mf => j = k
  BY <1>1 DEF HitsOnce
<1> HIDE DEF r
<1>8. \A k \in DOMAIN r : k + n \in DOMAIN q /\ k + n \notin 1 .. n /\ r[k] = q[k + n]
  BY <1>2, <1>4, <1>5
<1>9. \A k \in DOMAIN q : k \in 1 .. n \/ (k - n \in DOMAIN r /\ r[k - n] = q[k])
  <2> SUFFICES ASSUME NEW k \in DOMAIN q, k \notin 1 .. n
               PROVE  k - n \in DOMAIN r /\ r[k - n] = q[k]
    OBVIOUS
  <2>1. k - n \in 1 .. Len(q) - n /\ (k - n) + n = k
    BY <1>2, <1>4
  <2> QED BY <1>5, <2>1
<1>10. 1 .. n \subseteq DOMAIN q
  BY <1>2, <1>4
<1> DEFINE D == {q[k].mf : k \in 1 .. n}
<1>11. D \subseteq HitsOut
  BY <1>3, <1>10
<1>12. HitsOut' = HitsOut \ D
  <2>1. ASSUME NEW k \in DOMAIN r PROVE r[k].mf \in HitsOut \ D
    BY <1>3, <1>8, <1>10
  <2>2. ASSUME NEW k \in DOMAIN q, q[k].mf \notin D PROVE q[k].mf \in HitsOut'
    BY <1>6, <1>9, <2>2
  <2>3. HitsOut' \subseteq HitsOut \ D
    BY <1>6, <2>1
  <2>4. HitsOut \ D \subseteq HitsOut'
    BY <1>3, <2>2
  <2> QED BY <2>3, <2>4
<1>13. HitsOnce'
  <2>1. ASSUME NEW j \in DOMAIN r, NEW k \in DOMAIN r, r[j].mf = r[k].mf PROVE j = k
    <3>1. j + n = k + n
      BY <1>3, <1>8, <2>1
    <3> QED BY <1>2, <1>4, <1>5, <3>1
  <2> QED BY <1>7, <2>1
<1> QED BY <1>2, <1>11, <1>12, <1>13 DEF q

\* A load waits for its sector.
LEMMA WaitingJoined ==
    ASSUME Held, WaitingOnce, NEW mf \in MemFetch, mf \notin Waiting, ~is_write[mf],
           l1_mshrs' = [l1_mshrs EXCEPT ![sm] = mshr_add(@, m_sector_address(mf), mf)]
    PROVE  Waiting' = Waiting \cup {mf} /\ WaitingOnce'
<1> DEFINE x == m_sector_address(mf)
           q == l1_mshrs[sm][x]
<1>0. x \in SectorAddr
  BY RequestFacts
<1>1. q \in Seq(MemFetch) /\ l1_mshrs \in [Sm -> [SectorAddr -> Seq(MemFetch)]]
  BY <1>0, SmAssumption DEF Held
<1>2. /\ l1_mshrs'[sm][x] = Append(q, mf)
      /\ \A y \in SectorAddr : y # x => l1_mshrs'[sm][y] = l1_mshrs[sm][y]
  BY <1>0, <1>1, SmAssumption DEF mshr_add
<1>4. Distinct(q) /\ \A m \in Within(q) : ~is_write[m] /\ m_sector_address(m) = x
  BY <1>0 DEF WaitingOnce
<1>6. Waiting = UNION {Within(l1_mshrs[sm][y]) : y \in SectorAddr}
  BY DEF Waiting, Within, Range
<1>7. Waiting' = UNION {Within(l1_mshrs'[sm][y]) : y \in SectorAddr}
  BY DEF Waiting, Within, Range
<1>8. mf \notin Within(q)
  BY <1>0, <1>6
<1> HIDE DEF q
<1>9. Within(Append(q, mf)) = Within(q) \cup {mf} /\ Distinct(Append(q, mf))
  BY <1>1, <1>4, <1>8, AppendWithin
<1>10. m_sector_address(mf) = x
  OBVIOUS
<1> HIDE DEF x
<1>11. Waiting' = Waiting \cup {mf}
  BY <1>0, <1>2, <1>6, <1>7, <1>9 DEF q
<1>12. WaitingOnce'
  BY <1>2, <1>4, <1>9, <1>10 DEF WaitingOnce
<1> QED BY <1>11, <1>12

\* The loads of a sector leave together; they are all that wait for it.
LEMMA WaitingLeave ==
    ASSUME Held, WaitingOnce, NEW x \in SectorAddr,
           l1_mshrs' = [l1_mshrs EXCEPT ![sm] = mshr_release(@, x)]
    PROVE  /\ Waiting' = Waiting \ Range(l1_mshrs[sm][x]) /\ WaitingOnce'
           /\ Range(l1_mshrs[sm][x]) = {mf \in Waiting : m_sector_address(mf) = x}
<1>1. l1_mshrs \in [Sm -> [SectorAddr -> Seq(MemFetch)]]
  BY DEF Held
<1>2. /\ l1_mshrs'[sm][x] = <<>>
      /\ \A y \in SectorAddr : y # x => l1_mshrs'[sm][y] = l1_mshrs[sm][y]
  BY <1>1, SmAssumption DEF mshr_release
<1>3. Within(<<>>) = {} /\ Distinct(<<>>)
  BY DEF Within, Distinct
<1>4. Waiting = UNION {Within(l1_mshrs[sm][y]) : y \in SectorAddr}
  BY DEF Waiting, Within, Range
<1>5. Waiting' = UNION {Within(l1_mshrs'[sm][y]) : y \in SectorAddr}
  BY DEF Waiting, Within, Range
<1>6. Range(l1_mshrs[sm][x]) = Within(l1_mshrs[sm][x])
  BY DEF Within, Range
<1>7. \A y \in SectorAddr : \A mf \in Within(l1_mshrs[sm][y]) : m_sector_address(mf) = y
  BY DEF WaitingOnce
<1>8. Within(l1_mshrs[sm][x]) = {mf \in Waiting : m_sector_address(mf) = x}
  BY <1>4, <1>7
<1>9. ASSUME NEW y \in SectorAddr
      PROVE  Within(l1_mshrs'[sm][y]) = Within(l1_mshrs[sm][y]) \ Within(l1_mshrs[sm][x])
  <2>1. CASE y = x
    BY <1>2, <1>3, <2>1
  <2>2. CASE y # x
    BY <1>2, <1>7, <2>2
  <2> QED BY <2>1, <2>2
<1>10. Waiting' = Waiting \ Within(l1_mshrs[sm][x])
  <2>1. ASSUME NEW m PROVE m \in Waiting' <=> m \in Waiting /\ m \notin Within(l1_mshrs[sm][x])
    BY <1>4, <1>5, <1>9
  <2> QED BY <2>1
<1>11. WaitingOnce'
  BY <1>2, <1>3 DEF WaitingOnce
<1> QED BY <1>6, <1>8, <1>10, <1>11

\* A miss joins the queue to the crossbar.
LEMMA QueuedJoined ==
    ASSUME Held, QueuedOnce, NEW mf \in MemFetch, mf \notin Queued, ToMissQueue(sm, mf)
    PROVE  Queued' = Queued \cup {mf} /\ QueuedOnce'
<1> DEFINE q == m_miss_queue[sm]
<1>1. q \in Seq(MemFetch) /\ m_miss_queue'[sm] = Append(q, mf)
  BY SmAssumption DEF Held, ToMissQueue
<1>2. Queued = Within(q) /\ Queued' = Within(Append(q, mf)) /\ Distinct(q)
  BY <1>1 DEF Queued, QueuedOnce
<1>3. QueuedOnce' <=> Distinct(Append(q, mf))
  BY <1>1 DEF QueuedOnce
<1> HIDE DEF q
<1> QED BY <1>1, <1>2, <1>3, AppendWithin

-----------------------------------------------------------------------------
(* The count of an instruction.                                            *)

LEMMA UnderIs ==
    /\ Under  = InBanks \cup HitsOut \cup Waiting
                   \cup {mf \in Queued \cup in_flight \cup reply : is_write[mf]}
    /\ Under' = InBanks' \cup HitsOut' \cup Waiting'
                   \cup {mf \in Queued' \cup in_flight' \cup reply' : is_write[mf]}
<1>1. Range(m_miss_queue[sm]) = Queued /\ Range(m_miss_queue'[sm]) = Queued'
  BY DEF Queued, Within, Range
<1> QED BY <1>1 DEF Under, OutStores, Outgoing

LEMMA CountIs ==
    /\ PendingExact <=>
          \A i \in Inst : pending_request[i] = Cardinality(Under \cap RequestsOf(i))
    /\ PendingExact' <=>
          \A i \in Inst : pending_request'[i] = Cardinality(Under' \cap RequestsOf(i))
BY DEF PendingExact, Under

\* A request that only moves is counted as before.
LEMMA CountStays ==
    ASSUME PInv, UNCHANGED pending_request, Under' = Under
    PROVE  PendingExact'
BY CountIs DEF PInv

\* A request that unit_cycle makes is counted for its instruction only.
LEMMA CountMade ==
    ASSUME Held, PInv, NEW i \in Inst, NEW mf \in RequestsOf(i), mf \in MemFetch, mf \notin Under,
           Under' = Under \cup {mf}, pending_request' = [pending_request EXCEPT ![i] = @ + 1]
    PROVE  PendingExact'
<1> SUFFICES ASSUME NEW j \in Inst
             PROVE  pending_request'[j] = Cardinality(Under' \cap RequestsOf(j))
  BY CountIs
<1> DEFINE P == Under \cap RequestsOf(j)
<1>1. pending_request[j] = Cardinality(P) /\ pending_request \in [Inst -> Nat]
  BY CountIs DEF PInv, Held
<1>2. IsFiniteSet(P)
  BY Countable
<1>3. CASE j = i
  <2>1. Under' \cap RequestsOf(j) = P \cup {mf} /\ mf \notin P
    BY <1>3
  <2> HIDE DEF P
  <2>2. Cardinality(P \cup {mf}) = Cardinality(P) + 1
    BY <1>2, <2>1, FS_AddElement
  <2>3. pending_request'[j] = pending_request[j] + 1
    BY <1>1, <1>3
  <2> QED BY <1>1, <2>1, <2>2, <2>3
<1>4. CASE j # i
  <2>1. mf \notin RequestsOf(j)
    <3>1. PICK k \in Inst : {l \in Inst : mf \in RequestsOf(l)} = {k}
      BY L1Assumption
    <3> QED BY <1>4, <3>1
  <2>2. Under' \cap RequestsOf(j) = P
    BY <2>1
  <2> QED BY <1>1, <1>4, <2>2
<1> QED BY <1>3, <1>4

\* Requests that come back are no longer counted; an instruction completes
\* when none of its requests is under way any more.
LEMMA CountReleased ==
    ASSUME Held, PInv, NEW done, done \subseteq Under, Under' = Under \ done, Release(done)
    PROVE  /\ PendingExact'
           /\ \A i \in Inst : completed'[i] =>
                 \/ completed[i]
                 \/ Under \cap RequestsOf(i) # {} /\ Under' \cap RequestsOf(i) = {}
<1> DEFINE P(j) == Under \cap RequestsOf(j)
<1>1. ASSUME NEW j \in Inst
      PROVE  /\ IsFiniteSet(P(j)) /\ Cardinality(P(j)) \in Nat
             /\ Cardinality(Under' \cap RequestsOf(j)) = Cardinality(P(j)) - Back(done, j)
             /\ Back(done, j) \in Nat /\ Cardinality(Under' \cap RequestsOf(j)) \in Nat
             /\ pending_request[j] = Cardinality(P(j))
             /\ IsFiniteSet(Under' \cap RequestsOf(j))
  <2> DEFINE Q == P(j)
             D == done \cap RequestsOf(j)
  <2>1. IsFiniteSet(Q) /\ Cardinality(Q) \in Nat
    BY Countable
  <2>2. Under' \cap RequestsOf(j) = Q \ D /\ Q \cap D = D
    OBVIOUS
  <2>3. IsFiniteSet(Under' \cap RequestsOf(j)) /\ Cardinality(Under' \cap RequestsOf(j)) \in Nat
    BY Countable
  <2>4. Back(done, j) = Cardinality(D) /\ Back(done, j) \in Nat
    BY BackIsNat DEF Back
  <2>5. pending_request[j] = Cardinality(Q)
    BY CountIs DEF PInv
  <2> HIDE DEF Q, D
  <2>6. Cardinality(Q \ D) = Cardinality(Q) - Cardinality(Q \cap D)
    BY <2>1, FS_Difference
  <2> QED BY <2>1, <2>2, <2>3, <2>4, <2>5, <2>6 DEF Q
<1> HIDE DEF P
<1>2. ASSUME NEW j \in Inst
      PROVE  pending_request'[j] = Cardinality(Under' \cap RequestsOf(j))
  <2>1. pending_request'[j] = IF Back(done, j) <= pending_request[j]
                              THEN pending_request[j] - Back(done, j) ELSE 0
    BY Zenon DEF Release
  <2> QED BY <1>1, <2>1
<1>3. ASSUME NEW j \in Inst, completed'[j], ~completed[j]
      PROVE  Under \cap RequestsOf(j) # {} /\ Under' \cap RequestsOf(j) = {}
  <2>1. completed'[j] = (completed[j] \/ (pending_request[j] > 0 /\ Back(done, j) >= pending_request[j]))
    BY Zenon DEF Release
  <2>2. pending_request[j] > 0 /\ Back(done, j) >= pending_request[j]
    BY <1>3, <2>1
  <2>3. Cardinality(P(j)) > 0 /\ Cardinality(Under' \cap RequestsOf(j)) = 0
    BY <1>1, <2>2
  <2>4. P(j) # {}
    BY <2>3, FS_EmptySet
  <2> DEFINE X == Under' \cap RequestsOf(j)
  <2>5. IsFiniteSet(X) /\ Cardinality(X) = 0
    BY <1>1, <2>3
  <2> HIDE DEF X
  <2>6. X = {}
    BY <2>5, FS_EmptySet
  <2> QED BY <2>4, <2>6 DEF X, P
<1>4. PendingExact'
  BY <1>2, CountIs
<1> QED BY <1>3, <1>4

\* What is not made yet is not under way, when no unit moves on.
LEMMA LaterStays ==
    ASSUME PInv, UNCHANGED <<unit, unissued>>, Under' \subseteq Under
    PROVE  Issued' /\ (\A mf \in Later' : mf \notin Under') /\ IsFiniteSet(Under')
<1>1. Issued'
  BY DEF PInv, Issued
<1>2. Later' = Later
  BY DEF Later
<1>3. \A mf \in Later : mf \notin Under
  BY DEF PInv
<1>4. IsFiniteSet(Under)
  BY DEF PInv
<1>5. IsFiniteSet(Under')
  BY <1>4, FS_Subset
<1> QED BY <1>1, <1>2, <1>3, <1>5

-----------------------------------------------------------------------------
(* The calls of sm_cycle, and where requests are.                          *)

\* In a bank's turn its request becomes a hit on its way back, waits in the
\* MSHR table, is sent on, or stays.
LEMMA BankPlaced ==
    ASSUME IInv, Held, PInv, NEW b \in Sector, l1_cache_bank(sm, b), UNCHANGED envVars
    PROVE  PInv'
<1> DEFINE mf == BankFront(sm, b)
<1>1. /\ UNCHANGED <<reply, unit, pending_request, unissued, in_flight>>
      /\ step = <<"bank", b>>
  BY DEF l1_cache_bank, envVars, At
<1>2. reply = {} /\ ReplyTaken'
  <2>1. reply = {}
    <3>1. step # <<"write_back", 0>> /\ step # <<"write_back_request_l2", 0>>
      BY <1>1
    <3> QED BY <3>1 DEF PInv, ReplyTaken
  <2> QED BY <1>1, <2>1 DEF ReplyTaken
<1>3. /\ InBanks \subseteq MemFetch /\ HitsOut \subseteq MemFetch
      /\ Waiting \subseteq MemFetch /\ Queued \subseteq MemFetch
      /\ in_flight \subseteq MemFetch
  BY PlacesTyped
<1>4. ASSUME Placed', BanksOnce', WaitingOnce', HitsOnce', QueuedOnce', Under' = Under
      PROVE  PInv'
  <2>1. PendingExact'
    BY <1>1, <1>4, CountStays
  <2>2. Issued' /\ (\A m \in Later' : m \notin Under') /\ IsFiniteSet(Under')
    BY <1>1, <1>4, LaterStays
  <2> QED BY <1>2, <1>4, <2>1, <2>2 DEF PInv
<1>5. BanksOnce /\ WaitingOnce /\ HitsOnce /\ QueuedOnce /\ Placed
  BY DEF PInv
<1>6. ASSUME m_queue_sm_to_l1[sm][b] # <<>>, LeaveBank(sm, b)
      PROVE  mf \in MemFetch /\ mf \in InBanks /\ InBanks' = InBanks \ {mf} /\ BanksOnce'
  BY <1>5, <1>6, BankLeaves
<1> HIDE DEF mf
<1>7. CASE UNCHANGED <<l1_mshrs, l1_to_sm, m_miss_queue, m_queue_sm_to_l1>>
  <2>1. /\ InBanks' = InBanks /\ HitsOut' = HitsOut /\ Waiting' = Waiting /\ Queued' = Queued
        /\ BanksOnce' /\ HitsOnce' /\ WaitingOnce' /\ QueuedOnce'
    BY <1>5, <1>7, BanksStay, HitsStay, WaitingStay, QueuedStay
  <2>2. Under' = Under
    BY <1>1, <2>1, UnderIs
  <2>3. Placed'
    BY <1>1, <1>5, <2>1 DEF Placed
  <2> QED BY <1>4, <2>1, <2>2, <2>3
<1>8. CASE m_queue_sm_to_l1[sm][b] # <<>> /\ L1Hit(sm, b)
  <2>0. LeaveBank(sm, b) /\ ReadyLater(sm, mf) /\ UNCHANGED <<l1_mshrs, m_miss_queue>>
    BY <1>8 DEF L1Hit, mf
  <2>1. mf \in MemFetch /\ mf \in InBanks /\ InBanks' = InBanks \ {mf} /\ BanksOnce'
    BY <1>6, <1>8, <2>0
  <2>2. mf \notin HitsOut /\ mf \notin Waiting
    BY <1>5, <2>1 DEF Placed
  <2>3. HitsOut' = HitsOut \cup {mf} /\ HitsOnce'
    BY <1>5, <2>0, <2>1, <2>2, HitJoined
  <2>4. Waiting' = Waiting /\ Queued' = Queued /\ WaitingOnce' /\ QueuedOnce'
    BY <1>5, <2>0, WaitingStay, QueuedStay
  <2>5. Under' = Under
    BY <1>1, <2>1, <2>3, <2>4, UnderIs
  <2>6. Placed'
    BY <1>1, <1>5, <2>1, <2>2, <2>3, <2>4 DEF Placed
  <2> QED BY <1>4, <2>1, <2>3, <2>4, <2>5, <2>6
<1>9. CASE m_queue_sm_to_l1[sm][b] # <<>> /\ L1StoreMiss(sm, b)
  <2>0. LeaveBank(sm, b) /\ ToMissQueue(sm, mf) /\ UNCHANGED <<l1_mshrs, l1_to_sm>> /\ is_write[mf]
    BY <1>9 DEF L1StoreMiss, mf
  <2>1. mf \in MemFetch /\ mf \in InBanks /\ InBanks' = InBanks \ {mf} /\ BanksOnce'
    BY <1>6, <1>9, <2>0
  <2>2. /\ mf \notin HitsOut /\ mf \notin Waiting
        /\ mf \notin Queued /\ mf \notin in_flight /\ mf \notin reply
    BY <1>5, <2>0, <2>1 DEF Placed
  <2>3. Queued' = Queued \cup {mf} /\ QueuedOnce'
    BY <1>5, <2>0, <2>1, <2>2, QueuedJoined
  <2>4. Waiting' = Waiting /\ HitsOut' = HitsOut /\ WaitingOnce' /\ HitsOnce'
    BY <1>5, <2>0, WaitingStay, HitsStay
  <2>5. Under' = Under
    BY <1>1, <2>0, <2>1, <2>3, <2>4, UnderIs
  <2>6. Placed'
    BY <1>1, <1>5, <2>0, <2>1, <2>2, <2>3, <2>4 DEF Placed
  <2> QED BY <1>4, <2>1, <2>3, <2>4, <2>5, <2>6
<1>10. CASE m_queue_sm_to_l1[sm][b] # <<>> /\ L1LoadMiss(sm, b)
  <2> DEFINE x == m_sector_address(mf)
  <2>0. /\ LeaveBank(sm, b) /\ UNCHANGED l1_to_sm /\ ~is_write[mf]
        /\ l1_mshrs' = [l1_mshrs EXCEPT ![sm] = mshr_add(@, x, mf)]
        /\ IF mshr_probe(l1_mshrs[sm], x) THEN UNCHANGED m_miss_queue ELSE ToMissQueue(sm, mf)
    BY <1>10 DEF L1LoadMiss, mf
  <2>1. mf \in MemFetch /\ mf \in InBanks /\ InBanks' = InBanks \ {mf} /\ BanksOnce'
    BY <1>6, <1>10, <2>0
  <2>2. /\ mf \notin HitsOut /\ mf \notin Waiting
        /\ mf \notin Queued /\ mf \notin in_flight /\ mf \notin reply
    BY <1>5, <2>0, <2>1 DEF Placed
  <2>3. Waiting' = Waiting \cup {mf} /\ WaitingOnce'
    BY <1>5, <2>0, <2>1, <2>2, WaitingJoined
  <2>4. HitsOut' = HitsOut /\ HitsOnce'
    BY <1>5, <2>0, HitsStay
  <2>5. CASE mshr_probe(l1_mshrs[sm], x)
    <3>1. Queued' = Queued /\ QueuedOnce'
      BY <1>5, <2>0, <2>5, QueuedStay
    <3>2. Under' = Under
      BY <1>1, <2>1, <2>3, <2>4, <3>1, UnderIs
    <3>3. Placed'
      BY <1>1, <1>5, <2>1, <2>2, <2>3, <2>4, <3>1 DEF Placed
    <3> QED BY <1>4, <2>1, <2>3, <2>4, <3>1, <3>2, <3>3
  <2>6. CASE ~mshr_probe(l1_mshrs[sm], x)
    <3>0. ToMissQueue(sm, mf)
      BY <2>0, <2>6
    <3>1. Queued' = Queued \cup {mf} /\ QueuedOnce'
      BY <1>5, <2>1, <2>2, <3>0, QueuedJoined
    <3>2. Under' = Under
      BY <1>1, <2>0, <2>1, <2>3, <2>4, <3>1, UnderIs
    <3>3. ASSUME NEW m \in Waiting PROVE m_sector_address(m) # x
      <4>1. PICK y \in SectorAddr : m \in Range(l1_mshrs[sm][y])
        BY DEF Waiting
      <4>2. m \in Within(l1_mshrs[sm][y])
        BY <4>1 DEF Range, Within
      <4>3. m_sector_address(m) = y
        BY <1>5, <4>2 DEF WaitingOnce
      <4>4. l1_mshrs[sm][x] = <<>>
        BY <2>6 DEF mshr_probe
      <4>5. Within(l1_mshrs[sm][x]) = {}
        BY <4>4 DEF Within
      <4> QED BY <4>2, <4>3, <4>5
    <3> HIDE DEF x
    <3>4. \A m \in Queued \cup in_flight \cup reply : ~is_write[m] => m_sector_address(m) # x
      BY <1>5, <3>3 DEF Placed
    <3>5. Placed'
      <4>1. \A m, n \in Queued' \cup in_flight' \cup reply' :
                ~is_write[m] /\ ~is_write[n] /\ m_sector_address(m) = m_sector_address(n) => m = n
        BY <1>1, <1>5, <3>1, <3>4 DEF Placed, x
      <4> QED BY <1>1, <1>5, <2>0, <2>1, <2>2, <2>3, <2>4, <3>1, <4>1 DEF Placed
    <3> QED BY <1>4, <2>1, <2>3, <2>4, <3>1, <3>2, <3>5
  <2> QED BY <2>5, <2>6
<1> QED BY <1>7, <1>8, <1>9, <1>10 DEF l1_cache_bank, BankEmpty, L1Retry

\* Requests that come back leave the place they are in.
LEMMA BackPlaced ==
    ASSUME Held, PInv, NEW done, done \subseteq Under, Under' = Under \ done, Release(done),
           BanksOnce', WaitingOnce', HitsOnce', QueuedOnce', Placed', ReplyTaken',
           UNCHANGED <<unit, unissued>>
    PROVE  PInv'
<1>1. PendingExact'
  BY CountReleased
<1>2. Issued' /\ (\A m \in Later' : m \notin Under') /\ IsFiniteSet(Under')
  BY LaterStays
<1> QED BY <1>1, <1>2 DEF PInv

\* write_back: hits.
LEMMA WriteBackPlaced ==
    ASSUME IInv, Held, PInv, write_back(sm), UNCHANGED envVars
    PROVE  /\ PInv'
           /\ \E done : /\ Release(done) /\ done \cap InBanks = {}
                        /\ done \subseteq Under /\ Under' = Under \ done
<1> DEFINE done == {l1_to_sm[sm][k].mf : k \in Ready(sm)}
<1>1. /\ UNCHANGED <<m_queue_sm_to_l1, l1_mshrs, m_miss_queue, in_flight, reply, unit, unissued>>
      /\ step' = <<"write_back_request_l2", 0>> /\ Release(done)
  BY DEF write_back, envVars, Goto
<1>2. BanksOnce /\ WaitingOnce /\ HitsOnce /\ QueuedOnce /\ Placed /\ ReplyTaken
  BY DEF PInv
<1>3. done \subseteq HitsOut /\ HitsOut' = HitsOut \ done /\ HitsOnce'
  BY <1>2, HitsLeave
<1>4. /\ InBanks' = InBanks /\ Waiting' = Waiting /\ Queued' = Queued
      /\ BanksOnce' /\ WaitingOnce' /\ QueuedOnce'
  BY <1>1, <1>2, BanksStay, WaitingStay, QueuedStay
<1> HIDE DEF done
<1>5. HitsOut \subseteq MemFetch
  BY PlacesTyped
<1>6. \A mf \in done : /\ mf \notin InBanks /\ mf \notin Waiting
                       /\ mf \notin Queued /\ mf \notin in_flight /\ mf \notin reply
  BY <1>2, <1>3, <1>5 DEF Placed
<1>7. done \subseteq Under /\ Under' = Under \ done
  BY <1>1, <1>3, <1>4, <1>6, UnderIs
<1>8. Placed'
  BY <1>1, <1>2, <1>3, <1>4 DEF Placed
<1>9. ReplyTaken'
  BY <1>1, <1>2 DEF ReplyTaken
<1>10. PInv'
  BY <1>1, <1>3, <1>4, <1>7, <1>8, <1>9, BackPlaced
<1>11. done \cap InBanks = {}
  BY <1>6
<1> QED BY <1>1, <1>7, <1>10, <1>11

\* write_back_request_l2: the loads that wait for a sector, or a store.
LEMMA ReplyPlaced ==
    ASSUME IInv, Held, PInv, write_back_request_l2(sm), UNCHANGED envVars
    PROVE  /\ PInv'
           /\ \/ UNCHANGED <<pending_request, completed>> /\ Under' = Under
              \/ \E done : /\ Release(done) /\ done \cap InBanks = {}
                           /\ done \subseteq Under /\ Under' = Under \ done
<1>1. /\ UNCHANGED <<m_queue_sm_to_l1, l1_to_sm, m_miss_queue, in_flight, unit, unissued>>
      /\ reply' = {}
  BY DEF write_back_request_l2, envVars
<1>2. /\ BanksOnce /\ WaitingOnce /\ HitsOnce /\ QueuedOnce /\ Placed
      /\ \A mf, mg \in reply : mf = mg
  BY DEF PInv, ReplyTaken
<1>3. /\ InBanks' = InBanks /\ HitsOut' = HitsOut /\ Queued' = Queued
      /\ BanksOnce' /\ HitsOnce' /\ QueuedOnce'
  BY <1>1, <1>2, BanksStay, HitsStay, QueuedStay
<1>4. ReplyTaken'
  BY <1>1 DEF ReplyTaken
<1>5. Waiting \subseteq MemFetch /\ reply \subseteq MemFetch
  BY PlacesTyped
<1>6. CASE LoadReply(sm)
  <2>1. PICK mf \in reply :
           /\ ~is_write[mf]
           /\ Release(Range(l1_mshrs[sm][m_sector_address(mf)]))
           /\ l1_mshrs' = [l1_mshrs EXCEPT ![sm] = mshr_release(@, m_sector_address(mf))]
    BY <1>6 DEF LoadReply
  <2> DEFINE x == m_sector_address(mf)
             done == Range(l1_mshrs[sm][x])
  <2>2. mf \in MemFetch /\ x \in SectorAddr
    BY <1>5, RequestFacts
  <2>3. /\ Waiting' = Waiting \ done /\ WaitingOnce'
        /\ done = {m \in Waiting : m_sector_address(m) = x}
    BY <1>2, <2>1, <2>2, WaitingLeave
  <2>4. Release(done)
    BY <2>1
  <2> HIDE DEF done
  <2>5. reply = {mf}
    BY <1>2
  <2>6. \A m \in done : /\ m \notin InBanks /\ m \notin HitsOut
                        /\ m \in Queued \cup in_flight \cup reply => ~is_write[m] /\ m = mf
    BY <1>2, <1>5, <2>1, <2>3 DEF Placed
  <2>7. done \subseteq Under /\ Under' = Under \ done
    <3>1. done \subseteq Under
      BY <2>3, UnderIs
    <3>2. Under' = InBanks \cup HitsOut \cup (Waiting \ done)
                     \cup {m \in Queued \cup in_flight : is_write[m]}
      BY <1>1, <1>3, <2>3, UnderIs
    <3>3. {m \in Queued \cup in_flight \cup reply : is_write[m]}
            = {m \in Queued \cup in_flight : is_write[m]}
      BY <2>1, <2>5
    <3>4. \A m \in done : m \notin {n \in Queued \cup in_flight : is_write[n]}
      BY <2>6
    <3> QED BY <2>6, <3>1, <3>2, <3>3, <3>4, UnderIs
  <2>8. Placed'
    <3>1. mf \notin Queued /\ mf \notin in_flight
      BY <1>2, <2>2, <2>5 DEF Placed
    <3>2. \A m \in Queued' \cup in_flight' \cup reply' : m \notin done
      BY <1>1, <1>3, <2>6, <3>1
    <3>3. \A m \in Queued' \cup in_flight' \cup reply' :
             IF is_write[m] THEN m \notin InBanks' /\ m \notin HitsOut' /\ m \notin Waiting'
             ELSE m \in Waiting'
      BY <1>1, <1>2, <1>3, <2>3, <3>2 DEF Placed
    <3> HIDE DEF x
    <3> QED BY <1>1, <1>2, <1>3, <2>3, <3>3 DEF Placed
  <2>9. PInv'
    BY <1>1, <1>3, <1>4, <2>3, <2>4, <2>7, <2>8, BackPlaced
  <2>10. done \cap InBanks = {}
    BY <2>6
  <2> QED BY <2>4, <2>7, <2>9, <2>10
<1>7. CASE StoreReply(sm)
  <2>1. PICK mf \in reply : is_write[mf] /\ Release({mf}) /\ UNCHANGED l1_mshrs
    BY <1>7 DEF StoreReply
  <2>2. Waiting' = Waiting /\ WaitingOnce'
    BY <1>2, <2>1, WaitingStay
  <2>3. /\ reply = {mf} /\ mf \in MemFetch
        /\ mf \notin InBanks /\ mf \notin HitsOut /\ mf \notin Waiting
        /\ mf \notin Queued /\ mf \notin in_flight
    BY <1>2, <1>5, <2>1 DEF Placed
  <2>4. {mf} \subseteq Under /\ Under' = Under \ {mf}
    BY <1>1, <1>3, <2>1, <2>2, <2>3, UnderIs
  <2>5. Placed'
    BY <1>1, <1>2, <1>3, <2>2 DEF Placed
  <2>6. PInv'
    BY <1>1, <1>3, <1>4, <2>1, <2>2, <2>4, <2>5, BackPlaced
  <2>7. {mf} \cap InBanks = {}
    BY <2>3
  <2> QED BY <2>1, <2>4, <2>6, <2>7
<1>8. CASE NoReply
  <2>1. reply = {} /\ UNCHANGED <<l1_mshrs, pending_request, completed>>
    BY <1>8 DEF NoReply
  <2>2. Waiting' = Waiting /\ WaitingOnce'
    BY <1>2, <2>1, WaitingStay
  <2>3. Under' = Under
    BY <1>1, <1>3, <2>1, <2>2, UnderIs
  <2>4. Placed'
    BY <1>1, <1>2, <1>3, <2>1, <2>2 DEF Placed
  <2>5. PendingExact'
    BY <2>1, <2>3, CountStays
  <2>6. Issued' /\ (\A m \in Later' : m \notin Under') /\ IsFiniteSet(Under')
    BY <1>1, <2>3, LaterStays
  <2>7. PInv'
    BY <1>3, <1>4, <2>2, <2>4, <2>5, <2>6 DEF PInv
  <2> QED BY <2>1, <2>3, <2>7
<1> QED BY <1>6, <1>7, <1>8 DEF write_back_request_l2

\* A cycle begins: a request the L2 cache has answered is the reply.
LEMMA BeginPlaced ==
    ASSUME IInv, Held, PInv, NEW popped \in Replies, NEW has_buffer, NEW ready,
           Begin(popped, has_buffer, ready)
    PROVE  PInv' /\ Under' = Under
<1>1. /\ step = <<"start", 0>> /\ step' = <<"write_back", 0>>
      /\ reply' = popped /\ in_flight' = in_flight \ popped
      /\ UNCHANGED <<m_queue_sm_to_l1, l1_to_sm, l1_mshrs, m_miss_queue, unit, unissued, pending_request>>
  BY DEF Begin, Start, At, Goto
<1>2. BanksOnce /\ WaitingOnce /\ HitsOnce /\ QueuedOnce /\ Placed /\ ReplyTaken
  BY DEF PInv
<1>3. reply = {}
  <2>1. step # <<"write_back", 0>> /\ step # <<"write_back_request_l2", 0>>
    BY <1>1
  <2> QED BY <1>2, <2>1 DEF ReplyTaken
<1>4. popped \subseteq in_flight /\ \A mf, mg \in popped : mf = mg
  BY DEF Replies
<1>5. /\ InBanks' = InBanks /\ HitsOut' = HitsOut /\ Waiting' = Waiting /\ Queued' = Queued
      /\ BanksOnce' /\ HitsOnce' /\ WaitingOnce' /\ QueuedOnce'
  BY <1>1, <1>2, BanksStay, HitsStay, WaitingStay, QueuedStay
<1>6. Queued' \cup in_flight' \cup reply' = Queued \cup in_flight \cup reply
  BY <1>1, <1>3, <1>4, <1>5
<1>7. Under' = Under
  BY <1>5, <1>6, UnderIs
<1>8. Placed'
  <2>1. \A mf \in MemFetch : /\ ~(mf \in Queued' /\ mf \in in_flight')
                             /\ ~(mf \in Queued' /\ mf \in reply')
                             /\ ~(mf \in in_flight' /\ mf \in reply')
    BY <1>1, <1>2, <1>4, <1>5 DEF Placed
  <2> QED BY <1>2, <1>5, <1>6, <2>1 DEF Placed
<1>9. ReplyTaken'
  BY <1>1, <1>4 DEF ReplyTaken
<1>10. PendingExact'
  BY <1>1, <1>7, CountStays
<1>11. Issued' /\ (\A m \in Later' : m \notin Under') /\ IsFiniteSet(Under')
  BY <1>1, <1>7, LaterStays
<1> QED BY <1>5, <1>7, <1>8, <1>9, <1>10, <1>11 DEF PInv

\* One request is pushed into the crossbar, or none.
LEMMA SendPlaced ==
    ASSUME IInv, Held, PInv, Send
    PROVE  PInv' /\ Under' = Under
<1> DEFINE q == m_miss_queue[sm]
<1>1. /\ step = <<"m_miss_queue_cycle", 0>>
      /\ m_miss_queue' = [m_miss_queue EXCEPT ![sm] = IF Pushed(sm, room) = {} THEN q ELSE Tail(q)]
      /\ in_flight' = in_flight \cup Pushed(sm, room)
      /\ UNCHANGED <<m_queue_sm_to_l1, l1_to_sm, l1_mshrs, reply, unit, unissued, pending_request>>
  BY DEF Send, m_miss_queue_cycle, At
<1>2. BanksOnce /\ WaitingOnce /\ HitsOnce /\ QueuedOnce /\ Placed /\ ReplyTaken
  BY DEF PInv
<1>3. reply = {}
  <2>1. step # <<"write_back", 0>> /\ step # <<"write_back_request_l2", 0>>
    BY <1>1
  <2> QED BY <1>2, <2>1 DEF ReplyTaken
<1>4. /\ InBanks' = InBanks /\ HitsOut' = HitsOut /\ Waiting' = Waiting
      /\ BanksOnce' /\ HitsOnce' /\ WaitingOnce'
  BY <1>1, <1>2, BanksStay, HitsStay, WaitingStay
<1>5. q \in Seq(MemFetch) /\ m_miss_queue'[sm] = IF Pushed(sm, room) = {} THEN q ELSE Tail(q)
  BY <1>1, SmAssumption DEF Held
<1>6. /\ Queued' = Queued \ Pushed(sm, room) /\ QueuedOnce'
      /\ Pushed(sm, room) \subseteq Queued
  <2>0. /\ Queued = Within(q) /\ Queued' = Within(m_miss_queue'[sm]) /\ Distinct(q)
        /\ QueuedOnce' <=> Distinct(m_miss_queue'[sm])
    BY <1>2 DEF Queued, QueuedOnce
  <2>1. CASE Pushed(sm, room) = {}
    BY <1>5, <2>0, <2>1
  <2>2. CASE Pushed(sm, room) # {}
    <3>1. q # <<>> /\ Pushed(sm, room) = {Head(q)}
      BY <2>2 DEF Pushed
    <3>2. m_miss_queue'[sm] = Tail(q)
      BY <1>5, <2>2
    <3> HIDE DEF q
    <3>3. /\ Head(q) \in Within(q) /\ Within(q) = Within(Tail(q)) \cup {Head(q)}
          /\ Head(q) \notin Within(Tail(q)) /\ Distinct(Tail(q))
      BY <1>5, <2>0, <3>1, TailWithin
    <3> QED BY <2>0, <3>1, <3>2, <3>3
  <2> QED BY <2>1, <2>2
<1> HIDE DEF q
<1>7. Queued' \cup in_flight' \cup reply' = Queued \cup in_flight \cup reply
  BY <1>1, <1>6
<1>8. Under' = Under
  BY <1>4, <1>7, UnderIs
<1>9. Placed'
  <2>1. \A mf \in MemFetch : /\ ~(mf \in Queued' /\ mf \in in_flight')
                             /\ ~(mf \in Queued' /\ mf \in reply')
                             /\ ~(mf \in in_flight' /\ mf \in reply')
    BY <1>1, <1>2, <1>3, <1>6 DEF Placed
  <2> QED BY <1>2, <1>4, <1>7, <2>1 DEF Placed
<1>10. ReplyTaken'
  BY <1>1, <1>3 DEF ReplyTaken
<1>11. PendingExact'
  BY <1>1, <1>8, CountStays
<1>12. Issued' /\ (\A m \in Later' : m \notin Under') /\ IsFiniteSet(Under')
  BY <1>1, <1>8, LaterStays
<1> QED BY <1>4, <1>6, <1>8, <1>9, <1>10, <1>11, <1>12 DEF PInv

\* What unit_cycle does when it sends: the request at the unit's point goes
\* to its bank, and the unit points at the next one or is free.
LEMMA SendFacts ==
    ASSUME IInv, NEW u \in Unit, SendRequest(sm, u)
    PROVE  LET v  == unit[sm][u]
               mf == NextRequest(sm, u)
           IN  /\ v.inst \in Inst /\ v.inst # None /\ v.unit_latency = 0
               /\ v.mem_fetch_point \in DOMAIN m_coalesced_address[v.inst]
               /\ v.mem_fetch_point \in Nat \ {0}
               /\ mf = m_coalesced_address[v.inst][v.mem_fetch_point]
               /\ mf \in MemFetch /\ mf \in RequestsOf(v.inst)
               /\ \/ unit'[sm][u] = IdleUnit
                  \/ /\ unit'[sm][u].inst = v.inst
                     /\ unit'[sm][u].mem_fetch_point = v.mem_fetch_point + 1
                     /\ unit'[sm][u].unit_latency = v.unit_latency
               /\ \A x \in Unit : x # u => unit'[sm][x] = unit[sm][x]
<1> DEFINE v  == unit[sm][u]
           mf == NextRequest(sm, u)
           i  == v.inst
           w  == IF v.mem_fetch_point = Len(m_coalesced_address[i]) THEN IdleUnit
                 ELSE [v EXCEPT !.mem_fetch_point = @ + 1]
<1>1. unit \in [Sm -> [Unit -> Sending]] /\ v \in Sending
  BY SmAssumption DEF IInv, Typed
<1>2. v.inst # None => v.mem_fetch_point <= Len(m_coalesced_address[v.inst])
  BY DEF IInv, Typed
<1>3. i \in Inst /\ i # None /\ v.unit_latency = 0
  BY <1>1 DEF SendRequest, CanSend, Sending
<1>4. m_coalesced_address[i] \in Seq(MemFetch) /\ Len(m_coalesced_address[i]) \in Nat
      /\ DOMAIN m_coalesced_address[i] = 1 .. Len(m_coalesced_address[i])
  BY <1>3, L1Assumption
<1>5. v.mem_fetch_point \in Nat \ {0} /\ v.mem_fetch_point \in DOMAIN m_coalesced_address[i]
  BY <1>1, <1>2, <1>3, <1>4 DEF Sending
<1>6. mf = m_coalesced_address[i][v.mem_fetch_point] /\ mf \in MemFetch /\ mf \in RequestsOf(i)
  BY <1>4, <1>5 DEF NextRequest, RequestsOf, Range
<1>7. unit' = [unit EXCEPT ![sm][u] = w]
  BY Zenon DEF SendRequest
<1>8. \/ w = IdleUnit
      \/ w.inst = i /\ w.mem_fetch_point = v.mem_fetch_point + 1 /\ w.unit_latency = v.unit_latency
  BY <1>1 DEF Sending
<1> HIDE DEF w
<1>9. unit'[sm][u] = w /\ \A x \in Unit : x # u => unit'[sm][x] = unit[sm][x]
  BY <1>1, <1>7, SmAssumption
<1> QED BY <1>3, <1>5, <1>6, <1>8, <1>9

\* A request belongs to one instruction.
LEMMA OneInst ==
    ASSUME NEW i \in Inst, NEW j \in Inst, NEW mf \in MemFetch,
           mf \in RequestsOf(i), mf \in RequestsOf(j)
    PROVE  i = j
<1>1. PICK k \in Inst : {l \in Inst : mf \in RequestsOf(l)} = {k}
  BY L1Assumption
<1> QED BY <1>1

\* unit_cycle makes a request that was not made yet.
LEMMA UnitPlaced ==
    ASSUME IInv, Held, PInv, NEW u \in Unit, unit_cycle(sm, u), UNCHANGED envVars
    PROVE  PInv' /\ (SendRequest(sm, u) => NextRequest(sm, u) \in InBanks')
<1> DEFINE v  == unit[sm][u]
           mf == NextRequest(sm, u)
           i  == v.inst
<1>1. /\ UNCHANGED <<l1_mshrs, l1_to_sm, m_miss_queue, reply, unissued, in_flight>>
      /\ step = <<"unit", u>>
  BY DEF unit_cycle, envVars, At
<1>2. BanksOnce /\ WaitingOnce /\ HitsOnce /\ QueuedOnce /\ Placed /\ ReplyTaken
  BY DEF PInv
<1>3. reply = {} /\ ReplyTaken'
  <2>1. step # <<"write_back", 0>> /\ step # <<"write_back_request_l2", 0>>
    BY <1>1
  <2> QED BY <1>1, <1>2, <2>1 DEF ReplyTaken
<1>4. /\ HitsOut' = HitsOut /\ Waiting' = Waiting /\ Queued' = Queued
      /\ HitsOnce' /\ WaitingOnce' /\ QueuedOnce'
  BY <1>1, <1>2, HitsStay, WaitingStay, QueuedStay
<1>5. unit \in [Sm -> [Unit -> Sending]] /\ v \in Sending
  BY SmAssumption DEF IInv, Typed
<1>6. CASE SendRequest(sm, u)
  <2>1. /\ i \in Inst /\ i # None
        /\ v.mem_fetch_point \in DOMAIN m_coalesced_address[i] /\ v.mem_fetch_point \in Nat \ {0}
        /\ mf = m_coalesced_address[i][v.mem_fetch_point] /\ mf \in MemFetch /\ mf \in RequestsOf(i)
        /\ \/ unit'[sm][u] = IdleUnit
           \/ unit'[sm][u].inst = i /\ unit'[sm][u].mem_fetch_point = v.mem_fetch_point + 1
        /\ \A x \in Unit : x # u => unit'[sm][x] = unit[sm][x]
    BY <1>6, SendFacts
  <2>2. /\ m_queue_sm_to_l1' = [m_queue_sm_to_l1 EXCEPT ![sm][m_sector_mask[mf]] = Append(@, mf)]
        /\ pending_request' = [pending_request EXCEPT ![i] = @ + 1]
    BY <1>6 DEF SendRequest
  <2>3. mf \in Later
    <3>1. v.mem_fetch_point >= v.mem_fetch_point
      BY <2>1
    <3> QED BY <2>1, <3>1 DEF Later
  <2>4. mf \notin Under
    BY <2>3 DEF PInv
  <2>5. /\ mf \notin InBanks /\ mf \notin HitsOut /\ mf \notin Waiting
        /\ mf \notin Queued /\ mf \notin in_flight /\ mf \notin reply
    <3>1. mf \notin InBanks /\ mf \notin HitsOut /\ mf \notin Waiting
      BY <2>4, UnderIs
    <3>2. mf \in Queued \cup in_flight \cup reply => ~is_write[mf]
      BY <2>4, UnderIs
    <3> QED BY <1>2, <3>1, <3>2 DEF Placed
  <2>6. Later' \subseteq Later \ {mf}
    <3> HIDE DEF mf
    <3> SUFFICES ASSUME NEW m \in Later' PROVE m \in Later /\ m # mf
      OBVIOUS
    <3>0. m \in MemFetch
      BY DEF Later
    <3>1. ASSUME NEW j \in unissued, m \in RequestsOf(j) PROVE m \in Later /\ m # mf
      <4>1. m \in Later
        BY <3>0, <3>1 DEF Later
      <4>2. j # i /\ j \in Inst
        BY <2>1 DEF PInv, Issued, Held
      <4> QED BY <2>1, <3>1, <4>1, <4>2, OneInst
    <3>2. ASSUME NEW x \in Unit, x # u, unit[sm][x].inst # None,
                 NEW k \in DOMAIN m_coalesced_address[unit[sm][x].inst],
                 k >= unit[sm][x].mem_fetch_point,
                 m_coalesced_address[unit[sm][x].inst][k] = m
          PROVE  m \in Later /\ m # mf
      <4>1. m \in Later
        BY <3>0, <3>2 DEF Later
      <4>2. unit[sm][x].inst # i
        BY <2>1, <3>2 DEF PInv, Issued
      <4>3. unit[sm][x].inst \in Inst
        BY <1>5, <3>2, SmAssumption DEF Sending
      <4>4. m \in RequestsOf(unit[sm][x].inst)
        BY <3>2 DEF RequestsOf, Range
      <4> QED BY <2>1, <4>1, <4>2, <4>3, <4>4, OneInst
    <3>3. ASSUME unit'[sm][u].inst # None,
                 NEW k \in DOMAIN m_coalesced_address[unit'[sm][u].inst],
                 k >= unit'[sm][u].mem_fetch_point,
                 m_coalesced_address[unit'[sm][u].inst][k] = m
          PROVE  m \in Later /\ m # mf
      <4>1. unit'[sm][u].inst = i /\ unit'[sm][u].mem_fetch_point = v.mem_fetch_point + 1
        BY <2>1, <3>3 DEF IdleUnit
      <4>2. k \in Nat
        <5>1. m_coalesced_address[i] \in Seq(MemFetch)
          BY <2>1, L1Assumption
        <5> QED BY <3>3, <4>1, <5>1
      <4>3. k >= v.mem_fetch_point /\ k # v.mem_fetch_point
        BY <2>1, <3>3, <4>1, <4>2
      <4>4. m \in Later
        BY <2>1, <3>0, <3>3, <4>1, <4>3 DEF Later
      <4>5. m # mf
        <5>1. IsInjective(m_coalesced_address[i])
          BY <2>1, L1Assumption
        <5> QED BY <2>1, <3>3, <4>1, <4>3, <5>1 DEF IsInjective
      <4> QED BY <4>4, <4>5
    <3>4. \/ \E j \in unissued : m \in RequestsOf(j)
          \/ \E x \in Unit : /\ unit'[sm][x].inst # None
                             /\ \E k \in DOMAIN m_coalesced_address[unit'[sm][x].inst] :
                                   /\ k >= unit'[sm][x].mem_fetch_point
                                   /\ m_coalesced_address[unit'[sm][x].inst][k] = m
      BY <1>1 DEF Later
    <3>5. CASE \E j \in unissued : m \in RequestsOf(j)
      BY <3>1, <3>5
    <3>6. ASSUME NEW x \in Unit, unit'[sm][x].inst # None,
                 NEW k \in DOMAIN m_coalesced_address[unit'[sm][x].inst],
                 k >= unit'[sm][x].mem_fetch_point,
                 m_coalesced_address[unit'[sm][x].inst][k] = m
          PROVE  m \in Later /\ m # mf
      <4>1. CASE x = u
        BY <3>3, <3>6, <4>1
      <4>2. CASE x # u
        <5>1. unit'[sm][x] = unit[sm][x]
          BY <2>1, <4>2
        <5> QED BY <3>2, <3>6, <4>2, <5>1
      <4> QED BY <4>1, <4>2
    <3> QED BY <3>4, <3>5, <3>6
  <2>7. Issued'
    <3>1. \A x \in Unit : unit'[sm][x].inst # None => unit'[sm][x].inst = unit[sm][x].inst
      <4>1. IdleUnit.inst = None
        BY DEF IdleUnit
      <4> QED BY <2>1, <4>1
    <3> QED BY <1>1, <3>1 DEF PInv, Issued
  <2> HIDE DEF mf, i, v
  <2>8. InBanks' = InBanks \cup {mf} /\ BanksOnce'
    BY <1>2, <2>1, <2>2, <2>5, BankJoined
  <2>9. Under' = Under \cup {mf}
    BY <1>1, <1>4, <2>8, UnderIs
  <2>10. Placed'
    BY <1>1, <1>2, <1>4, <2>1, <2>5, <2>8 DEF Placed
  <2>11. PendingExact'
    BY <2>1, <2>2, <2>4, <2>9, CountMade
  <2>12. IsFiniteSet(Under')
    BY <2>9, FS_AddElement DEF PInv
  <2>13. \A m \in Later' : m \notin Under'
    BY <2>6, <2>9 DEF PInv
  <2>14. PInv'
    BY <1>3, <1>4, <2>7, <2>8, <2>10, <2>11, <2>12, <2>13 DEF PInv
  <2> QED BY <2>8, <2>14 DEF mf
<1>7. CASE UnitWaits(sm, u)
  <2>1. /\ UNCHANGED <<m_queue_sm_to_l1, pending_request>> /\ ~CanSend(sm, u)
        /\ unit' = [unit EXCEPT ![sm][u] = [v EXCEPT !.unit_latency = IF @ > 0 THEN @ - 1 ELSE @]]
    BY <1>5, <1>7 DEF UnitWaits
  <2>2. /\ unit'[sm][u].inst = v.inst /\ unit'[sm][u].mem_fetch_point = v.mem_fetch_point
        /\ \A x \in Unit : x # u => unit'[sm][x] = unit[sm][x]
    <3> DEFINE w == [v EXCEPT !.unit_latency = IF @ > 0 THEN @ - 1 ELSE @]
    <3>1. w.inst = v.inst /\ w.mem_fetch_point = v.mem_fetch_point
      BY <1>5 DEF Sending
    <3>2. unit' = [unit EXCEPT ![sm][u] = w]
      BY <2>1
    <3> HIDE DEF w
    <3>3. unit'[sm][u] = w /\ \A x \in Unit : x # u => unit'[sm][x] = unit[sm][x]
      BY <1>5, <3>2, SmAssumption
    <3> QED BY <3>1, <3>3
  <2>3. \A x \in Unit : /\ unit'[sm][x].inst = unit[sm][x].inst
                        /\ unit'[sm][x].mem_fetch_point = unit[sm][x].mem_fetch_point
    BY <2>2
  <2>4. Later' = Later
    BY <1>1, <2>3 DEF Later
  <2>5. Issued'
    BY <1>1, <2>3 DEF PInv, Issued
  <2>6. InBanks' = InBanks /\ BanksOnce'
    BY <1>2, <2>1, BanksStay
  <2>7. Under' = Under
    BY <1>1, <1>4, <2>6, UnderIs
  <2>8. Placed'
    BY <1>1, <1>2, <1>4, <2>6 DEF Placed
  <2>9. PendingExact'
    BY <2>1, <2>7, CountStays
  <2>10. PInv'
    BY <1>3, <1>4, <2>4, <2>5, <2>6, <2>7, <2>8, <2>9 DEF PInv
  <2>11. ~SendRequest(sm, u)
    BY <2>1 DEF SendRequest
  <2> QED BY <2>10, <2>11
<1> QED BY <1>6, <1>7 DEF unit_cycle

\* A free unit gets an instruction whose requests are not made yet.
LEMMA IssuePlaced ==
    ASSUME IInv, Held, PInv, NEW i \in Inst, process_LDG_STG(sm, i), UNCHANGED envVars
    PROVE  PInv' /\ InBanks' = InBanks
<1> DEFINE u == Min(FreeUnits(sm))
           w == [inst |-> i, mem_fetch_point |-> 1, unit_latency |-> ldst_unit_latency]
<1>1. /\ UNCHANGED <<step, m_queue_sm_to_l1, l1_mshrs, l1_to_sm, m_miss_queue, reply, in_flight,
                     pending_request>>
      /\ i \in unissued /\ unissued' = unissued \ {i}
      /\ unit' = [unit EXCEPT ![sm][u] = w]
  BY DEF process_LDG_STG, envVars
<1>2. BanksOnce /\ WaitingOnce /\ HitsOnce /\ QueuedOnce /\ Placed /\ ReplyTaken
  BY DEF PInv
<1>3. w.inst = i /\ w.mem_fetch_point = 1
  OBVIOUS
<1> HIDE DEF u, w
<1>4. \A x \in Unit : unit'[sm][x] = IF x = u THEN w ELSE unit[sm][x]
  BY <1>1, SmAssumption DEF IInv, Typed
<1>5. /\ InBanks' = InBanks /\ HitsOut' = HitsOut /\ Waiting' = Waiting /\ Queued' = Queued
      /\ BanksOnce' /\ HitsOnce' /\ WaitingOnce' /\ QueuedOnce'
  BY <1>1, <1>2, BanksStay, HitsStay, WaitingStay, QueuedStay
<1>6. Under' = Under
  BY <1>1, <1>5, UnderIs
<1>7. Placed'
  BY <1>1, <1>2, <1>5 DEF Placed
<1>8. ReplyTaken'
  BY <1>1, <1>2 DEF ReplyTaken
<1>9. PendingExact'
  BY <1>1, <1>6, CountStays
<1>10. \A x \in Unit : unit[sm][x].inst # i
  BY <1>1, L1Assumption DEF PInv, Issued
<1>11. Issued'
  <2>1. ASSUME NEW x \in Unit, unit'[sm][x].inst # None
        PROVE  /\ unit'[sm][x].inst \notin unissued'
               /\ \A y \in Unit : unit'[sm][y].inst = unit'[sm][x].inst => y = x
    <3>1. CASE x = u
      BY <1>1, <1>3, <1>4, <1>10, <3>1
    <3>2. CASE x # u
      <4>1. unit'[sm][x] = unit[sm][x]
        BY <1>4, <3>2
      <4> QED BY <1>1, <1>3, <1>4, <1>10, <2>1, <3>2, <4>1 DEF PInv, Issued
    <3> QED BY <3>1, <3>2
  <2> QED BY <2>1 DEF Issued
<1>12. Later' \subseteq Later
  <2> SUFFICES ASSUME NEW m \in Later' PROVE m \in Later
    OBVIOUS
  <2>0. m \in MemFetch
    BY DEF Later
  <2>1. CASE \E j \in unissued' : m \in RequestsOf(j)
    BY <1>1, <2>0, <2>1 DEF Later
  <2>2. ASSUME NEW x \in Unit, unit'[sm][x].inst # None,
               NEW k \in DOMAIN m_coalesced_address[unit'[sm][x].inst],
               k >= unit'[sm][x].mem_fetch_point,
               m_coalesced_address[unit'[sm][x].inst][k] = m
        PROVE  m \in Later
    <3>1. CASE x = u
      <4>1. unit'[sm][x].inst = i
        BY <1>3, <1>4, <3>1
      <4>2. m \in RequestsOf(i)
        BY <2>2, <4>1 DEF RequestsOf, Range
      <4> QED BY <1>1, <2>0, <4>2 DEF Later
    <3>2. CASE x # u
      <4>1. unit'[sm][x] = unit[sm][x]
        BY <1>4, <3>2
      <4> QED BY <2>0, <2>2, <4>1 DEF Later
    <3> QED BY <3>1, <3>2
  <2>3. \/ \E j \in unissued' : m \in RequestsOf(j)
        \/ \E x \in Unit : /\ unit'[sm][x].inst # None
                           /\ \E k \in DOMAIN m_coalesced_address[unit'[sm][x].inst] :
                                 /\ k >= unit'[sm][x].mem_fetch_point
                                 /\ m_coalesced_address[unit'[sm][x].inst][k] = m
    BY DEF Later
  <2> QED BY <2>1, <2>2, <2>3
<1>13. (\A m \in Later' : m \notin Under') /\ IsFiniteSet(Under')
  BY <1>6, <1>12 DEF PInv
<1> QED BY <1>5, <1>7, <1>8, <1>9, <1>11, <1>13 DEF PInv

\* Where everything is does not change when sm_cycle returns.
LEMMA RestPlaced ==
    ASSUME PInv, UNCHANGED <<m_queue_sm_to_l1, l1_mshrs, l1_to_sm, m_miss_queue, reply, in_flight,
                             pending_request, unit, unissued>>,
           reply # {} => step' = step
    PROVE  PInv' /\ InBanks' = InBanks
<1>1. BanksOnce /\ WaitingOnce /\ HitsOnce /\ QueuedOnce /\ Placed /\ ReplyTaken
  BY DEF PInv
<1>2. /\ InBanks' = InBanks /\ HitsOut' = HitsOut /\ Waiting' = Waiting /\ Queued' = Queued
      /\ BanksOnce' /\ HitsOnce' /\ WaitingOnce' /\ QueuedOnce'
  BY <1>1, BanksStay, HitsStay, WaitingStay, QueuedStay
<1>3. Under' = Under
  BY <1>2, UnderIs
<1>4. Placed'
  BY <1>1, <1>2 DEF Placed
<1>5. ReplyTaken'
  BY <1>1 DEF ReplyTaken
<1>6. PendingExact'
  BY <1>3, CountStays
<1>7. Issued' /\ (\A m \in Later' : m \notin Under') /\ IsFiniteSet(Under')
  BY <1>3, LaterStays
<1> QED BY <1>2, <1>4, <1>5, <1>6, <1>7 DEF PInv

\* Return leaves no reply behind.
LEMMA FinishPlaced ==
    ASSUME PInv, Finish
    PROVE  PInv' /\ InBanks' = InBanks
<1>1. /\ step = <<"schedule_warp", 0>>
      /\ UNCHANGED <<m_queue_sm_to_l1, l1_mshrs, l1_to_sm, m_miss_queue, reply, in_flight,
                     pending_request, unit, unissued>>
  BY DEF Finish, Return, envVars, At
<1>2. reply = {}
  <2>1. step # <<"write_back", 0>> /\ step # <<"write_back_request_l2", 0>>
    BY <1>1
  <2> QED BY <2>1 DEF PInv, ReplyTaken
<1> QED BY <1>1, <1>2, RestPlaced

\* At the start nothing is made.
LEMMA InitPlaced == Init => PInv
<1> SUFFICES ASSUME Init PROVE PInv
  OBVIOUS
<1>1. /\ m_queue_sm_to_l1[sm] = [b \in Sector |-> <<>>] /\ l1_to_sm[sm] = <<>>
      /\ l1_mshrs[sm] = [x \in SectorAddr |-> <<>>] /\ m_miss_queue[sm] = <<>>
      /\ in_flight = {} /\ reply = {} /\ pending_request = [i \in Inst |-> 0]
      /\ \A u \in Unit : unit[sm][u].inst = None
  BY SmAssumption DEF Init, InitL1, EmptyMshr, IdleUnit
<1>2. Within(<<>>) = {} /\ Distinct(<<>>) /\ Range(<<>>) = {}
  BY DEF Within, Distinct, Range
<1>3. InBanks = {} /\ HitsOut = {} /\ Waiting = {} /\ Queued = {}
  BY <1>1, <1>2 DEF InBanks, HitsOut, Waiting, Queued
<1>4. BanksOnce /\ WaitingOnce /\ HitsOnce /\ QueuedOnce
  BY <1>1, <1>2 DEF BanksOnce, WaitingOnce, HitsOnce, QueuedOnce
<1>5. Placed
  BY <1>1, <1>3 DEF Placed
<1>6. ReplyTaken
  BY <1>1 DEF ReplyTaken
<1>7. Under = {}
  BY <1>1, <1>3, UnderIs
<1>8. PendingExact
  <2>1. \A i \in Inst : Under \cap RequestsOf(i) = {}
    BY <1>7
  <2> QED BY <1>1, <2>1, CountIs, FS_EmptySet
<1>9. Issued
  BY <1>1 DEF Issued
<1> QED BY <1>4, <1>5, <1>6, <1>7, <1>8, <1>9, FS_EmptySet DEF PInv

LEMMA PlacedStep == IInv /\ Held /\ PInv /\ [Next]_vars => PInv'
<1> SUFFICES ASSUME IInv, Held, PInv, [Next]_vars PROVE PInv'
  OBVIOUS
<1>1. ASSUME NEW popped \in Replies, NEW has_buffer \in BOOLEAN, NEW ready \in BOOLEAN,
             Begin(popped, has_buffer, ready)
      PROVE  PInv'
  BY <1>1, BeginPlaced
<1>2. CASE Send
  BY <1>2, SendPlaced
<1>3. CASE Issue
  BY <1>3, IssuePlaced DEF Issue
<1>4. CASE Run
  <2>1. ASSUME NEW b \in Sector, l1_cache_bank(sm, b), UNCHANGED envVars PROVE PInv'
    BY <2>1, BankPlaced
  <2>2. ASSUME NEW u \in Unit, unit_cycle(sm, u), UNCHANGED envVars PROVE PInv'
    BY <2>2, UnitPlaced
  <2> QED BY <1>4, <2>1, <2>2, WriteBackPlaced, ReplyPlaced DEF Run
<1>5. CASE Finish
  BY <1>5, FinishPlaced
<1>6. CASE UNCHANGED vars
  BY <1>6, RestPlaced DEF vars, l1Vars, envVars
<1> QED BY <1>1, <1>2, <1>3, <1>4, <1>5, <1>6 DEF Next

LEMMA PlacedAlways == Spec => []PInv
<1> QED BY InitPlaced, PlacedStep, InvAlways, HeldAlways, PTL DEF Spec

\* A sequence without repetition has as many elements as places.
LEMMA TogetherOnce ==
    ASSUME NEW S, NEW q \in Seq(S), Distinct(q)
    PROVE  Together(q)
<1>1. Len(q) \in Nat /\ DOMAIN q = 1 .. Len(q)
  OBVIOUS
<1>2. \A i, j \in 1 .. Len(q) : q[i] = q[j] => i = j
  BY <1>1 DEF Distinct
<1>3. Range(q) = {q[i] : i \in 1 .. Len(q)}
  BY <1>1 DEF Range
<1> DEFINE n == Len(q)
<1>4. n \in Nat /\ DOMAIN q = 1 .. n /\ \A i, j \in 1 .. n : q[i] = q[j] => i = j
  BY <1>1, <1>2
<1> HIDE DEF n
<1>5. Cardinality({q[i] : i \in 1 .. n}) = n
  BY <1>4, DistinctCount
<1> QED BY <1>3, <1>5 DEF Together, n

\* Every counter of requests under way is exact, whatever the order in which
\* banks, hits, merged loads and replies make progress: so a reply or a hit
\* always finds a positive count, and the branches of write_back_request_l2
\* that print "error!" and exit are never taken.
THEOREM CountersExact == Spec => []PendingExact
<1>1. PInv => PendingExact
  BY DEF PInv
<1> QED BY <1>1, PlacedAlways, PTL

\* A request that was made is in one place, and once: no handler loses it,
\* answers it twice, or leaves a copy behind.
THEOREM RequestsApart == Spec => []OnePlace
<1>1. IInv /\ Held /\ PInv => OnePlace
  <2> SUFFICES ASSUME IInv, Held, PInv PROVE OnePlace
    OBVIOUS
  <2>1. \A b \in Sector : Together(m_queue_sm_to_l1[sm][b])
    <3> SUFFICES ASSUME NEW b \in Sector PROVE Together(m_queue_sm_to_l1[sm][b])
      OBVIOUS
    <3>1. m_queue_sm_to_l1[sm][b] \in Seq(MemFetch)
      BY SmAssumption DEF IInv, Typed
    <3>2. Distinct(m_queue_sm_to_l1[sm][b])
      BY DEF PInv, BanksOnce
    <3> QED BY <3>1, <3>2, TogetherOnce
  <2>2. \A x \in SectorAddr : Together(l1_mshrs[sm][x])
    <3> SUFFICES ASSUME NEW x \in SectorAddr PROVE Together(l1_mshrs[sm][x])
      OBVIOUS
    <3>1. l1_mshrs[sm][x] \in Seq(MemFetch)
      BY SmAssumption DEF Held
    <3>2. Distinct(l1_mshrs[sm][x])
      BY DEF PInv, WaitingOnce
    <3> QED BY <3>1, <3>2, TogetherOnce
  <2>3. Cardinality(HitsOut) = Len(l1_to_sm[sm])
    <3> DEFINE q == l1_to_sm[sm]
               n == Len(q)
               f == [k \in 1 .. n |-> q[k].mf]
    <3>1. q \in Seq(Hit)
      BY SmAssumption DEF IInv, Typed
    <3>2. n \in Nat /\ DOMAIN q = 1 .. n
      BY <3>1
    <3>3. HitsOut = {q[k].mf : k \in DOMAIN q}
      BY DEF HitsOut
    <3>4. \A j, k \in DOMAIN q : q[j].mf = q[k].mf => j = k
      BY DEF PInv, HitsOnce
    <3> HIDE DEF q, n
    <3>5. /\ DOMAIN f = 1 .. n /\ \A i, j \in 1 .. n : f[i] = f[j] => i = j
          /\ HitsOut = {f[k] : k \in 1 .. n}
      BY <3>2, <3>3, <3>4
    <3> HIDE DEF f
    <3>6. Cardinality({f[k] : k \in 1 .. n}) = n
      BY <3>2, <3>5, DistinctCount
    <3> QED BY <3>5, <3>6 DEF n, q
  <2>4. Cardinality(Range(m_miss_queue[sm])) = Len(m_miss_queue[sm])
    <3>1. m_miss_queue[sm] \in Seq(MemFetch)
      BY SmAssumption DEF Held
    <3>2. Distinct(m_miss_queue[sm])
      BY DEF PInv, QueuedOnce
    <3> QED BY <3>1, <3>2, TogetherOnce DEF Together
  <2>5. Range(m_miss_queue[sm]) \cap in_flight = {}
    <3>1. Range(m_miss_queue[sm]) = Queued
      BY DEF Range, Queued, Within
    <3>2. Queued \subseteq MemFetch
      BY PlacesTyped
    <3> QED BY <3>1, <3>2 DEF PInv, Placed
  <2>6. Cardinality(InBanks) + Cardinality(HitsOut) + Cardinality(Waiting) + Cardinality(OutStores)
          = Cardinality(InBanks \cup HitsOut \cup Waiting \cup OutStores)
    <3>1. /\ InBanks \cap HitsOut = {} /\ (InBanks \cup HitsOut) \cap Waiting = {}
          /\ (InBanks \cup HitsOut \cup Waiting) \cap OutStores = {}
      <4>1. OutStores = {mf \in Queued \cup in_flight \cup reply : is_write[mf]}
        BY PlacesTyped
      <4>2. InBanks \subseteq MemFetch /\ HitsOut \subseteq MemFetch /\ Waiting \subseteq MemFetch
        BY PlacesTyped
      <4>3. Placed
        BY DEF PInv
      <4> QED BY <4>1, <4>2, <4>3 DEF Placed
    <3>2. IsFiniteSet(Under)
      BY DEF PInv
    <3>3. /\ InBanks \subseteq Under /\ HitsOut \subseteq Under
          /\ Waiting \subseteq Under /\ OutStores \subseteq Under
      BY DEF Under
    <3>4. /\ IsFiniteSet(InBanks) /\ IsFiniteSet(HitsOut)
          /\ IsFiniteSet(Waiting) /\ IsFiniteSet(OutStores)
      BY <3>2, <3>3, FS_Subset
    <3>5. /\ IsFiniteSet(InBanks \cup HitsOut)
          /\ Cardinality(InBanks \cup HitsOut)
                = Cardinality(InBanks) + Cardinality(HitsOut) - Cardinality({})
      BY <3>1, <3>4, FS_Union
    <3>6. /\ IsFiniteSet(InBanks \cup HitsOut \cup Waiting)
          /\ Cardinality(InBanks \cup HitsOut \cup Waiting)
                = Cardinality(InBanks \cup HitsOut) + Cardinality(Waiting) - Cardinality({})
      BY <3>1, <3>4, <3>5, FS_Union
    <3>7. Cardinality(InBanks \cup HitsOut \cup Waiting \cup OutStores)
            = Cardinality(InBanks \cup HitsOut \cup Waiting) + Cardinality(OutStores) - Cardinality({})
      BY <3>1, <3>4, <3>6, FS_Union
    <3>8. Cardinality({}) = 0
      BY FS_EmptySet
    <3>9. /\ Cardinality(InBanks) \in Nat /\ Cardinality(HitsOut) \in Nat
          /\ Cardinality(Waiting) \in Nat /\ Cardinality(OutStores) \in Nat
      BY <3>4, FS_CardinalityType
    <3> QED BY <3>5, <3>6, <3>7, <3>8, <3>9
  <2> QED BY <2>1, <2>2, <2>3, <2>4, <2>5, <2>6 DEF OnePlace
<1> QED BY <1>1, InvAlways, HeldAlways, PlacedAlways, PTL

-----------------------------------------------------------------------------
(* One LDS unit.                                                           *)

\* The calls from the unit's turn to the next cycle's replies: no bank is
\* served meanwhile.
Quiet == {<<"schedule_warp", 0>>, <<"start", 0>>, <<"write_back", 0>>, <<"write_back_request_l2", 0>>}

\* A single unit never finds its bank taken, so it sends in every cycle from
\* its first request on.  When replies are looked at, the request it made
\* last is still in its bank: the count of its instruction is positive.
LastInBank ==
    \A u \in Unit : unit[sm][u].inst # None /\ unit[sm][u].mem_fetch_point > 1 =>
        /\ unit[sm][u].unit_latency = 0
        /\ step \in Quiet =>
              m_coalesced_address[unit[sm][u].inst][unit[sm][u].mem_fetch_point - 1] \in InBanks

BankFree == step # <<"schedule_warp", 0>> /\ step # <<"start", 0>> => m_queue_sm_to_l1_busy[sm] = {}

\* An instruction that is complete has made all its requests.
CompleteDone ==
    \A i \in Inst : completed[i] =>
        /\ i \notin unissued /\ \A u \in Unit : unit[sm][u].inst # i
        /\ Under \cap RequestsOf(i) = {}

AInv == LastInBank /\ BankFree /\ CompleteDone

LEMMA QuietIs ==
    ASSUME NEW k
    PROVE  /\ <<"bank", k>> \notin Quiet /\ <<"m_miss_queue_cycle", k>> \notin Quiet
           /\ <<"unit", k>> \notin Quiet
BY DEF Quiet

\* Requests that come back complete an instruction only when it has no
\* request left to make.
LEMMA BackAlone ==
    ASSUME IInv, Held, PInv, AInv, NEW done, Release(done), done \cap InBanks = {},
           done \subseteq Under, Under' = Under \ done, step \in Quiet, UNCHANGED <<unit, unissued>>
    PROVE  CompleteDone'
<1> SUFFICES ASSUME NEW i \in Inst, completed'[i]
             PROVE  /\ i \notin unissued /\ \A u \in Unit : unit[sm][u].inst # i
                    /\ Under' \cap RequestsOf(i) = {}
  BY DEF CompleteDone
<1>1. CASE completed[i]
  BY <1>1 DEF AInv, CompleteDone
<1>2. CASE ~completed[i]
  <2>1. Under \cap RequestsOf(i) # {} /\ Under' \cap RequestsOf(i) = {}
    BY <1>2, CountReleased
  <2>2. RequestsOf(i) \subseteq MemFetch
    <3>1. m_coalesced_address[i] \in Seq(MemFetch)
      BY L1Assumption
    <3> QED BY <3>1 DEF RequestsOf, Range
  <2>3. i \notin unissued
    <3>1. i \in unissued => RequestsOf(i) \subseteq Later
      BY <2>2 DEF Later
    <3> QED BY <2>1, <3>1 DEF PInv
  <2>4. ASSUME NEW u \in Unit, unit[sm][u].inst = i PROVE FALSE
    <3> DEFINE p == unit[sm][u].mem_fetch_point
               q == m_coalesced_address[i]
    <3>1. unit[sm][u] \in Sending /\ p <= Len(q) /\ i # None
      <4>1. unit[sm][u] \in Sending
        BY SmAssumption DEF IInv, Typed
      <4>2. i # None
        BY L1Assumption
      <4>3. p <= Len(q)
        BY <2>4, <4>2 DEF IInv, Typed
      <4> QED BY <4>1, <4>2, <4>3
    <3>2. p \in Nat \ {0}
      BY <3>1 DEF Sending
    <3>3. q \in Seq(MemFetch)
      BY L1Assumption
    <3>4. RequestsOf(i) = {q[k] : k \in DOMAIN q}
      BY DEF RequestsOf, Range
    <3>5. CASE p = 1
      <4>1. \A k \in DOMAIN q : k >= p
        BY <3>3, <3>5
      <4>2. RequestsOf(i) \subseteq Later
        BY <2>2, <2>4, <3>1, <3>4, <4>1 DEF Later
      <4> QED BY <2>1, <4>2 DEF PInv
    <3>6. CASE p # 1
      <4>1. q[p - 1] \in InBanks
        BY <2>4, <3>1, <3>2, <3>6 DEF AInv, LastInBank
      <4>2. p - 1 \in DOMAIN q
        BY <3>1, <3>2, <3>3, <3>6
      <4>3. q[p - 1] \in RequestsOf(i)
        BY <3>4, <4>2
      <4>4. q[p - 1] \in Under'
        BY <4>1 DEF Under
      <4> QED BY <2>1, <4>3, <4>4
    <3> QED BY <3>5, <3>6
  <2> QED BY <2>1, <2>3, <2>4
<1> QED BY <1>1, <1>2

\* Calls that do not touch units, banks or counters.
LEMMA QuietAlone ==
    ASSUME AInv, UNCHANGED <<unit, unissued, completed>>, Under' \subseteq Under,
           step' \in Quiet => step \in Quiet /\ InBanks' = InBanks,
           BankFree'
    PROVE  AInv'
<1>1. LastInBank'
  <2>1. CASE step' \in Quiet
    <3>1. step \in Quiet /\ InBanks' = InBanks
      BY <2>1
    <3> QED BY <3>1 DEF AInv, LastInBank
  <2>2. CASE step' \notin Quiet
    BY <2>2 DEF AInv, LastInBank
  <2> QED BY <2>1, <2>2
<1>2. CompleteDone'
  BY DEF AInv, CompleteDone
<1> QED BY <1>1, <1>2 DEF AInv

\* The unit sends, or has an instruction whose first request is not made
\* yet, or has none.
LEMMA UnitAlone ==
    ASSUME n_lds_units = 1, IInv, Held, PInv, PInv', AInv, NEW u \in Unit, unit_cycle(sm, u),
           UNCHANGED envVars
    PROVE  AInv'
<1> DEFINE v == unit[sm][u]
           mf == NextRequest(sm, u)
           i == v.inst
<1>1. Unit = {1} /\ u = 1
  BY DEF Unit
<1>2. step = <<"unit", u>> /\ step' = <<"schedule_warp", 0>> /\ UNCHANGED <<unissued, completed>>
  BY <1>1 DEF unit_cycle, At, NextUnit, Goto
<1>3. BankFree'
  BY <1>2 DEF BankFree
<1>4. m_queue_sm_to_l1_busy[sm] = {}
  BY <1>2 DEF AInv, BankFree
<1>5. unit \in [Sm -> [Unit -> Sending]] /\ v \in Sending
  BY SmAssumption DEF IInv, Typed
<1>6. CASE SendRequest(sm, u)
  <2>1. /\ i \in Inst /\ i # None /\ v.unit_latency = 0
        /\ v.mem_fetch_point \in DOMAIN m_coalesced_address[i] /\ v.mem_fetch_point \in Nat \ {0}
        /\ mf = m_coalesced_address[i][v.mem_fetch_point] /\ mf \in MemFetch /\ mf \in RequestsOf(i)
        /\ \/ unit'[sm][u] = IdleUnit
           \/ /\ unit'[sm][u].inst = i /\ unit'[sm][u].mem_fetch_point = v.mem_fetch_point + 1
              /\ unit'[sm][u].unit_latency = v.unit_latency
    BY <1>6, SendFacts
  <2>2. mf \in InBanks'
    BY <1>6, UnitPlaced
  <2>3. IdleUnit.inst = None
    BY DEF IdleUnit
  <2>4. LastInBank'
    <3> SUFFICES ASSUME unit'[sm][u].inst # None
                 PROVE  /\ unit'[sm][u].unit_latency = 0
                        /\ m_coalesced_address[unit'[sm][u].inst][unit'[sm][u].mem_fetch_point - 1]
                              \in InBanks'
      BY <1>1 DEF LastInBank
    <3>1. /\ unit'[sm][u].inst = i /\ unit'[sm][u].mem_fetch_point = v.mem_fetch_point + 1
          /\ unit'[sm][u].unit_latency = 0
      BY <2>1, <2>3
    <3>2. unit'[sm][u].mem_fetch_point - 1 = v.mem_fetch_point
      BY <2>1, <3>1
    <3> QED BY <2>1, <2>2, <3>1, <3>2
  <2>5. CompleteDone'
    <3> SUFFICES ASSUME NEW j \in Inst, completed[j]
                 PROVE  /\ j \notin unissued /\ \A x \in Unit : unit'[sm][x].inst # j
                        /\ Under' \cap RequestsOf(j) = {}
      BY <1>2 DEF CompleteDone
    <3>1. j \notin unissued /\ j # i /\ Under \cap RequestsOf(j) = {}
      BY DEF AInv, CompleteDone
    <3>2. unit'[sm][u].inst # j
      BY <2>1, <2>3, <3>1, L1Assumption
    <3>3. mf \notin RequestsOf(j)
      BY <2>1, <3>1, OneInst
    <3>4. Under' \subseteq Under \cup {mf}
      <4>1. /\ m_queue_sm_to_l1' = [m_queue_sm_to_l1 EXCEPT ![sm][m_sector_mask[mf]] = Append(@, mf)]
            /\ UNCHANGED <<l1_mshrs, l1_to_sm, m_miss_queue, reply, in_flight>>
        BY <1>6 DEF SendRequest, unit_cycle, envVars
      <4>2. HitsOut' = HitsOut /\ Waiting' = Waiting /\ Queued' = Queued
        BY <4>1, HitsStay, WaitingStay, QueuedStay
      <4>3. mf \in Later
        <5>1. v.mem_fetch_point >= v.mem_fetch_point
          BY <2>1
        <5> QED BY <2>1, <5>1 DEF Later
      <4>4. mf \notin InBanks
        BY <4>3, UnderIs DEF PInv
      <4> HIDE DEF mf
      <4>5. InBanks' = InBanks \cup {mf}
        BY <2>1, <4>1, <4>4, BankJoined DEF PInv
      <4> QED BY <4>1, <4>2, <4>5, UnderIs
    <3> QED BY <1>1, <3>1, <3>2, <3>3, <3>4
  <2> QED BY <1>3, <2>4, <2>5 DEF AInv
<1>7. CASE UnitWaits(sm, u)
  <2>1. /\ UNCHANGED m_queue_sm_to_l1 /\ ~CanSend(sm, u)
        /\ unit' = [unit EXCEPT ![sm][u] = [v EXCEPT !.unit_latency = IF @ > 0 THEN @ - 1 ELSE @]]
    BY <1>5, <1>7 DEF UnitWaits
  <2>2. unit'[sm][u].inst = v.inst /\ unit'[sm][u].mem_fetch_point = v.mem_fetch_point
    <3> DEFINE w == [v EXCEPT !.unit_latency = IF @ > 0 THEN @ - 1 ELSE @]
    <3>1. w.inst = v.inst /\ w.mem_fetch_point = v.mem_fetch_point
      BY <1>5 DEF Sending
    <3>2. unit' = [unit EXCEPT ![sm][u] = w]
      BY <2>1
    <3> HIDE DEF w
    <3>3. unit'[sm][u] = w
      BY <1>5, <3>2, SmAssumption
    <3> QED BY <3>1, <3>3
  <2>3. ~(v.inst # None /\ v.mem_fetch_point > 1)
    <3> SUFFICES ASSUME v.inst # None, v.mem_fetch_point > 1 PROVE FALSE
      OBVIOUS
    <3>1. v.unit_latency = 0
      BY DEF AInv, LastInBank
    <3> QED BY <1>4, <2>1, <3>1 DEF CanSend
  <2>4. LastInBank'
    BY <1>1, <2>2, <2>3 DEF LastInBank
  <2>5. CompleteDone'
    <3>1. UNCHANGED <<l1_mshrs, l1_to_sm, m_miss_queue, reply, in_flight>>
      BY DEF unit_cycle, envVars
    <3>2. Under' = Under
      BY <2>1, <3>1, BanksStay, HitsStay, WaitingStay, QueuedStay, UnderIs
    <3> QED BY <1>1, <1>2, <2>2, <3>2 DEF AInv, CompleteDone
  <2> QED BY <1>3, <2>4, <2>5 DEF AInv
<1> QED BY <1>6, <1>7 DEF unit_cycle

LEMMA IssueAlone ==
    ASSUME IInv, Held, PInv, PInv', AInv, NEW i \in Inst, process_LDG_STG(sm, i), UNCHANGED envVars
    PROVE  AInv'
<1> DEFINE u == Min(FreeUnits(sm))
           w == [inst |-> i, mem_fetch_point |-> 1, unit_latency |-> ldst_unit_latency]
<1>1. /\ UNCHANGED <<step, m_queue_sm_to_l1, m_queue_sm_to_l1_busy, l1_mshrs, l1_to_sm, m_miss_queue,
                     reply, in_flight, completed>>
      /\ i \in unissued /\ unissued' = unissued \ {i}
      /\ unit' = [unit EXCEPT ![sm][u] = w]
  BY DEF process_LDG_STG, envVars
<1>2. w.inst = i /\ ~(w.mem_fetch_point > 1)
  OBVIOUS
<1> HIDE DEF u, w
<1>3. \A x \in Unit : unit'[sm][x] = IF x = u THEN w ELSE unit[sm][x]
  BY <1>1, SmAssumption DEF IInv, Typed
<1>4. InBanks' = InBanks /\ Under' = Under
  BY <1>1, BanksStay, HitsStay, WaitingStay, QueuedStay, UnderIs
<1>5. BankFree'
  BY <1>1 DEF AInv, BankFree
<1>6. LastInBank'
  <2> SUFFICES ASSUME NEW x \in Unit, unit'[sm][x].inst # None, unit'[sm][x].mem_fetch_point > 1
               PROVE  /\ unit'[sm][x].unit_latency = 0
                      /\ step \in Quiet =>
                            m_coalesced_address[unit'[sm][x].inst][unit'[sm][x].mem_fetch_point - 1]
                               \in InBanks
    BY <1>1, <1>4 DEF LastInBank
  <2>1. unit'[sm][x] = unit[sm][x]
    BY <1>2, <1>3
  <2> QED BY <2>1 DEF AInv, LastInBank
<1>7. CompleteDone'
  <2> SUFFICES ASSUME NEW j \in Inst, completed[j]
               PROVE  /\ j \notin unissued' /\ \A x \in Unit : unit'[sm][x].inst # j
                      /\ Under \cap RequestsOf(j) = {}
    BY <1>1, <1>4 DEF CompleteDone
  <2>1. j \notin unissued /\ \A x \in Unit : unit[sm][x].inst # j
    BY DEF AInv, CompleteDone
  <2>2. j # i
    BY <1>1, <2>1
  <2>3. Under \cap RequestsOf(j) = {}
    BY DEF AInv, CompleteDone
  <2> QED BY <1>1, <1>2, <1>3, <2>1, <2>2, <2>3
<1> QED BY <1>5, <1>6, <1>7 DEF AInv

LEMMA AloneStep ==
    ASSUME n_lds_units = 1
    PROVE  IInv /\ Held /\ PInv /\ PInv' /\ AInv /\ [Next]_vars => AInv'
<1> SUFFICES ASSUME IInv, Held, PInv, PInv', AInv, [Next]_vars PROVE AInv'
  OBVIOUS
<1>1. ASSUME NEW popped \in Replies, NEW has_buffer \in BOOLEAN, NEW ready \in BOOLEAN,
             Begin(popped, has_buffer, ready)
      PROVE  AInv'
  <2>1. /\ step = <<"start", 0>>
        /\ m_queue_sm_to_l1_busy' = [m_queue_sm_to_l1_busy EXCEPT ![sm] = {}]
        /\ UNCHANGED <<m_queue_sm_to_l1, unit, unissued, completed>>
    BY <1>1 DEF Begin, Start, At
  <2>2. Under' = Under /\ InBanks' = InBanks
    BY <1>1, <2>1, BeginPlaced, BanksStay
  <2>3. m_queue_sm_to_l1_busy'[sm] = {}
    BY <2>1, SmAssumption DEF Held
  <2>4. BankFree' /\ step \in Quiet
    BY <2>1, <2>3 DEF BankFree, Quiet
  <2> QED BY <2>1, <2>2, <2>4, QuietAlone
<1>2. CASE Send
  <2>1. /\ step' = <<"bank", 0>> /\ step = <<"m_miss_queue_cycle", 0>>
        /\ UNCHANGED <<m_queue_sm_to_l1_busy, unit, unissued, completed>>
    BY <1>2 DEF Send, m_miss_queue_cycle, At, Goto
  <2>2. BankFree'
    BY <2>1 DEF AInv, BankFree
  <2>3. step' \notin Quiet
    BY <2>1, QuietIs
  <2>4. Under' = Under
    BY <1>2, SendPlaced
  <2> QED BY <2>1, <2>2, <2>3, <2>4, QuietAlone
<1>3. CASE Issue
  BY <1>3, IssueAlone DEF Issue
<1>4. CASE Run
  <2>1. ASSUME write_back(sm), UNCHANGED envVars PROVE AInv'
    <3>1. /\ step = <<"write_back", 0>>
          /\ UNCHANGED <<m_queue_sm_to_l1, m_queue_sm_to_l1_busy, unit, unissued>>
      BY <2>1 DEF write_back, At
    <3>2. step \in Quiet /\ InBanks' = InBanks
      BY <3>1, BanksStay DEF Quiet
    <3>3. CompleteDone'
      BY <2>1, <3>1, <3>2, WriteBackPlaced, BackAlone
    <3>4. LastInBank'
      BY <3>1, <3>2 DEF AInv, LastInBank
    <3>5. BankFree'
      BY <3>1 DEF AInv, BankFree
    <3> QED BY <3>3, <3>4, <3>5 DEF AInv
  <2>2. ASSUME write_back_request_l2(sm), UNCHANGED envVars PROVE AInv'
    <3>1. /\ step = <<"write_back_request_l2", 0>>
          /\ UNCHANGED <<m_queue_sm_to_l1, m_queue_sm_to_l1_busy, unit, unissued>>
      BY <2>2 DEF write_back_request_l2, At
    <3>2. step \in Quiet /\ InBanks' = InBanks
      BY <3>1, BanksStay DEF Quiet
    <3>3. CompleteDone'
      <4>1. CASE UNCHANGED <<pending_request, completed>> /\ Under' = Under
        BY <3>1, <4>1 DEF AInv, CompleteDone
      <4>2. CASE \E done : /\ Release(done) /\ done \cap InBanks = {}
                           /\ done \subseteq Under /\ Under' = Under \ done
        BY <3>1, <3>2, <4>2, BackAlone
      <4> QED BY <2>2, <4>1, <4>2, ReplyPlaced
    <3>4. LastInBank'
      BY <3>1, <3>2 DEF AInv, LastInBank
    <3>5. BankFree'
      BY <3>1 DEF AInv, BankFree
    <3> QED BY <3>3, <3>4, <3>5 DEF AInv
  <2>3. ASSUME NEW b \in Sector, l1_cache_bank(sm, b), UNCHANGED envVars PROVE AInv'
    <3>1. /\ step = <<"bank", b>> /\ NextBank(b)
          /\ UNCHANGED <<m_queue_sm_to_l1_busy, unit, unissued, completed, pending_request>>
      BY <2>3 DEF l1_cache_bank, At
    <3>2. step' \notin Quiet
      BY <3>1, QuietIs DEF NextBank, Goto
    <3>3. BankFree'
      BY <3>1 DEF AInv, BankFree
    <3>4. CompleteDone'
      <4> SUFFICES ASSUME NEW i \in Inst, completed[i] PROVE Under' \cap RequestsOf(i) = {}
        BY <3>1 DEF AInv, CompleteDone
      <4> DEFINE R == Under' \cap RequestsOf(i)
      <4>1. Under \cap RequestsOf(i) = {}
        BY DEF AInv, CompleteDone
      <4>2. Cardinality(R) = 0 /\ IsFiniteSet(R)
        <5>1. pending_request[i] = Cardinality({})
          BY <4>1, CountIs DEF PInv
        <5>2. pending_request'[i] = Cardinality(R)
          BY CountIs DEF PInv
        <5>3. IsFiniteSet(R)
          BY Countable
        <5> QED BY <3>1, <5>1, <5>2, <5>3, FS_EmptySet
      <4> HIDE DEF R
      <4>3. R = {}
        BY <4>2, FS_EmptySet
      <4> QED BY <4>3 DEF R
    <3>5. LastInBank'
      BY <3>1, <3>2 DEF AInv, LastInBank
    <3> QED BY <3>3, <3>4, <3>5 DEF AInv
  <2>4. ASSUME NEW u \in Unit, unit_cycle(sm, u), UNCHANGED envVars PROVE AInv'
    BY <2>4, UnitAlone
  <2> QED BY <1>4, <2>1, <2>2, <2>3, <2>4 DEF Run
<1>5. CASE Finish
  <2>1. /\ step = <<"schedule_warp", 0>> /\ step' = <<"start", 0>>
        /\ UNCHANGED <<m_queue_sm_to_l1, l1_mshrs, l1_to_sm, m_miss_queue, reply, in_flight,
                       unit, unissued, completed>>
    BY <1>5 DEF Finish, Return, At, Goto, envVars
  <2>2. InBanks' = InBanks /\ Under' = Under
    BY <2>1, BanksStay, HitsStay, WaitingStay, QueuedStay, UnderIs
  <2>3. BankFree' /\ step \in Quiet
    BY <2>1 DEF BankFree, Quiet
  <2> QED BY <2>1, <2>2, <2>3, QuietAlone
<1>6. CASE UNCHANGED vars
  <2>1. UNCHANGED <<step, m_queue_sm_to_l1, m_queue_sm_to_l1_busy, l1_mshrs, l1_to_sm, m_miss_queue,
                    reply, in_flight, unit, unissued, completed>>
    BY <1>6 DEF vars, l1Vars, envVars
  <2>2. InBanks' = InBanks /\ Under' = Under
    BY <2>1, BanksStay, HitsStay, WaitingStay, QueuedStay, UnderIs
  <2>3. BankFree'
    BY <2>1 DEF AInv, BankFree
  <2> QED BY <2>1, <2>2, <2>3, QuietAlone
<1> QED BY <1>1, <1>2, <1>3, <1>4, <1>5, <1>6 DEF Next

LEMMA InitAlone == Init => AInv
<1> SUFFICES ASSUME Init PROVE AInv
  OBVIOUS
<1>1. /\ m_queue_sm_to_l1_busy[sm] = {} /\ completed = [i \in Inst |-> FALSE]
      /\ \A u \in Unit : unit[sm][u].inst = None
  BY SmAssumption DEF Init, InitL1, IdleUnit
<1> QED BY <1>1 DEF AInv, LastInBank, BankFree, CompleteDone

\* With one LDS unit a load or store is never complete before all its
\* requests were made and have come back, in any order of hits, misses and
\* replies: the count cannot fall to zero between two requests, because the
\* one made last is still in its bank when replies are looked at.  (With two
\* units a bank may turn a unit away, and the run l1_two_units shows that the
\* count does fall to zero.)
THEOREM NoEarlyCompletionAlone ==
    ASSUME n_lds_units = 1
    PROVE  Spec => []NoEarlyCompletion
<1>1. AInv /\ PInv => NoEarlyCompletion
  <2> SUFFICES ASSUME AInv, PInv, NEW i \in Inst, completed[i]
               PROVE  Made(i) = RequestsOf(i) /\ pending_request[i] = 0
    BY DEF NoEarlyCompletion
  <2>1. i \notin unissued /\ {u \in Unit : unit[sm][u].inst = i} = {}
    BY DEF AInv, CompleteDone
  <2>2. Made(i) = RequestsOf(i)
    BY <2>1 DEF Made
  <2>3. Under \cap RequestsOf(i) = {}
    BY DEF AInv, CompleteDone
  <2>4. pending_request[i] = 0
    BY <2>3, CountIs, FS_EmptySet DEF PInv
  <2> QED BY <2>2, <2>4
<1>2. IInv /\ Held /\ PInv /\ PInv' /\ AInv /\ [Next]_vars => AInv'
  BY AloneStep
<1> QED BY <1>1, <1>2, InitAlone, InvAlways, HeldAlways, PlacedAlways, PTL DEF Spec

=============================================================================
